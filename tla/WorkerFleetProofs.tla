-------------------------- MODULE WorkerFleetProofs --------------------------
(***************************************************************************)
(* WorkerFleet for any numbers of pods, static workers and servers: its    *)
(* types, the bound on the pods that servers launch side by side, and what *)
(* is in the index of workers.                                             *)
(***************************************************************************)
EXTENDS WorkerFleet, FiniteSetTheorems, TLAPS

-----------------------------------------------------------------------------
(* What CountActive returns.                                               *)

LEMMA MaxOfTwo ==
  ASSUME NEW a \in Int, NEW b \in Int
  PROVE  Max({a, b}) = IF a >= b THEN a ELSE b
  <1> DEFINE m == IF a >= b THEN a ELSE b
  <1>1. m \in {a, b} /\ \A y \in {a, b} : m >= y
    OBVIOUS
  <1>2. \A x \in {a, b} : (\A y \in {a, b} : x >= y) => x = m
    OBVIOUS
  <1> QED
    BY <1>1, <1>2 DEF Max

LEMMA MinOfTwo ==
  ASSUME NEW a \in Int, NEW b \in Int
  PROVE  Min({a, b}) = IF a =< b THEN a ELSE b
  <1> DEFINE m == IF a =< b THEN a ELSE b
  <1>1. m \in {a, b} /\ \A y \in {a, b} : m =< y
    OBVIOUS
  <1>2. \A x \in {a, b} : (\A y \in {a, b} : x =< y) => x = m
    OBVIOUS
  <1> QED
    BY <1>1, <1>2 DEF Min

LEMMA ActiveFinite ==
  /\ IsFiniteSet(ActiveJobs)
  /\ Cardinality(ActiveJobs) \in Nat
  <1>1. ActiveJobs \in SUBSET Pods
    BY DEF ActiveJobs
  <1> QED
    BY <1>1, FS_Subset, FS_CardinalityType, FleetAssumption

\* No pass launches more than the limit leaves room for.
LEMMA LaunchRange ==
  ASSUME NEW depth \in Nat
  PROVE  /\ ToLaunch(depth) \in 0..MaxPods
         /\ ToLaunch(depth) # 0 => ToLaunch(depth) + Cardinality(ActiveJobs) <= MaxPods
  <1> DEFINE wanted == Min({depth, MaxPods})
             active == Cardinality(ActiveJobs)
  <1>1. wanted \in 0..MaxPods
    BY MinOfTwo, FleetAssumption
  <1>2. active \in Nat
    BY ActiveFinite
  <1>3. ToLaunch(depth) = IF 0 >= wanted - active THEN 0 ELSE wanted - active
    <2> HIDE DEF wanted, active
    <2>1. wanted - active \in Int
      BY <1>1, <1>2
    <2>2. ToLaunch(depth) = Max({0, wanted - active})
      BY DEF ToLaunch, wanted, active
    <2> QED
      BY <2>1, <2>2, MaxOfTwo
  <1> HIDE DEF wanted, active
  <1> QED
    BY <1>1, <1>2, <1>3, FleetAssumption DEF active

-----------------------------------------------------------------------------
(* FleetTypeOK, action by action.                                          *)

LEMMA FleetTypeInit == Init => FleetTypeOK
  <1> SUFFICES ASSUME Init PROVE FleetTypeOK
    OBVIOUS
  <1>1. RegistryTypeOK
    BY DEF Init, RegistryInit, RegistryTypeOK
  <1>2. scale \in [Servers -> Scaling]
    BY DEF Init, Resting, Scaling
  <1> QED
    BY <1>1, <1>2, FleetAssumption DEF Init, FleetTypeOK, Resting, Points, JobStatus

LEMMA FleetTypeWorker ==
  ASSUME FleetTypeOK, NEW w \in Workers,
         StartStatic(w) \/ WorkerStep(w) \/ Dies(w) \/ Expires(w)
  PROVE  FleetTypeOK'
  <1> USE FleetAssumption
  <1>1. CASE StartStatic(w)
    BY <1>1 DEF StartStatic, At, Goto, OneShot, rest, registry, FleetTypeOK, RegistryTypeOK, Points
  <1>2. CASE Register(w)
    BY <1>2 DEF Register, SetWorker, ListWorker, At, Goto, rest, registry,
                FleetTypeOK, RegistryTypeOK, Points
  <1>3. CASE Dequeue(w)
    BY <1>3 DEF Dequeue, Heartbeat, AfterJob, At, Goto, registry,
                FleetTypeOK, RegistryTypeOK, Points
  <1>4. CASE DequeueTimesOut(w) \/ TranscodeEnds(w)
    BY <1>4 DEF DequeueTimesOut, TranscodeEnds, AfterJob, At, Goto, rest, registry,
                FleetTypeOK, RegistryTypeOK, Points
  <1>5. CASE Beat(w)
    BY <1>5 DEF Beat, Heartbeat, At, Goto, rest, registry, FleetTypeOK, RegistryTypeOK, Points
  <1>6. CASE Deregister(w)
    BY <1>6 DEF Deregister, DeleteWorker, UnlistWorker, At, Goto, rest, registry,
                FleetTypeOK, RegistryTypeOK, Points
  <1>7. CASE ProcessGone(w)
    BY <1>7 DEF ProcessGone, Vacate, At, Goto, FleetTypeOK, RegistryTypeOK, Points, JobStatus
  <1>8. CASE Dies(w)
    BY <1>8 DEF Dies, At, Goto, registry, FleetTypeOK, RegistryTypeOK, Points
  <1>9. CASE Expires(w)
    BY <1>9 DEF Expires, Lapse, rest, FleetTypeOK, RegistryTypeOK
  <1> QED
    BY <1>1, <1>2, <1>3, <1>4, <1>5, <1>6, <1>7, <1>8, <1>9 DEF WorkerStep

LEMMA FleetTypePods ==
  ASSUME FleetTypeOK, NEW p \in Pods, PodStarts(p)
  PROVE  FleetTypeOK'
  BY FleetAssumption DEF PodStarts, At, Goto, registry, FleetTypeOK, RegistryTypeOK,
                         Points, JobStatus

LEMMA FleetTypePush ==
  ASSUME FleetTypeOK, Push
  PROVE  FleetTypeOK'
  BY FleetAssumption DEF Push, registry, FleetTypeOK, RegistryTypeOK

\* A pod that is launched has no process yet.
LEMMA LaunchedPod ==
  ASSUME FleetTypeOK, NEW s \in Servers, LaunchWorker(s)
  PROVE  \E p \in Pods \ ActiveJobs :
           k8sJob' = [k8sJob EXCEPT ![p] = "created"] /\ pc[p] = "off"
  <1> DEFINE p == CHOOSE q \in Pods \ ActiveJobs : TRUE
  <1>1. Pods \ ActiveJobs # {}
    BY DEF LaunchWorker, ActiveJobs
  <1>2. p \in Pods \ ActiveJobs
    BY <1>1
  <1>3. k8sJob' = [k8sJob EXCEPT ![p] = "created"]
    BY DEF LaunchWorker
  <1> HIDE DEF p
  <1>4. pc[p] = "off"
    BY <1>2 DEF ActiveJobs, IsActiveJob, FleetTypeOK
  <1> QED
    BY <1>2, <1>3, <1>4

LEMMA FleetTypeScale ==
  ASSUME FleetTypeOK, NEW s \in Servers, ScaleStep(s) \/ ScalingFails(s)
  PROVE  FleetTypeOK'
  <1> USE FleetAssumption
  <1>0. scale[s] \in Scaling
    BY DEF FleetTypeOK
  <1>1. CASE ReadDepth(s)
    BY <1>1 DEF ReadDepth, Scale, Scaling, registry, FleetTypeOK, RegistryTypeOK
  <1>2. CASE CountActive(s)
    <2> DEFINE left == ToLaunch(scale[s].depth)
    <2>1. left \in Nat
      BY <1>0, LaunchRange DEF Scaling
    <2>2. scale' = [scale EXCEPT ![s] = IF left = 0 THEN Resting
                                        ELSE [at |-> "launch", depth |-> 0, left |-> left]]
      BY <1>2 DEF CountActive, Scale
    <2> HIDE DEF left
    <2>3. scale' \in [Servers -> Scaling]
      BY <2>1, <2>2 DEF FleetTypeOK, Scaling, Resting
    <2>4. \A r \in Servers : scale'[r].at = "launch" => scale'[r].left > 0
      BY <2>1, <2>2 DEF FleetTypeOK, Resting
    <2> QED
      BY <1>2, <2>3, <2>4 DEF CountActive, registry, FleetTypeOK, RegistryTypeOK
  <1>3. CASE LaunchWorker(s)
    <2>1. PICK p \in Pods \ ActiveJobs :
            k8sJob' = [k8sJob EXCEPT ![p] = "created"] /\ pc[p] = "off"
      BY <1>3, LaunchedPod
    <2>2. k8sJob' \in [Pods -> JobStatus] /\ \A q \in Pods : k8sJob'[q] = "active" <=> pc[q] # "off"
      BY <2>1 DEF FleetTypeOK, JobStatus
    <2>3. scale' \in [Servers -> Scaling]
      BY <1>0, <1>3 DEF LaunchWorker, Scale, FleetTypeOK, Scaling, Resting
    <2>4. \A r \in Servers : scale'[r].at = "launch" => scale'[r].left > 0
      BY <1>0, <1>3 DEF LaunchWorker, Scale, FleetTypeOK, Scaling, Resting
    <2> QED
      BY <1>3, <2>2, <2>3, <2>4 DEF LaunchWorker, registry, FleetTypeOK, RegistryTypeOK
  <1>4. CASE ScalingFails(s)
    BY <1>4 DEF ScalingFails, Scale, Scaling, Resting, registry, FleetTypeOK, RegistryTypeOK
  <1> QED
    BY <1>1, <1>2, <1>3, <1>4 DEF ScaleStep

\* Every variable of WorkerFleet keeps its type; a Kubernetes job is active
\* exactly while its process runs or has just ended, and a server that launches
\* has a pod left to launch.
THEOREM FleetTyped == Spec => []FleetTypeOK
  <1>1. FleetTypeOK /\ [Next]_vars => FleetTypeOK'
    <2> SUFFICES ASSUME FleetTypeOK, [Next]_vars PROVE FleetTypeOK'
      OBVIOUS
    <2>1. CASE UNCHANGED vars
      BY <2>1 DEF vars, registry, FleetTypeOK, RegistryTypeOK
    <2>2. CASE Next
      BY <2>2, FleetTypeWorker, FleetTypePods, FleetTypePush, FleetTypeScale DEF Next
    <2> QED
      BY <2>1, <2>2
  <1> QED
    BY <1>1, FleetTypeInit, PTL DEF Spec

-----------------------------------------------------------------------------
(* RegisteredIsListed and OrphansDied.  Between SADD and SREM a process is  *)
(* in the index; outside of SET and DEL it has no key, unless it died.      *)

Indexed == InService \cup {"deregister"}

HoldsIndex(w) ==
  /\ pc[w] \in Indexed => w \in listed
  /\ w \in keyed => pc[w] \in Indexed \cup {"list", "died"}
  /\ pc[w] \in {"off", "ended"} => w \notin listed

Died == {w \in Workers : pc[w] = "died"}

\* What has died is still to be counted, if it is in the index.
OrphansCounted ==
  /\ IsFiniteSet(Died)
  /\ orphans + Cardinality(Died) <= faults

RegistryInv ==
  /\ FleetTypeOK
  /\ \A w \in Workers : HoldsIndex(w)
  /\ OrphansCounted

LEMMA HoldsIndexInit ==
  ASSUME Init
  PROVE  \A w \in Workers : HoldsIndex(w)
  BY DEF Init, RegistryInit, HoldsIndex, Indexed, InService

\* A step of process w concerns nobody else's entries.
LEMMA HoldsIndexStep ==
  ASSUME FleetTypeOK, NEW w \in Workers, NEW v \in Workers, HoldsIndex(v),
         StartStatic(w) \/ WorkerStep(w) \/ Dies(w) \/ Expires(w)
  PROVE  HoldsIndex(v)'
  <1> USE DEF HoldsIndex, Indexed, InService, At, Goto, FleetTypeOK
  <1>1. CASE StartStatic(w)
    BY <1>1 DEF StartStatic, registry
  <1>2. CASE Register(w)
    BY <1>2 DEF Register, SetWorker, ListWorker
  <1>3. CASE Dequeue(w)
    BY <1>3 DEF Dequeue, Heartbeat, AfterJob, registry
  <1>4. CASE DequeueTimesOut(w) \/ TranscodeEnds(w)
    BY <1>4 DEF DequeueTimesOut, TranscodeEnds, AfterJob, registry
  <1>5. CASE Beat(w)
    BY <1>5 DEF Beat, Heartbeat, registry
  <1>6. CASE Deregister(w)
    BY <1>6 DEF Deregister, DeleteWorker, UnlistWorker
  <1>7. CASE ProcessGone(w)
    BY <1>7 DEF ProcessGone, Vacate
  <1>8. CASE Dies(w)
    BY <1>8 DEF Dies, registry
  <1>9. CASE Expires(w)
    BY <1>9 DEF Expires, Lapse
  <1> QED
    BY <1>1, <1>2, <1>3, <1>4, <1>5, <1>6, <1>7, <1>8, <1>9 DEF WorkerStep

\* Dies adds a process to those that died, and ProcessGone takes one away.
LEMMA OrphansStep ==
  ASSUME FleetTypeOK, OrphansCounted, NEW w \in Workers, HoldsIndex(w),
         StartStatic(w) \/ WorkerStep(w) \/ Dies(w) \/ Expires(w)
  PROVE  OrphansCounted'
  <1>1. /\ orphans \in Nat /\ faults \in Nat /\ Cardinality(Died) \in Nat
        /\ pc \in [Workers -> Points] /\ IsFiniteSet(Died)
    BY FleetAssumption, FS_CardinalityType DEF FleetTypeOK, RegistryTypeOK, OrphansCounted
  <1>2. CASE ProcessGone(w)
    <2>1. Died' = Died \ {w} /\ faults' = faults
      BY <1>1, <1>2 DEF ProcessGone, Goto, Died
    <2>2. /\ IsFiniteSet(Died')
          /\ Cardinality(Died') = IF w \in Died THEN Cardinality(Died) - 1 ELSE Cardinality(Died)
      BY <1>1, <2>1, FS_RemoveElement
    <2>3. w \notin Died => w \notin listed
      BY <1>2 DEF ProcessGone, HoldsIndex, Died
    <2>4. orphans' = IF w \in listed THEN orphans + 1 ELSE orphans
      BY <1>1, <1>2 DEF ProcessGone, Vacate
    <2> QED
      BY <1>1, <2>1, <2>2, <2>3, <2>4 DEF OrphansCounted
  <1>3. CASE Dies(w)
    <2>1. Died' = Died \cup {w} /\ faults' = faults + 1 /\ orphans' = orphans
      BY <1>1, <1>3 DEF Dies, Goto, Died, registry
    <2>2. /\ IsFiniteSet(Died')
          /\ Cardinality(Died') = IF w \in Died THEN Cardinality(Died) ELSE Cardinality(Died) + 1
      BY <1>1, <2>1, FS_AddElement
    <2>3. Cardinality(Died') \in Nat
      BY <2>2, FS_CardinalityType
    <2> QED
      BY <1>1, <2>1, <2>2, <2>3 DEF OrphansCounted
  <1>4. CASE StartStatic(w) \/ Register(w) \/ Dequeue(w) \/ DequeueTimesOut(w) \/ Beat(w)
             \/ TranscodeEnds(w) \/ Deregister(w) \/ Expires(w)
    <2>1. Died' = Died \/ Died' = Died \ {w}
      BY <1>1, <1>4 DEF StartStatic, Register, Dequeue, DequeueTimesOut, Beat, TranscodeEnds,
                        Deregister, Expires, AfterJob, At, Goto, Died, rest
    <2>2. orphans' = orphans /\ faults' = faults
      BY <1>4 DEF StartStatic, Register, SetWorker, ListWorker, Dequeue, DequeueTimesOut, Beat,
                  Heartbeat, TranscodeEnds, Deregister, DeleteWorker, UnlistWorker, Expires, Lapse,
                  rest, registry
    <2>3. IsFiniteSet(Died') /\ Cardinality(Died') <= Cardinality(Died)
      BY <1>1, <2>1, FS_RemoveElement
    <2>4. Cardinality(Died') \in Nat
      BY <2>3, FS_CardinalityType
    <2> QED
      BY <1>1, <2>2, <2>3, <2>4 DEF OrphansCounted
  <1> QED
    BY <1>2, <1>3, <1>4 DEF WorkerStep

\* The environment and the servers touch neither the index nor a process that
\* is listed: Kubernetes starts pods that are off.
LEMMA RegistryElsewhere ==
  ASSUME FleetTypeOK, OrphansCounted, \A w \in Workers : HoldsIndex(w),
         \/ Push
         \/ \E p \in Pods : PodStarts(p)
         \/ \E s \in Servers : ScaleStep(s) \/ ScalingFails(s)
  PROVE  OrphansCounted' /\ \A w \in Workers : HoldsIndex(w)'
  <1>1. /\ orphans \in Nat /\ faults \in Nat /\ Cardinality(Died) \in Nat
        /\ pc \in [Workers -> Points] /\ IsFiniteSet(Died)
    BY FleetAssumption, FS_CardinalityType DEF FleetTypeOK, RegistryTypeOK, OrphansCounted
  <1>2. /\ UNCHANGED registry
        /\ faults' = faults \/ faults' = faults + 1
    BY DEF Push, PodStarts, ScaleStep, ReadDepth, CountActive, LaunchWorker, ScalingFails
  <1>3. CASE UNCHANGED pc
    BY <1>1, <1>2, <1>3 DEF HoldsIndex, OrphansCounted, Died, registry
  <1>4. ASSUME NEW p \in Pods, PodStarts(p)
        PROVE  OrphansCounted' /\ \A w \in Workers : HoldsIndex(w)'
    <2>1. pc[p] = "off" /\ pc' = [pc EXCEPT ![p] = "register"]
      BY <1>4 DEF PodStarts, Goto, FleetTypeOK
    <2>2. Died' = Died
      BY <1>1, <2>1 DEF Died
    <2>3. \A w \in Workers : HoldsIndex(w)'
      BY <1>1, <1>2, <2>1 DEF HoldsIndex, Indexed, InService, registry
    <2> QED
      BY <1>1, <1>2, <2>2, <2>3 DEF OrphansCounted, registry
  <1> QED
    BY <1>3, <1>4 DEF Push, ScaleStep, ReadDepth, CountActive, LaunchWorker, ScalingFails

LEMMA RegistryInvInit == Init => RegistryInv
  <1> SUFFICES ASSUME Init PROVE OrphansCounted
    BY FleetTypeInit, HoldsIndexInit DEF RegistryInv
  <1>1. Died = {} /\ orphans = 0 /\ faults = 0
    BY DEF Init, RegistryInit, Died
  <1> QED
    BY <1>1, FS_EmptySet DEF OrphansCounted

LEMMA RegistryInvStep == RegistryInv /\ FleetTypeOK' /\ [Next]_vars => RegistryInv'
  <1> SUFFICES ASSUME RegistryInv, FleetTypeOK', [Next]_vars PROVE RegistryInv'
    OBVIOUS
  <1> USE DEF RegistryInv
  <1>1. CASE UNCHANGED vars
    BY <1>1 DEF vars, registry, HoldsIndex, OrphansCounted, Died
  <1>2. ASSUME NEW w \in Workers, StartStatic(w) \/ WorkerStep(w) \/ Dies(w) \/ Expires(w)
        PROVE  RegistryInv'
    BY <1>2, HoldsIndexStep, OrphansStep
  <1>3. CASE \/ Push
             \/ \E p \in Pods : PodStarts(p)
             \/ \E s \in Servers : ScaleStep(s) \/ ScalingFails(s)
    BY <1>3, RegistryElsewhere
  <1> QED
    BY <1>1, <1>2, <1>3 DEF Next

\* Whatever registers, beats, ends or dies, and whichever keys expire: a worker
\* in service is in the index, and a key has an entry there, but for a process
\* between the two commands, or that died there.
THEOREM FleetListed == Spec => []RegisteredIsListed
  <1>1. RegistryInv => RegisteredIsListed
    BY DEF RegistryInv, HoldsIndex, RegisteredIsListed, Indexed
  <1> QED
    BY <1>1, FleetTyped, RegistryInvInit, RegistryInvStep, PTL DEF Spec

\* Nothing but a process that died leaves an id in the index for good.
THEOREM FleetOrphans == Spec => []OrphansDied
  <1>1. RegistryInv => OrphansDied
    <2> SUFFICES ASSUME RegistryInv PROVE OrphansDied
      OBVIOUS
    <2>1. orphans \in Nat /\ faults \in Nat /\ Cardinality(Died) \in Nat
      BY FleetAssumption, FS_CardinalityType DEF RegistryInv, FleetTypeOK, RegistryTypeOK, OrphansCounted
    <2> QED
      BY <2>1 DEF RegistryInv, OrphansCounted, OrphansDied
  <1> QED
    BY <1>1, FleetTyped, RegistryInvInit, RegistryInvStep, PTL DEF Spec

-----------------------------------------------------------------------------
(* PodsBounded.  A server that launches has claims on the pods it still has *)
(* to launch.  When it makes them, the pods that run and its own claims are *)
(* MaxPods at most, and so are the claims of every other server.            *)

Claims == {c \in Servers \X (1..MaxPods) : c[2] <= scale[c[1]].left}

ClaimsOK ==
  \A s \in Servers : scale[s].left <= MaxPods /\ (scale[s].at # "launch" => scale[s].left = 0)

ClaimsBounded ==
  Cardinality(ActiveJobs) + Cardinality(Claims) <= MaxPods * Cardinality(Servers)

PodsInv == ClaimsOK /\ ClaimsBounded

LEMMA ClaimsFinite ==
  /\ IsFiniteSet(Claims) /\ Cardinality(Claims) \in Nat
  /\ Cardinality(Servers) \in Nat
  <1>1. IsFiniteSet(1..MaxPods) /\ IsFiniteSet(Servers)
    BY FS_Interval, FleetAssumption
  <1>2. IsFiniteSet(Servers \X (1..MaxPods))
    BY <1>1, FS_Product
  <1>3. Claims \in SUBSET (Servers \X (1..MaxPods))
    BY DEF Claims
  <1>4. IsFiniteSet(Claims)
    BY <1>2, <1>3, FS_Subset
  <1> QED
    BY <1>1, <1>4, FS_CardinalityType

\* Pods that end and claims that are given up do no harm.
LEMMA FewerPods ==
  ASSUME ClaimsBounded, ActiveJobs' \subseteq ActiveJobs, Claims' \subseteq Claims
  PROVE  ClaimsBounded'
  <1>1. /\ IsFiniteSet(ActiveJobs) /\ Cardinality(ActiveJobs) \in Nat
        /\ IsFiniteSet(Claims) /\ Cardinality(Claims) \in Nat
        /\ MaxPods * Cardinality(Servers) \in Nat
    BY ActiveFinite, ClaimsFinite, FleetAssumption
  <1>2. /\ IsFiniteSet(ActiveJobs') /\ Cardinality(ActiveJobs') <= Cardinality(ActiveJobs)
        /\ IsFiniteSet(Claims') /\ Cardinality(Claims') <= Cardinality(Claims)
    BY <1>1, FS_Subset
  <1>3. Cardinality(ActiveJobs') \in Nat /\ Cardinality(Claims') \in Nat
    BY <1>2, FS_CardinalityType
  <1> QED
    BY <1>1, <1>2, <1>3 DEF ClaimsBounded

LEMMA PodsInvInit == Init => PodsInv
  <1> SUFFICES ASSUME Init PROVE PodsInv
    OBVIOUS
  <1>1. ClaimsOK
    BY FleetAssumption DEF Init, Resting, ClaimsOK
  <1>2. ActiveJobs = {}
    BY DEF Init, ActiveJobs, IsActiveJob
  <1>3. Claims = {}
    BY FleetAssumption DEF Init, Resting, Claims
  <1>4. MaxPods * Cardinality(Servers) \in Nat
    BY ClaimsFinite, FleetAssumption
  <1>5. ClaimsBounded
    BY <1>2, <1>3, <1>4, FS_EmptySet DEF ClaimsBounded
  <1> QED
    BY <1>1, <1>5 DEF PodsInv

\* The size of a product, by those of its factors.
LEMMA ProductSize ==
  ASSUME NEW S, IsFiniteSet(S), NEW T, IsFiniteSet(T),
         NEW m, Cardinality(S) = m, NEW n, Cardinality(T) = n
  PROVE  IsFiniteSet(S \X T) /\ Cardinality(S \X T) = m * n
  BY FS_Product, Zenon

\* The server had no claims before it counted: the claims there are belong to
\* the others.
LEMMA PodsCount ==
  ASSUME FleetTypeOK, PodsInv, NEW s \in Servers, CountActive(s)
  PROVE  PodsInv'
  <1> DEFINE left   == ToLaunch(scale[s].depth)
             own    == {s} \X (1..left)
             others == (Servers \ {s}) \X (1..MaxPods)
             active == Cardinality(ActiveJobs)
  <1>1. /\ scale[s] \in Scaling /\ scale \in [Servers -> Scaling]
        /\ scale[s].left = 0
    BY DEF FleetTypeOK, PodsInv, ClaimsOK, CountActive
  <1>2. /\ left \in 0..MaxPods
        /\ left # 0 => left + active <= MaxPods
    BY <1>1, LaunchRange DEF Scaling
  <1>3. scale' = [scale EXCEPT ![s] = IF left = 0 THEN Resting
                                      ELSE [at |-> "launch", depth |-> 0, left |-> left]]
    BY DEF CountActive, Scale
  <1>4. ActiveJobs' = ActiveJobs
    BY DEF CountActive, ActiveJobs, IsActiveJob
  <1> HIDE DEF left
  <1>5. scale'[s].left = left /\ \A r \in Servers \ {s} : scale'[r] = scale[r]
    BY <1>1, <1>3 DEF Resting
  <1>6. ClaimsOK'
    BY <1>1, <1>2, <1>3, FleetAssumption DEF PodsInv, ClaimsOK, Resting
  <1>7. Claims' = Claims \cup own
    BY <1>1, <1>2, <1>5, FleetAssumption DEF Claims
  <1>8. CASE left = 0
    <2>1. Claims' \subseteq Claims
      BY <1>7, <1>8
    <2> QED
      BY <1>4, <1>6, <2>1, FewerPods DEF PodsInv
  <1>9. CASE left # 0
    <2>1. Claims \in SUBSET others
      BY <1>1, FleetAssumption DEF Claims
    <2>2. /\ IsFiniteSet(Servers \ {s}) /\ Cardinality(Servers \ {s}) = Cardinality(Servers) - 1
          /\ IsFiniteSet(1..MaxPods) /\ Cardinality(1..MaxPods) = MaxPods
      <3>1. IsFiniteSet(Servers \ {s}) /\ Cardinality(Servers \ {s}) = Cardinality(Servers) - 1
        BY FS_RemoveElement, FleetAssumption
      <3>2. IsFiniteSet(1..MaxPods) /\ Cardinality(1..MaxPods) = IF 1 > MaxPods THEN 0 ELSE MaxPods - 1 + 1
        BY FS_Interval, FleetAssumption
      <3> QED
        BY <3>1, <3>2, FleetAssumption
    <2>3. IsFiniteSet(others) /\ Cardinality(others) = (Cardinality(Servers) - 1) * MaxPods
      <3> DEFINE siblings == Servers \ {s}
                 slots == 1..MaxPods
      <3>1. /\ IsFiniteSet(siblings) /\ Cardinality(siblings) = Cardinality(Servers) - 1
            /\ IsFiniteSet(slots) /\ Cardinality(slots) = MaxPods
        BY <2>2
      <3> HIDE DEF siblings, slots
      <3>2. IsFiniteSet(siblings \X slots) /\ Cardinality(siblings \X slots) = (Cardinality(Servers) - 1) * MaxPods
        BY <3>1, ProductSize
      <3> QED
        BY <3>2 DEF siblings, slots
    <2>4. Cardinality(Claims) <= (Cardinality(Servers) - 1) * MaxPods
      BY <2>1, <2>3, FS_Subset
    <2>5. IsFiniteSet(1..left) /\ Cardinality(1..left) = left
      BY <1>2, <1>9, FS_Interval, FleetAssumption
    <2>6. IsFiniteSet(own) /\ Cardinality(own) = 1 * left
      <3>1. IsFiniteSet({s}) /\ Cardinality({s}) = 1
        BY FS_Singleton
      <3> QED
        <4> DEFINE single == {s}
                   slots == 1..left
        <4>1. /\ IsFiniteSet(single) /\ Cardinality(single) = 1
              /\ IsFiniteSet(slots) /\ Cardinality(slots) = left
          BY <2>5, <3>1
        <4> HIDE DEF single, slots
        <4>2. IsFiniteSet(single \X slots) /\ Cardinality(single \X slots) = 1 * left
          BY <4>1, ProductSize
        <4> QED
          BY <4>2 DEF single, slots
    <2>7. Cardinality(Claims') = Cardinality(Claims) + Cardinality(own) - Cardinality(Claims \cap own)
      BY <1>7, <2>6, ClaimsFinite, FS_Union
    <2>8. IsFiniteSet(Claims \cap own)
      BY ClaimsFinite, FS_Intersection
    <2>9. Cardinality(Claims \cap own) \in Nat
      BY <2>8, FS_CardinalityType
    <2> HIDE DEF own, others
    <2>10. Cardinality(Claims') <= Cardinality(Claims) + left
      BY <1>2, <2>6, <2>7, <2>9, ClaimsFinite, FleetAssumption
    <2>11. active + left <= MaxPods /\ active \in Nat
      BY <1>2, <1>9, ActiveFinite, FleetAssumption
    <2>12. MaxPods * Cardinality(Servers) = (Cardinality(Servers) - 1) * MaxPods + MaxPods
      BY ClaimsFinite, FleetAssumption
    <2>13. IsFiniteSet(Claims') /\ Cardinality(Claims') \in Nat
      <3>1. IsFiniteSet(Claims \cup own)
        BY <2>6, ClaimsFinite, FS_Union
      <3> QED
        BY <1>7, <3>1, FS_CardinalityType
    <2>14. active + Cardinality(Claims') <= MaxPods * Cardinality(Servers)
      <3> DEFINE share == (Cardinality(Servers) - 1) * MaxPods
      <3>1. share \in Int
        BY ClaimsFinite, FleetAssumption
      <3> HIDE DEF share, active
      <3>2. /\ Cardinality(Claims) <= share /\ MaxPods * Cardinality(Servers) = share + MaxPods
        BY <2>4, <2>12 DEF share
      <3> QED
        BY <1>2, <2>10, <2>11, <2>13, <3>1, <3>2, ClaimsFinite, FleetAssumption
    <2> QED
      BY <1>4, <1>6, <2>14 DEF PodsInv, ClaimsBounded
  <1> QED
    BY <1>8, <1>9

\* A claim turns into a pod.
LEMMA PodsLaunch ==
  ASSUME FleetTypeOK, PodsInv, NEW s \in Servers, LaunchWorker(s)
  PROVE  PodsInv'
  <1> DEFINE claim == <<s, scale[s].left>>
  <1>1. PICK p \in Pods \ ActiveJobs : k8sJob' = [k8sJob EXCEPT ![p] = "created"] /\ pc[p] = "off"
    BY LaunchedPod
  <1>2. /\ scale \in [Servers -> Scaling] /\ scale[s].left \in Nat
        /\ scale[s].left > 0 /\ scale[s].left <= MaxPods
        /\ k8sJob \in [Pods -> JobStatus]
    BY DEF FleetTypeOK, Scaling, PodsInv, ClaimsOK, LaunchWorker
  <1>3. scale' = [scale EXCEPT ![s] = IF scale[s].left = 1 THEN Resting
                                      ELSE [scale[s] EXCEPT !.left = @ - 1]]
    BY DEF LaunchWorker, Scale
  <1>4. /\ scale'[s].left = scale[s].left - 1
        /\ \A r \in Servers \ {s} : scale'[r] = scale[r]
    BY <1>2, <1>3 DEF Resting, Scaling
  <1>5. ClaimsOK'
    BY <1>2, <1>3, FleetAssumption DEF LaunchWorker, PodsInv, ClaimsOK, Resting, Scaling
  <1>6. ActiveJobs' = ActiveJobs \cup {p}
    BY <1>1, <1>2 DEF ActiveJobs, IsActiveJob
  <1>7. Cardinality(ActiveJobs') = Cardinality(ActiveJobs) + 1
    BY <1>1, <1>6, ActiveFinite, FS_AddElement
  <1>8. claim \in Claims
    BY <1>2, FleetAssumption DEF Claims
  <1>9. Claims' = Claims \ {claim}
    <2>1. ASSUME NEW r \in Servers, NEW i \in 1..MaxPods
          PROVE  i <= scale'[r].left <=> i <= scale[r].left /\ <<r, i>> # claim
      BY <1>2, <1>4, FleetAssumption
    <2> QED
      BY <2>1 DEF Claims
  <1>10. Cardinality(Claims') = Cardinality(Claims) - 1
    BY <1>8, <1>9, ClaimsFinite, FS_RemoveElement
  <1>11. MaxPods * Cardinality(Servers) \in Nat
    BY ClaimsFinite, FleetAssumption
  <1> QED
    BY <1>5, <1>7, <1>10, <1>11, ActiveFinite, ClaimsFinite DEF PodsInv, ClaimsBounded

LEMMA PodsElsewhere ==
  ASSUME FleetTypeOK, PodsInv,
         \/ Push
         \/ \E w \in Workers : StartStatic(w) \/ WorkerStep(w) \/ Dies(w) \/ Expires(w)
         \/ \E p \in Pods : PodStarts(p)
         \/ \E s \in Servers : ReadDepth(s) \/ ScalingFails(s)
  PROVE  PodsInv'
  <1>1. k8sJob \in [Pods -> JobStatus] /\ scale \in [Servers -> Scaling]
    BY DEF FleetTypeOK
  <1>2. ActiveJobs' \subseteq ActiveJobs
    <2>1. \/ k8sJob' = k8sJob
          \/ \E p \in Pods : k8sJob[p] = "created" /\ k8sJob' = [k8sJob EXCEPT ![p] = "active"]
          \/ \E w \in Pods, st \in {"failed", "succeeded"} : k8sJob' = [k8sJob EXCEPT ![w] = st]
      BY DEF Push, StartStatic, WorkerStep, Register, Dequeue, DequeueTimesOut, Beat, TranscodeEnds,
             Deregister, ProcessGone, Dies, Expires, PodStarts, ReadDepth, ScalingFails, rest
    <2> QED
      BY <1>1, <2>1 DEF ActiveJobs, IsActiveJob
  <1>3. \/ scale' = scale
        \/ \E s \in Servers, rec \in Scaling :
             /\ scale' = [scale EXCEPT ![s] = rec]
             /\ rec.left = 0 /\ rec.at # "launch"
    <2>1. ASSUME NEW s \in Servers, ReadDepth(s)
          PROVE  \E rec \in Scaling : scale' = [scale EXCEPT ![s] = rec]
                                      /\ rec.left = 0 /\ rec.at # "launch"
      <3> DEFINE rec == [at |-> "count", depth |-> queue, left |-> 0]
      <3>1. rec \in Scaling /\ rec.left = 0 /\ rec.at # "launch"
        BY FleetAssumption DEF Scaling, FleetTypeOK
      <3>2. scale' = [scale EXCEPT ![s] = rec]
        BY <2>1 DEF ReadDepth, Scale
      <3> QED
        BY <3>1, <3>2
    <2>2. ASSUME NEW s \in Servers, ScalingFails(s)
          PROVE  \E rec \in Scaling : scale' = [scale EXCEPT ![s] = rec]
                                      /\ rec.left = 0 /\ rec.at # "launch"
      <3>1. Resting \in Scaling /\ Resting.left = 0 /\ Resting.at # "launch"
        BY DEF Scaling, Resting
      <3>2. scale' = [scale EXCEPT ![s] = Resting]
        BY <2>2 DEF ScalingFails, Scale
      <3> QED
        BY <3>1, <3>2
    <2> QED
      BY <2>1, <2>2 DEF Push, StartStatic, WorkerStep, Register, Dequeue, DequeueTimesOut, Beat,
             TranscodeEnds, Deregister, ProcessGone, Dies, Expires, PodStarts, rest
  <1>4. Claims' \subseteq Claims /\ ClaimsOK'
    <2>1. \A r \in Servers : scale'[r] = scale[r] \/ (scale'[r].left = 0 /\ scale'[r].at # "launch")
      BY <1>1, <1>3
    <2> QED
      BY <2>1, FleetAssumption DEF Claims, ClaimsOK, PodsInv
  <1> QED
    BY <1>2, <1>4, FewerPods DEF PodsInv

\* However the counts and launches of the servers interleave with each other and
\* with pods that come and go: no more pods than the limit, times the servers.
THEOREM FleetPods == Spec => []PodsBounded
  <1>1. FleetTypeOK /\ PodsInv /\ [Next]_vars => PodsInv'
    <2> SUFFICES ASSUME FleetTypeOK, PodsInv, [Next]_vars PROVE PodsInv'
      OBVIOUS
    <2>1. CASE UNCHANGED vars
      <3>1. ActiveJobs' = ActiveJobs /\ Claims' = Claims /\ (ClaimsOK' <=> ClaimsOK)
        BY <2>1 DEF vars, ActiveJobs, IsActiveJob, Claims, ClaimsOK
      <3> QED
        BY <3>1 DEF PodsInv, ClaimsBounded
    <2> QED
      BY <2>1, PodsCount, PodsLaunch, PodsElsewhere DEF Next, ScaleStep
  <1>2. PodsInv => PodsBounded
    BY ActiveFinite, ClaimsFinite, FleetAssumption DEF PodsInv, ClaimsBounded, PodsBounded
  <1> QED
    BY <1>1, <1>2, PodsInvInit, FleetTyped, PTL DEF Spec
=============================================================================

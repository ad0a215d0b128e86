--------------------------- MODULE InputScanProofs ---------------------------
(***************************************************************************)
(* InputScan for any files, configuration and number of servers: its       *)
(* types, how often a file is enqueued, what of a file was probed; and the *)
(* rule that is selected, for any rules and whatever is probed.            *)
(***************************************************************************)
EXTENDS ScanMatching, FiniteSetTheorems, WellFoundedInduction, TLAPS

LEMMA LessThan == \A k, i \in Nat : k < i => <<k, i>> \in OpToRel(<, Nat)
  BY DEF OpToRel

\* The first of some names is one of them.
LEMMA FirstIsOne ==
  ASSUME NEW S \in SUBSET Files, S # {}
  PROVE  First(S) \in S
  <1> DEFINE I == {i \in DOMAIN Sorted : Sorted[i] \in S}
             less == OpToRel(<, Nat)
  <1>1. DOMAIN Sorted \subseteq Nat
    BY ScanAssumption
  <1>2. I # {} /\ I \subseteq Nat
    BY <1>1 DEF Files, ToSet
  <1>3. PICK i \in I : \A k \in I : <<k, i>> \notin less
    <2> HIDE DEF I, less
    <2> QED
      BY <1>2, NatLessThanWellFounded, WFMin DEF less
  <1>4. \A k \in I : i <= k
    <2> SUFFICES ASSUME NEW k \in I PROVE i <= k
      OBVIOUS
    <2>1. k \in Nat /\ i \in Nat
      BY <1>2
    <2>2. <<k, i>> \notin less
      BY <1>3
    <2>3. k < i => <<k, i>> \in less
      BY <2>1, LessThan
    <2> HIDE DEF I, less
    <2> QED
      BY <2>1, <2>2, <2>3
  <1>5. \E n \in DOMAIN Sorted :
          Sorted[n] \in S /\ \A k \in DOMAIN Sorted : Sorted[k] \in S => n <= k
    BY <1>3, <1>4
  <1> QED
    BY <1>5 DEF First

-----------------------------------------------------------------------------
(* ScanTypeOK.  What a server holds at each point is a type of its own.    *)

HoldsOK(rec) ==
  /\ rec \in Scan
  /\ rec.at \in {"list", "stat"} => rec.todo # {}
  /\ rec.at \in {"probe", "check", "save", "mark", "push"} => rec.found # {}
  /\ rec.at \in {"check", "save", "mark"} => rec.seen \in {"torn", "whole"}

FilesOK ==
  /\ content \in [Files -> Contents]
  /\ aged \in SUBSET Files
  /\ copies \in [Files -> Nat] /\ edits \in 0..MaxEdits

JobsOK ==
  /\ processed \in SUBSET Files
  /\ saved \in [Files -> Nat]
  /\ pushed \in [Files -> Nat]
  /\ crashes \in 0..MaxCrashes

ScansOK == scan \in [Servers -> Scan] /\ \A s \in Servers : HoldsOK(scan[s])

LEMMA TypeParts == ScanTypeOK <=> FilesOK /\ ScansOK /\ JobsOK
  BY DEF ScanTypeOK, FilesOK, ScansOK, JobsOK, HoldsOK

LEMMA IdleHolds == HoldsOK(Idle)
  BY DEF HoldsOK, Idle, Scan, Points

LEMMA NextHolds ==
  ASSUME NEW found \in SUBSET Files
  PROVE  HoldsOK(NextOf(found))
  BY IdleHolds DEF NextOf, HoldsOK, Idle, Scan, Points

\* A server that takes hold of a record keeps the types of all.
LEMMA StepHolds ==
  ASSUME ScansOK, NEW s \in Servers, NEW rec, HoldsOK(rec), Step(s, rec)
  PROVE  ScansOK'
  BY DEF ScansOK, Step, HoldsOK

LEMMA HoldsFiles ==
  ASSUME ScansOK, NEW s \in Servers
  PROVE  /\ scan[s] \in Scan
         /\ scan[s].at \in {"list", "stat"} =>
              First(scan[s].todo) \in scan[s].todo /\ First(scan[s].todo) \in Files
         /\ scan[s].at \in {"probe", "check", "save", "mark", "push"} =>
              Candidate(s) \in scan[s].found /\ Candidate(s) \in Files
  BY FirstIsOne DEF ScansOK, HoldsOK, Scan, Candidate

LEMMA LookedHolds ==
  ASSUME ScansOK, NEW s \in Servers, scan[s].at \in {"list", "stat"}, NEW found \in SUBSET Files
  PROVE  HoldsOK(Looked(s, found))
  <1> DEFINE f == First(scan[s].todo)
  <1>1. scan[s] \in Scan /\ HoldsOK(scan[s]) /\ f \in scan[s].todo
    BY HoldsFiles DEF ScansOK
  <1> HIDE DEF f
  <1>2. CASE scan[s].todo = {f}
    BY <1>2, NextHolds DEF Looked, f
  <1>3. CASE scan[s].todo # {f}
    <2> DEFINE rec == [scan[s] EXCEPT !.at = "list", !.todo = @ \ {f}, !.old = @ \ {f}, !.found = found]
    <2>1. Looked(s, found) = rec
      BY <1>3 DEF Looked, f
    <2>2. rec \in Scan /\ rec.at = "list" /\ rec.todo # {}
      BY <1>1, <1>3 DEF Scan, Points
    <2> HIDE DEF rec
    <2> QED
      BY <2>1, <2>2 DEF HoldsOK
  <1> QED
    BY <1>2, <1>3

LEMMA ScanTypeInit == Init => ScanTypeOK
  <1> SUFFICES ASSUME Init PROVE ScanTypeOK
    OBVIOUS
  <1>1. FilesOK
    BY ScanAssumption DEF Init, FilesOK, Contents
  <1>2. ScansOK
    BY IdleHolds DEF Init, ScansOK, HoldsOK
  <1>3. JobsOK
    BY ScanAssumption DEF Init, JobsOK
  <1> QED
    BY <1>1, <1>2, <1>3, TypeParts

LEMMA ScanTypeUsers ==
  ASSUME FilesOK, ScansOK, JobsOK, NEW f \in Files, UserStep(f) \/ Age(f)
  PROVE  FilesOK' /\ ScansOK' /\ JobsOK'
  <1>0. JobsOK'
    BY DEF JobsOK, UserStep, Age, StartCopy, Write, EndCopy, RemoveFile, Put, jobs
  <1>1. FilesOK'
    <2> USE ScanAssumption DEF FilesOK, Contents
    <2>1. CASE StartCopy(f)
      BY <2>1 DEF StartCopy, Put
    <2>2. CASE Write(f) \/ EndCopy(f)
      BY <2>2 DEF Write, EndCopy, Put
    <2>3. CASE RemoveFile(f)
      BY <2>3 DEF RemoveFile, Put
    <2>4. CASE Age(f)
      BY <2>4 DEF Age
    <2> QED
      BY <2>1, <2>2, <2>3, <2>4 DEF UserStep
  <1>2. CASE scan' = scan
    <2>1. \A s \in Servers : scan'[s] = scan[s]
      BY <1>2
    <2> QED
      BY <1>0, <1>1, <1>2, <2>1 DEF ScansOK, HoldsOK
  <1>3. CASE scan' = [s \in Servers |-> [scan[s] EXCEPT !.old = @ \ {f}]]
    <2>1. ASSUME NEW s \in Servers PROVE HoldsOK(scan'[s])
      <3>1. HoldsOK(scan[s])
        BY DEF ScansOK
      <3>2. scan'[s] = [scan[s] EXCEPT !.old = @ \ {f}]
        BY <1>3
      <3> QED
        BY <3>1, <3>2 DEF HoldsOK, Scan
    <2>2. scan' \in [Servers -> Scan]
      BY <1>3, <2>1 DEF HoldsOK
    <2> QED
      BY <1>0, <1>1, <2>1, <2>2 DEF ScansOK
  <1> QED
    BY <1>0, <1>1, <1>2, <1>3 DEF UserStep, Age, StartCopy, Write, EndCopy, RemoveFile, Put

LEMMA ScanTypeListing ==
  ASSUME FilesOK, ScansOK, JobsOK, NEW s \in Servers,
         ScanStarts(s) \/ IsFile(s) \/ Stat(s) \/ StatRaises(s)
  PROVE  FilesOK' /\ ScansOK' /\ JobsOK'
  <1>1. FilesOK' /\ JobsOK'
    BY DEF FilesOK, JobsOK, ScanStarts, IsFile, Stat, StatRaises, ScanFails, files, jobs
  <1>2. CASE ScanStarts(s)
    <2> DEFINE names == {f \in Files : content[f] # "absent"}
               rec   == IF names = {} THEN Idle
                        ELSE [Idle EXCEPT !.at = "list", !.old = aged, !.todo = names]
    <2>1. HoldsOK(rec)
      BY IdleHolds DEF HoldsOK, Idle, Scan, Points, FilesOK
    <2> QED
      BY <1>1, <1>2, <2>1, StepHolds DEF ScanStarts
  <1>3. CASE IsFile(s)
    <2> DEFINE rec == [scan[s] EXCEPT !.at = "stat"]
    <2>1. At(s, "list") /\ HoldsOK(scan[s])
      BY <1>3 DEF IsFile, ScansOK
    <2>2. HoldsOK(rec)
      BY <2>1 DEF At, HoldsOK, Scan, Points
    <2>3. HoldsOK(Looked(s, scan[s].found))
      BY <2>1, LookedHolds DEF At, HoldsOK, Scan
    <2>4. Step(s, rec) \/ Step(s, Looked(s, scan[s].found))
      BY <1>3 DEF IsFile, Step
    <2> QED
      BY <1>1, <2>2, <2>3, <2>4, StepHolds
  <1>4. CASE Stat(s)
    <2> DEFINE f     == First(scan[s].todo)
               found == scan[s].found \cup (IF IsStable(s, f) THEN {f} ELSE {})
    <2>1. At(s, "stat") /\ Step(s, Looked(s, found))
      BY <1>4 DEF Stat
    <2>2. found \in SUBSET Files
      BY <2>1, HoldsFiles DEF At, Scan
    <2> HIDE DEF found
    <2> QED
      BY <1>1, <2>1, <2>2, LookedHolds, StepHolds DEF At
  <1>5. CASE StatRaises(s)
    BY <1>1, <1>5, IdleHolds, StepHolds DEF StatRaises, ScanFails
  <1> QED
    BY <1>2, <1>3, <1>4, <1>5

\* A profile is only matched for what ffprobe can read.
LEMMA OutcomeReadable ==
  ASSUME NEW f \in Files, NEW c \in Contents, Outcome[f][c] # Raised
  PROVE  c \in {"torn", "whole"}
  BY DEF Outcome, Contents

LEMMA SkipHolds ==
  ASSUME ScansOK, NEW s \in Servers, Skip(s)
  PROVE  ScansOK'
  <1>1. scan[s].found \ {Candidate(s)} \in SUBSET Files
    BY DEF ScansOK, Scan
  <1> QED
    BY <1>1, NextHolds, StepHolds DEF Skip

LEMMA ScanTypeCandidates ==
  ASSUME FilesOK, ScansOK, JobsOK, NEW s \in Servers,
         \/ ProbeRaises(s) \/ ProbeAndMatch(s) \/ IsProcessed(s) \/ SaveJob(s)
         \/ MarkProcessed(s) \/ Enqueue(s)
  PROVE  FilesOK' /\ ScansOK' /\ JobsOK'
  <1> DEFINE f == Candidate(s)
  <1>1. HoldsOK(scan[s]) /\ scan[s] \in Scan
    BY DEF ScansOK, HoldsOK
  <1>2. At(s, "probe") \/ At(s, "check") \/ At(s, "save") \/ At(s, "mark") \/ At(s, "push")
    BY DEF ProbeRaises, ProbeAndMatch, IsProcessed, SaveJob, MarkProcessed, Enqueue
  <1>3. f \in Files
    BY <1>2, HoldsFiles DEF At
  <1> HIDE DEF f
  <1>4. FilesOK' /\ JobsOK'
    BY <1>3 DEF FilesOK, JobsOK, ProbeRaises, ProbeAndMatch, IsProcessed, SaveJob, MarkProcessed,
                Enqueue, ScanFails, files, jobs, f
  <1>5. CASE Skip(s)
    BY <1>4, <1>5, SkipHolds
  <1>6. CASE ProbeRaises(s)
    BY <1>4, <1>6, IdleHolds, StepHolds DEF ProbeRaises, ScanFails
  <1>7. CASE ProbeAndMatch(s) /\ ~Skip(s)
    <2> DEFINE rec == [scan[s] EXCEPT !.at = "check", !.seen = content[f]]
    <2>1. At(s, "probe") /\ Step(s, rec) /\ Outcome[f][content[f]] # Raised
      BY <1>7 DEF ProbeAndMatch, f
    <2>2. content[f] \in {"torn", "whole"}
      BY <1>3, <2>1, OutcomeReadable DEF FilesOK
    <2>3. HoldsOK(rec)
      BY <1>1, <2>1, <2>2 DEF At, HoldsOK, Scan, Points, Contents
    <2> QED
      BY <1>4, <2>1, <2>3, StepHolds
  <1>8. CASE (IsProcessed(s) /\ ~Skip(s)) \/ SaveJob(s)
    <2>1. PICK p \in {"save", "mark"} :
            scan[s].at \in {"check", "save"} /\ Step(s, [scan[s] EXCEPT !.at = p])
      BY <1>8 DEF IsProcessed, SaveJob, At
    <2>2. HoldsOK([scan[s] EXCEPT !.at = p])
      BY <1>1, <2>1 DEF HoldsOK, Scan, Points
    <2> QED
      BY <1>4, <2>1, <2>2, StepHolds
  <1>9. CASE MarkProcessed(s)
    <2> DEFINE rec == [scan[s] EXCEPT !.at = "push", !.seen = None]
    <2>1. At(s, "mark") /\ Step(s, rec)
      BY <1>9 DEF MarkProcessed
    <2>2. HoldsOK(rec)
      BY <1>1, <2>1 DEF At, HoldsOK, Scan, Points
    <2> QED
      BY <1>4, <2>1, <2>2, StepHolds
  <1> QED
    BY <1>5, <1>6, <1>7, <1>8, <1>9 DEF Enqueue

\* Every variable of InputScan keeps its type; a scan that lists has names left,
\* one that enqueues has a candidate, which ffprobe could read.
THEOREM ScanTyped == Spec => []ScanTypeOK
  <1>1. ScanTypeOK /\ [Next]_vars => ScanTypeOK'
    <2> SUFFICES ASSUME FilesOK, ScansOK, JobsOK, [Next]_vars
                 PROVE  FilesOK' /\ ScansOK' /\ JobsOK'
      BY TypeParts DEF ScanTypeOK, FilesOK, ScansOK, JobsOK, HoldsOK
    <2>1. CASE UNCHANGED vars
      BY <2>1 DEF vars, files, jobs, FilesOK, ScansOK, JobsOK, HoldsOK
    <2>2. ASSUME NEW s \in Servers, Crash(s)
          PROVE  FilesOK' /\ ScansOK' /\ JobsOK'
      <3>1. FilesOK' /\ JobsOK'
        BY <2>2, ScanAssumption DEF Crash, files, jobs, FilesOK, JobsOK
      <3>2. ScansOK'
        BY <2>2, IdleHolds, StepHolds DEF Crash
      <3> QED
        BY <3>1, <3>2
    <2> QED
      BY <2>1, <2>2, ScanTypeUsers, ScanTypeListing, ScanTypeCandidates DEF Next, ServerStep
  <1> QED
    BY <1>1, ScanTypeInit, PTL DEF Spec

-----------------------------------------------------------------------------
(* CopiesBounded.  As long as a path is not marked, each of its jobs is one *)
(* that a server is about to mark it for, or that a server was stopped      *)
(* over; and once it is marked, no server decides to save another one, and  *)
(* those that have decided to are others than those that have pushed one.   *)

Deciding(f) == {s \in Servers : At(s, "save") /\ Candidate(s) = f}
Marking(f)  == {s \in Servers : At(s, "mark") /\ Candidate(s) = f}

CopiesCounted(f) ==
  /\ f \notin processed => saved[f] <= Cardinality(Marking(f)) + crashes
  /\ f \in processed => saved[f] + Cardinality(Deciding(f)) <= Cardinality(Servers) + crashes

CopiesInv == \A f \in Files : CopiesCounted(f)

\* The servers that will push a job of the file, unless they are stopped.
Decided == {"save", "mark", "push"}
Coming(f)  == {s \in Servers : scan[s].at \in Decided /\ Candidate(s) = f}
Pushing(f) == {s \in Servers : At(s, "push") /\ Candidate(s) = f}

PushCounted(f) ==
  /\ f \notin processed => pushed[f] = 0 /\ Pushing(f) = {}
  /\ f \in processed => pushed[f] + Cardinality(Coming(f)) <= Cardinality(Servers)

PushInv == \A f \in Files : PushCounted(f)

LEMMA ServersFinite ==
  ASSUME NEW f
  PROVE  /\ IsFiniteSet(Deciding(f)) /\ Cardinality(Deciding(f)) \in Nat
         /\ IsFiniteSet(Marking(f)) /\ Cardinality(Marking(f)) \in Nat
         /\ Cardinality(Servers) \in Nat
         /\ Cardinality(Deciding(f)) + Cardinality(Marking(f)) <= Cardinality(Servers)
  <1>1. IsFiniteSet(Servers) /\ Cardinality(Servers) \in Nat
    BY ScanAssumption, FS_CardinalityType
  <1>2. Deciding(f) \in SUBSET Servers /\ Marking(f) \in SUBSET Servers
    BY DEF Deciding, Marking
  <1>3. IsFiniteSet(Deciding(f)) /\ IsFiniteSet(Marking(f))
    BY <1>1, <1>2, FS_Subset
  <1>4. Cardinality(Deciding(f)) \in Nat /\ Cardinality(Marking(f)) \in Nat
    BY <1>3, FS_CardinalityType
  <1>5. Deciding(f) \cap Marking(f) = {}
    BY DEF Deciding, Marking, At
  <1>6. Cardinality(Deciding(f) \cup Marking(f)) = Cardinality(Deciding(f)) + Cardinality(Marking(f)) - 0
    BY <1>3, <1>5, FS_Union, FS_EmptySet
  <1>7. Cardinality(Deciding(f) \cup Marking(f)) <= Cardinality(Servers)
    BY <1>1, <1>2, FS_Subset
  <1> QED
    BY <1>1, <1>3, <1>4, <1>6, <1>7

\* Steps that leave jobs and marks alone, and nobody enters or leaves a save.
LEMMA CopiesSame ==
  ASSUME CopiesInv, UNCHANGED <<processed, saved, crashes>>,
         \A f \in Files : Deciding(f)' = Deciding(f) /\ Marking(f)' = Marking(f)
  PROVE  CopiesInv'
  BY DEF CopiesInv, CopiesCounted

LEMMA CopiesUsers ==
  ASSUME ScansOK, CopiesInv, NEW f \in Files, UserStep(f) \/ Age(f)
  PROVE  CopiesInv'
  <1>1. UNCHANGED <<processed, saved, crashes>>
    BY DEF UserStep, Age, StartCopy, Write, EndCopy, RemoveFile, Put, jobs
  <1>2. \A s \in Servers : scan'[s].at = scan[s].at /\ scan'[s].found = scan[s].found
    BY DEF UserStep, Age, StartCopy, Write, EndCopy, RemoveFile, Put, ScansOK, Scan
  <1>3. \A g \in Files : Deciding(g)' = Deciding(g) /\ Marking(g)' = Marking(g)
    BY <1>2 DEF Deciding, Marking, At, Candidate, First
  <1> QED
    BY <1>1, <1>3, CopiesSame

\* Steps of a server that has not decided to save a job, and does not.
LEMMA CopiesElsewhere ==
  ASSUME ScansOK, CopiesInv, NEW s \in Servers, NEW rec, Step(s, rec),
         scan[s].at \notin {"save", "mark"}, rec.at \notin {"save", "mark"},
         UNCHANGED <<processed, saved, crashes>>
  PROVE  CopiesInv'
  <1>1. \A r \in Servers : scan'[r] = IF r = s THEN rec ELSE scan[r]
    BY DEF Step, ScansOK
  <1>2. \A f \in Files : Deciding(f)' = Deciding(f) /\ Marking(f)' = Marking(f)
    BY <1>1 DEF Deciding, Marking, At, Candidate
  <1> QED
    BY <1>2, CopiesSame

LEMMA NextOfAt ==
  ASSUME NEW found
  PROVE  NextOf(found).at \notin Decided
  BY DEF NextOf, Idle, Decided

\* Those steps: the listing, the probe and the skip of a file.
Undecided(s) ==
  \/ ScanStarts(s) \/ IsFile(s) \/ Stat(s) \/ StatRaises(s)
  \/ ProbeRaises(s) \/ ProbeAndMatch(s) \/ (IsProcessed(s) /\ Skip(s))

LEMMA UndecidedSteps ==
  ASSUME ScansOK, NEW s \in Servers, Undecided(s)
  PROVE  /\ UNCHANGED <<processed, saved, pushed, crashes>> /\ scan[s].at \notin Decided
         /\ \E rec : Step(s, rec) /\ rec.at \notin Decided
  <1> DEFINE listing == [Idle EXCEPT !.at = "list", !.old = aged, !.todo = {f \in Files : content[f] # "absent"}]
             stating == [scan[s] EXCEPT !.at = "stat"]
             checking == [scan[s] EXCEPT !.at = "check", !.seen = content[Candidate(s)]]
  <1>1. UNCHANGED <<processed, saved, pushed, crashes>>
    BY DEF Undecided, ScanStarts, IsFile, Stat, StatRaises, ProbeRaises, ProbeAndMatch,
           IsProcessed, ScanFails, jobs
  <1>2. scan[s].at \notin Decided /\ scan[s] \in Scan
    BY DEF Undecided, ScanStarts, IsFile, Stat, StatRaises, ProbeRaises, ProbeAndMatch,
           IsProcessed, At, ScansOK, Decided
  <1>3. \A found : Looked(s, found).at \notin Decided
    BY <1>2, NextOfAt DEF Looked, Scan, Decided
  <1>4. /\ Idle.at \notin Decided /\ listing.at \notin Decided
        /\ stating.at \notin Decided /\ checking.at \notin Decided
    BY <1>2 DEF Idle, Scan, Decided
  <1>5. \/ Step(s, Idle) \/ Step(s, listing) \/ Step(s, stating) \/ Step(s, checking) \/ Skip(s)
        \/ \E found : Step(s, Looked(s, found))
    <2> HIDE DEF stating, listing, checking
    <2>1. CASE ScanStarts(s)
      BY <2>1 DEF ScanStarts, listing
    <2>2. CASE IsFile(s)
      BY <2>2 DEF IsFile, stating, Step
    <2>3. CASE Stat(s)
      BY <2>3 DEF Stat
    <2>4. CASE StatRaises(s) \/ ProbeRaises(s)
      BY <2>4 DEF StatRaises, ProbeRaises, ScanFails
    <2>5. CASE ProbeAndMatch(s)
      BY <2>5 DEF ProbeAndMatch, checking
    <2>6. CASE IsProcessed(s) /\ Skip(s)
      BY <2>6
    <2> QED
      BY <2>1, <2>2, <2>3, <2>4, <2>5, <2>6 DEF Undecided
  <1>6. CASE Skip(s)
    BY <1>1, <1>2, <1>6, NextOfAt DEF Skip
  <1> HIDE DEF listing, stating, checking
  <1> QED
    BY <1>1, <1>2, <1>3, <1>4, <1>5, <1>6

LEMMA CopiesOther ==
  ASSUME ScansOK, CopiesInv, NEW s \in Servers, Undecided(s) \/ Enqueue(s)
  PROVE  CopiesInv'
  <1>1. CASE Undecided(s)
    <2>1. PICK rec : Step(s, rec) /\ rec.at \notin Decided
      BY <1>1, UndecidedSteps
    <2>2. scan[s].at \notin Decided /\ UNCHANGED <<processed, saved, crashes>>
      BY <1>1, UndecidedSteps
    <2> QED
      BY <2>1, <2>2, CopiesElsewhere DEF Decided
  <1>2. CASE Enqueue(s)
    BY <1>2, NextOfAt, CopiesElsewhere DEF Enqueue, Skip, At, Decided
  <1> QED
    BY <1>1, <1>2

\* The path is not marked: the server joins those that decided.
LEMMA CopiesDecide ==
  ASSUME JobsOK, ScansOK, CopiesInv, NEW s \in Servers, IsProcessed(s), ~Skip(s)
  PROVE  CopiesInv'
  <1>1. /\ At(s, "check") /\ Candidate(s) \notin processed
        /\ scan' = [scan EXCEPT ![s] = [scan[s] EXCEPT !.at = "save"]]
        /\ UNCHANGED <<processed, saved, crashes>>
    BY DEF IsProcessed, Step, jobs
  <1>2. /\ scan'[s].at = "save" /\ scan'[s].found = scan[s].found
        /\ \A r \in Servers \ {s} : scan'[r] = scan[r]
    BY <1>1 DEF ScansOK, Scan
  <1>3. \A f \in Files : Marking(f)' = Marking(f)
    BY <1>1, <1>2 DEF Marking, At, Candidate
  <1>4. \A f \in processed : Deciding(f)' = Deciding(f)
    BY <1>1, <1>2 DEF Deciding, At, Candidate
  <1> QED
    BY <1>1, <1>3, <1>4 DEF CopiesInv, CopiesCounted

LEMMA CopiesSave ==
  ASSUME JobsOK, ScansOK, CopiesInv, NEW s \in Servers, SaveJob(s)
  PROVE  CopiesInv'
  <1> SUFFICES ASSUME NEW f \in Files PROVE CopiesCounted(f)'
    BY DEF CopiesInv
  <1>1. /\ At(s, "save")
        /\ saved' = [saved EXCEPT ![Candidate(s)] = @ + 1]
        /\ scan' = [scan EXCEPT ![s] = [scan[s] EXCEPT !.at = "mark"]]
        /\ UNCHANGED <<processed, crashes>>
    BY DEF SaveJob, Step
  <1>2. /\ scan'[s].at = "mark" /\ scan'[s].found = scan[s].found
        /\ \A r \in Servers \ {s} : scan'[r] = scan[r]
    BY <1>1 DEF ScansOK, Scan
  <1>3. CASE f # Candidate(s)
    <2>1. Deciding(f)' = Deciding(f) /\ Marking(f)' = Marking(f) /\ saved'[f] = saved[f]
      BY <1>1, <1>2, <1>3 DEF Deciding, Marking, At, Candidate, JobsOK
    <2> QED
      BY <1>1, <2>1 DEF CopiesInv, CopiesCounted
  <1>4. CASE f = Candidate(s)
    <2>1. /\ Deciding(f)' = Deciding(f) \ {s} /\ s \in Deciding(f)
          /\ Marking(f)' = Marking(f) \cup {s} /\ s \notin Marking(f)
      BY <1>1, <1>2, <1>4 DEF Deciding, Marking, At, Candidate
    <2>2. Cardinality(Deciding(f)') = Cardinality(Deciding(f)) - 1
      BY <2>1, ServersFinite, FS_RemoveElement
    <2>3. Cardinality(Marking(f)') = Cardinality(Marking(f)) + 1
      BY <2>1, ServersFinite, FS_AddElement
    <2>4. saved'[f] = saved[f] + 1 /\ saved[f] \in Nat /\ crashes \in Nat
      BY <1>1, <1>4, ScanAssumption DEF JobsOK
    <2> QED
      BY <1>1, <2>2, <2>3, <2>4, ServersFinite DEF CopiesInv, CopiesCounted
  <1> QED
    BY <1>3, <1>4

\* The mark: the servers that have decided to save a job of the file are others
\* than those that are about to mark it.
LEMMA CopiesMark ==
  ASSUME JobsOK, ScansOK, CopiesInv, NEW s \in Servers, MarkProcessed(s)
  PROVE  CopiesInv'
  <1> SUFFICES ASSUME NEW f \in Files PROVE CopiesCounted(f)'
    BY DEF CopiesInv
  <1>1. /\ At(s, "mark") /\ processed' = processed \cup {Candidate(s)}
        /\ scan' = [scan EXCEPT ![s] = [scan[s] EXCEPT !.at = "push", !.seen = None]]
        /\ UNCHANGED <<saved, crashes>>
    BY DEF MarkProcessed, Step
  <1>2. /\ scan'[s].at = "push"
        /\ \A r \in Servers \ {s} : scan'[r] = scan[r]
    BY <1>1 DEF ScansOK, Scan
  <1>3. Deciding(f)' = Deciding(f)
    BY <1>1, <1>2 DEF Deciding, At, Candidate
  <1>4. f # Candidate(s) => Marking(f)' = Marking(f)
    BY <1>1, <1>2 DEF Marking, At, Candidate
  <1>5. saved[f] \in Nat /\ crashes \in Nat
    BY ScanAssumption DEF JobsOK
  <1>6. saved[f] + Cardinality(Deciding(f)) <= Cardinality(Servers) + crashes
        \/ (f \notin processed /\ f # Candidate(s))
    BY <1>5, ServersFinite DEF CopiesInv, CopiesCounted
  <1> QED
    BY <1>1, <1>3, <1>4, <1>6 DEF CopiesInv, CopiesCounted

LEMMA CopiesCrash ==
  ASSUME JobsOK, ScansOK, CopiesInv, NEW s \in Servers, Crash(s)
  PROVE  CopiesInv'
  <1> SUFFICES ASSUME NEW f \in Files PROVE CopiesCounted(f)'
    BY DEF CopiesInv
  <1>1. /\ crashes' = crashes + 1 /\ scan' = [scan EXCEPT ![s] = Idle]
        /\ UNCHANGED <<saved, processed>>
    BY DEF Crash, Step, jobs
  <1>2. \A r \in Servers : scan'[r] = IF r = s THEN Idle ELSE scan[r]
    BY <1>1 DEF ScansOK
  <1>3. Deciding(f)' = Deciding(f) \ {s} /\ Marking(f)' = Marking(f) \ {s}
    BY <1>2 DEF Deciding, Marking, At, Candidate, Idle
  <1>4. /\ Cardinality(Deciding(f)') = IF s \in Deciding(f) THEN Cardinality(Deciding(f)) - 1
                                       ELSE Cardinality(Deciding(f))
        /\ Cardinality(Marking(f)') = IF s \in Marking(f) THEN Cardinality(Marking(f)) - 1
                                      ELSE Cardinality(Marking(f))
    BY <1>3, ServersFinite, FS_RemoveElement
  <1>5. saved[f] \in Nat /\ crashes \in Nat
    BY ScanAssumption DEF JobsOK
  <1> QED
    BY <1>1, <1>4, <1>5, ServersFinite DEF CopiesInv, CopiesCounted

LEMMA CopiesInvInit == Init => CopiesInv
  <1> SUFFICES ASSUME Init, NEW f \in Files PROVE CopiesCounted(f)
    BY DEF CopiesInv
  <1>1. saved[f] = 0 /\ f \notin processed /\ crashes = 0
    BY DEF Init
  <1> QED
    BY <1>1, ServersFinite DEF CopiesCounted

LEMMA ComingFinite ==
  ASSUME NEW f
  PROVE  /\ IsFiniteSet(Coming(f)) /\ Cardinality(Coming(f)) \in Nat
         /\ Cardinality(Servers) \in Nat /\ Cardinality(Coming(f)) <= Cardinality(Servers)
  <1>1. IsFiniteSet(Servers) /\ Cardinality(Servers) \in Nat
    BY ScanAssumption, FS_CardinalityType
  <1>2. Coming(f) \in SUBSET Servers
    BY DEF Coming
  <1> QED
    BY <1>1, <1>2, FS_Subset, FS_CardinalityType

\* Steps that nobody joins or leaves those servers by.
LEMMA PushSame ==
  ASSUME PushInv, UNCHANGED <<processed, pushed>>,
         \A f \in Files : Coming(f)' = Coming(f) /\ Pushing(f)' = Pushing(f)
  PROVE  PushInv'
  BY DEF PushInv, PushCounted

LEMMA PushUsers ==
  ASSUME ScansOK, PushInv, NEW f \in Files, UserStep(f) \/ Age(f)
  PROVE  PushInv'
  <1>1. UNCHANGED <<processed, pushed>>
    BY DEF UserStep, Age, StartCopy, Write, EndCopy, RemoveFile, Put, jobs
  <1>2. \A s \in Servers : scan'[s].at = scan[s].at /\ scan'[s].found = scan[s].found
    BY DEF UserStep, Age, StartCopy, Write, EndCopy, RemoveFile, Put, ScansOK, Scan
  <1>3. \A g \in Files : Coming(g)' = Coming(g) /\ Pushing(g)' = Pushing(g)
    BY <1>2 DEF Coming, Pushing, At, Candidate, First
  <1> QED
    BY <1>1, <1>3, PushSame

LEMMA PushOther ==
  ASSUME ScansOK, PushInv, NEW s \in Servers, Undecided(s)
  PROVE  PushInv'
  <1>1. PICK rec : Step(s, rec) /\ rec.at \notin Decided
    BY UndecidedSteps
  <1>2. scan[s].at \notin Decided /\ UNCHANGED <<processed, pushed>>
    BY UndecidedSteps
  <1>3. \A r \in Servers : scan'[r] = IF r = s THEN rec ELSE scan[r]
    BY <1>1 DEF Step, ScansOK
  <1>4. \A f \in Files : Coming(f)' = Coming(f) /\ Pushing(f)' = Pushing(f)
    BY <1>1, <1>2, <1>3 DEF Coming, Pushing, At, Candidate, Decided
  <1> QED
    BY <1>2, <1>4, PushSame

\* A server decides over a path that is not marked, and keeps to it.
LEMMA PushDecide ==
  ASSUME ScansOK, PushInv, NEW s \in Servers, (IsProcessed(s) /\ ~Skip(s)) \/ SaveJob(s)
  PROVE  PushInv'
  <1>1. PICK p \in {"save", "mark"} : scan' = [scan EXCEPT ![s] = [scan[s] EXCEPT !.at = p]]
    BY DEF IsProcessed, SaveJob, Step
  <1>2. /\ scan'[s].at = p /\ scan'[s].found = scan[s].found
        /\ \A r \in Servers \ {s} : scan'[r] = scan[r]
    BY <1>1 DEF ScansOK, Scan
  <1>3. UNCHANGED <<processed, pushed>> /\ ~At(s, "push")
    BY DEF IsProcessed, SaveJob, At, jobs
  <1>4. \A f \in Files : Pushing(f)' = Pushing(f)
    BY <1>1, <1>2, <1>3 DEF Pushing, At, Candidate
  <1>5. \A f \in processed : Coming(f)' = Coming(f)
    <2>1. scan[s].at \in Decided \/ Candidate(s) \notin processed
      BY DEF IsProcessed, SaveJob, At, Decided
    <2> QED
      BY <1>1, <1>2, <2>1 DEF Coming, Candidate, Decided
  <1> QED
    BY <1>3, <1>4, <1>5 DEF PushInv, PushCounted

\* The first mark of a path comes before the first push of a job of it.
LEMMA PushMark ==
  ASSUME ScansOK, PushInv, NEW s \in Servers, MarkProcessed(s)
  PROVE  PushInv'
  <1> SUFFICES ASSUME NEW f \in Files PROVE PushCounted(f)'
    BY DEF PushInv
  <1>1. /\ At(s, "mark") /\ processed' = processed \cup {Candidate(s)} /\ pushed' = pushed
        /\ scan' = [scan EXCEPT ![s] = [scan[s] EXCEPT !.at = "push", !.seen = None]]
    BY DEF MarkProcessed, Step
  <1>2. /\ scan'[s].at = "push" /\ scan'[s].found = scan[s].found
        /\ \A r \in Servers \ {s} : scan'[r] = scan[r]
    BY <1>1 DEF ScansOK, Scan
  <1>3. Coming(f)' = Coming(f)
    BY <1>1, <1>2 DEF Coming, At, Candidate, Decided
  <1>4. f # Candidate(s) => Pushing(f)' = Pushing(f)
    BY <1>1, <1>2 DEF Pushing, At, Candidate
  <1>5. f \notin processed => pushed[f] = 0 /\ Cardinality(Coming(f)) <= Cardinality(Servers)
    BY ComingFinite DEF PushInv, PushCounted
  <1> QED
    BY <1>1, <1>3, <1>4, <1>5, ComingFinite DEF PushInv, PushCounted

\* A server that has pushed a job, or is stopped, is none of them any more.
LEMMA PushLeaves ==
  ASSUME ScansOK, JobsOK, PushInv, NEW s \in Servers, Enqueue(s) \/ Crash(s)
  PROVE  PushInv'
  <1> SUFFICES ASSUME NEW f \in Files PROVE PushCounted(f)'
    BY DEF PushInv
  <1>1. PICK rec : Step(s, rec) /\ rec.at \notin Decided
    BY NextOfAt DEF Enqueue, Crash, Skip, Idle, Decided
  <1>2. \A r \in Servers : scan'[r] = IF r = s THEN rec ELSE scan[r]
    BY <1>1 DEF Step, ScansOK
  <1>3. Coming(f)' = Coming(f) \ {s} /\ Pushing(f)' = Pushing(f) \ {s}
    BY <1>1, <1>2 DEF Coming, Pushing, At, Candidate, Decided
  <1>4. Cardinality(Coming(f)') = IF s \in Coming(f) THEN Cardinality(Coming(f)) - 1
                                  ELSE Cardinality(Coming(f))
    BY <1>3, ComingFinite, FS_RemoveElement
  <1>5. processed' = processed /\ pushed[f] \in Nat
    BY DEF Enqueue, Crash, jobs, JobsOK
  <1>6. pushed'[f] = pushed[f] \/ (pushed'[f] = pushed[f] + 1 /\ s \in Pushing(f) /\ s \in Coming(f))
    BY DEF Enqueue, Crash, jobs, JobsOK, Pushing, Coming, At, Decided
  <1> QED
    BY <1>3, <1>4, <1>5, <1>6, ComingFinite DEF PushInv, PushCounted

LEMMA PushInvInit == Init => PushInv
  BY DEF Init, PushInv, PushCounted, Pushing, At, Idle

LEMMA CopiesStep ==
  ASSUME FilesOK, ScansOK, JobsOK, CopiesInv, PushInv, [Next]_vars
  PROVE  CopiesInv' /\ PushInv'
  <1>1. CASE UNCHANGED vars
    <2>1. \A f \in Files : /\ Deciding(f)' = Deciding(f) /\ Marking(f)' = Marking(f)
                           /\ Coming(f)' = Coming(f) /\ Pushing(f)' = Pushing(f)
      BY <1>1 DEF vars, Deciding, Marking, Coming, Pushing, At, Candidate
    <2> QED
      BY <1>1, <2>1, CopiesSame, PushSame DEF vars, jobs
  <1>2. ASSUME NEW s \in Servers, ServerStep(s) PROVE CopiesInv' /\ PushInv'
    BY <1>2, CopiesOther, CopiesDecide, CopiesSave, CopiesMark,
       PushOther, PushDecide, PushMark, PushLeaves DEF ServerStep, Undecided
  <1> QED
    BY <1>1, <1>2, CopiesUsers, CopiesCrash, PushUsers, PushLeaves DEF Next

\* However the scans of several servers interleave and wherever servers are
\* stopped, a path is given to the workers once by each server at most, and has one
\* job more at most for each server that was stopped, however often it is
\* overwritten and scanned.
THEOREM ScanCopies == Spec => []CopiesBounded
  <1>1. ScanTypeOK /\ CopiesInv /\ PushInv /\ [Next]_vars => CopiesInv' /\ PushInv'
    BY TypeParts, CopiesStep
  <1>2. ScanTypeOK /\ CopiesInv /\ PushInv => CopiesBounded
    <2> SUFFICES ASSUME JobsOK, CopiesInv, PushInv, NEW f \in Files
                 PROVE  /\ pushed[f] <= Cardinality(Servers)
                        /\ saved[f] <= Cardinality(Servers) + crashes
      BY TypeParts DEF CopiesBounded
    <2>1. saved[f] \in Nat /\ crashes \in Nat /\ pushed[f] \in Nat
      BY ScanAssumption DEF JobsOK
    <2>2. saved[f] <= Cardinality(Servers) + crashes
      BY <2>1, ServersFinite DEF CopiesInv, CopiesCounted
    <2>3. pushed[f] <= Cardinality(Servers)
      BY <2>1, ComingFinite DEF PushInv, PushCounted
    <2> QED
      BY <2>2, <2>3
  <1> QED
    BY <1>1, <1>2, CopiesInvInit, PushInvInit, ScanTyped, PTL DEF Spec

-----------------------------------------------------------------------------
(* ProbedWhole.  A file that is old enough, and whose copy does not pause,  *)
(* is there as a whole.  It stays so, or is removed, while it is a          *)
(* candidate, unless it is copied once more.                                *)

FileSound(f) ==
  /\ content[f] # "absent" => copies[f] >= 1
  /\ f \in aged => content[f] = "whole" \/ (f \in Stalls /\ content[f] # "absent")

\* The file was copied once, by a copy that did not pause.
Plain(f) == copies[f] = 1 /\ f \notin Stalls

CandidateSound(f) == copies[f] >= 1 /\ (Plain(f) => content[f] \in {"whole", "absent"})

ScanSound(s) ==
  /\ scan[s].old \subseteq aged
  /\ \A f \in scan[s].found : CandidateSound(f)
  /\ scan[s].at \in {"check", "save", "mark"} /\ Plain(Candidate(s)) => scan[s].seen = "whole"

ProbedInv ==
  /\ \A f \in Files : FileSound(f)
  /\ \A s \in Servers : ScanSound(s)

LEMMA ProbedInvInit == Init => ProbedInv
  BY DEF Init, Idle, ProbedInv, FileSound, ScanSound

LEMMA SoundUsers ==
  ASSUME FilesOK, ScansOK, ProbedInv, NEW f \in Files, UserStep(f) \/ Age(f)
  PROVE  ProbedInv'
  <1> USE DEF FilesOK, Contents
  <1>1. \A g \in Files :
          /\ FileSound(g)'
          /\ CandidateSound(g) => CandidateSound(g)'
          /\ Plain(g)' /\ CandidateSound(g) => Plain(g)
    <2> SUFFICES ASSUME NEW g \in Files, FileSound(g)
                 PROVE  /\ FileSound(g)'
                        /\ CandidateSound(g) => CandidateSound(g)'
                        /\ Plain(g)' /\ CandidateSound(g) => Plain(g)
      BY DEF ProbedInv
    <2> USE DEF FileSound, CandidateSound, Plain
    <2>1. CASE StartCopy(f)
      BY <2>1 DEF StartCopy, Put
    <2>2. CASE Write(f)
      BY <2>2 DEF Write, Put
    <2>3. CASE EndCopy(f)
      BY <2>3 DEF EndCopy, Put
    <2>4. CASE RemoveFile(f)
      BY <2>4 DEF RemoveFile, Put
    <2>5. CASE Age(f)
      BY <2>5 DEF Age
    <2> QED
      BY <2>1, <2>2, <2>3, <2>4, <2>5 DEF UserStep
  <1>2. ASSUME NEW s \in Servers PROVE ScanSound(s)'
    <2>1. /\ scan'[s].at = scan[s].at /\ scan'[s].found = scan[s].found
          /\ scan'[s].seen = scan[s].seen
          /\ scan[s].old \subseteq aged => scan'[s].old \subseteq aged'
      BY DEF UserStep, Age, StartCopy, Write, EndCopy, RemoveFile, Put, ScansOK, Scan
    <2>2. Candidate(s)' = Candidate(s)
      BY <2>1 DEF Candidate, First
    <2>3. scan[s].found \subseteq Files
      BY DEF ScansOK, Scan
    <2>4. scan[s].at \in {"check", "save", "mark"} => Candidate(s) \in scan[s].found /\ Candidate(s) \in Files
      BY HoldsFiles
    <2>5. ScanSound(s)
      BY DEF ProbedInv
    <2>6. scan'[s].at \in {"check", "save", "mark"} /\ Plain(Candidate(s))' => scan'[s].seen = "whole"
      <3> SUFFICES ASSUME scan[s].at \in {"check", "save", "mark"}, Plain(Candidate(s))'
                   PROVE  scan[s].seen = "whole"
        BY <2>1
      <3>1. PICK g \in Files : g = Candidate(s) /\ g \in scan[s].found
        BY <2>4
      <3>2. Plain(g)'
        BY <2>2, <3>1 DEF Plain
      <3>3. Plain(g)
        BY <1>1, <2>5, <3>1, <3>2 DEF ScanSound
      <3> QED
        BY <2>5, <3>1, <3>3 DEF ScanSound
    <2>7. \A g \in scan'[s].found : CandidateSound(g)'
      BY <1>1, <2>1, <2>3, <2>5 DEF ScanSound
    <2> QED
      BY <2>1, <2>2, <2>5, <2>6, <2>7 DEF ScanSound
  <1> QED
    BY <1>1, <1>2 DEF ProbedInv

\* What a server may take hold of.
RecSound(rec) ==
  /\ rec.old \subseteq aged
  /\ \A f \in rec.found : CandidateSound(f)
  /\ rec.at \in {"check", "save", "mark"} /\ Plain(First(rec.found)) => rec.seen = "whole"

LEMMA SoundStep ==
  ASSUME ScansOK, ProbedInv, NEW s \in Servers, NEW rec, Step(s, rec), RecSound(rec),
         UNCHANGED files
  PROVE  ProbedInv'
  <1>1. \A r \in Servers : scan'[r] = IF r = s THEN rec ELSE scan[r]
    BY DEF Step, ScansOK
  <1>2. \A f : (FileSound(f)' <=> FileSound(f)) /\ (CandidateSound(f)' <=> CandidateSound(f))
               /\ (Plain(f)' <=> Plain(f))
    BY DEF files, FileSound, CandidateSound, Plain
  <1>3. \A r \in Servers : RecSound(scan'[r])
    BY <1>1 DEF ProbedInv, ScanSound, RecSound, Candidate
  <1>4. \A r \in Servers : ScanSound(r)'
    BY <1>3 DEF RecSound, ScanSound, Candidate, First, files, CandidateSound, Plain
  <1> QED
    BY <1>2, <1>4 DEF ProbedInv

LEMMA IdleSound == RecSound(Idle)
  BY DEF RecSound, Idle

LEMMA NextSound ==
  ASSUME NEW found, \A f \in found : CandidateSound(f)
  PROVE  RecSound(NextOf(found))
  BY IdleSound DEF NextOf, RecSound, Idle

LEMMA LookedSound ==
  ASSUME ScansOK, ProbedInv, NEW s \in Servers, NEW found, \A f \in found : CandidateSound(f)
  PROVE  RecSound(Looked(s, found))
  <1> DEFINE f   == First(scan[s].todo)
             rec == [scan[s] EXCEPT !.at = "list", !.todo = @ \ {f}, !.old = @ \ {f}, !.found = found]
  <1>1. scan[s] \in Scan /\ scan[s].old \subseteq aged
    BY DEF ScansOK, ProbedInv, ScanSound
  <1>2. rec.old \subseteq aged /\ rec.found = found /\ rec.at = "list"
    BY <1>1 DEF Scan
  <1>3. RecSound(rec)
    <2> HIDE DEF rec
    <2> QED
      BY <1>2 DEF RecSound
  <1> QED
    BY <1>3, NextSound DEF Looked

LEMMA SoundListing ==
  ASSUME FilesOK, ScansOK, ProbedInv, NEW s \in Servers,
         ScanStarts(s) \/ IsFile(s) \/ Stat(s) \/ StatRaises(s)
  PROVE  ProbedInv'
  <1>1. UNCHANGED files
    BY DEF ScanStarts, IsFile, Stat, StatRaises, ScanFails
  <1>2. scan[s] \in Scan /\ ScanSound(s)
    BY DEF ScansOK, ProbedInv
  <1>3. CASE ScanStarts(s)
    <2> DEFINE names == {f \in Files : content[f] # "absent"}
               rec   == IF names = {} THEN Idle
                        ELSE [Idle EXCEPT !.at = "list", !.old = aged, !.todo = names]
    <2>1. RecSound(rec)
      BY IdleSound DEF RecSound, Idle
    <2>2. Step(s, rec)
      BY <1>3 DEF ScanStarts
    <2> QED
      BY <1>1, <2>1, <2>2, SoundStep
  <1>4. CASE IsFile(s)
    <2>1. RecSound([scan[s] EXCEPT !.at = "stat"])
      BY <1>2 DEF ScanSound, RecSound, Scan
    <2>2. RecSound(Looked(s, scan[s].found))
      BY <1>2, LookedSound DEF ScanSound
    <2>3. Step(s, [scan[s] EXCEPT !.at = "stat"]) \/ Step(s, Looked(s, scan[s].found))
      BY <1>4 DEF IsFile, Step
    <2> QED
      BY <1>1, <2>1, <2>2, <2>3, SoundStep
  <1>5. CASE Stat(s)
    <2> DEFINE f     == First(scan[s].todo)
               found == scan[s].found \cup (IF IsStable(s, f) THEN {f} ELSE {})
    <2>1. At(s, "stat") /\ content[f] # "absent" /\ Step(s, Looked(s, found))
      BY <1>5 DEF Stat
    <2>2. f \in Files
      BY <2>1, HoldsFiles DEF At
    <2>3. IsStable(s, f) => f \in aged
      BY <1>2 DEF IsStable, ScanSound
    <2> HIDE DEF f
    <2>4. copies[f] >= 1 /\ (f \in aged => content[f] = "whole" \/ f \in Stalls)
      BY <2>1, <2>2 DEF ProbedInv, FileSound
    <2>5. \A g \in found : CandidateSound(g)
      BY <1>2, <2>3, <2>4 DEF ScanSound, CandidateSound, Plain
    <2> HIDE DEF found
    <2> QED
      BY <1>1, <2>1, <2>5, LookedSound, SoundStep
  <1>6. CASE StatRaises(s)
    BY <1>1, <1>6, IdleSound, SoundStep DEF StatRaises, ScanFails
  <1> QED
    BY <1>3, <1>4, <1>5, <1>6

LEMMA SoundCandidates ==
  ASSUME FilesOK, ScansOK, ProbedInv, NEW s \in Servers,
         \/ ProbeRaises(s) \/ ProbeAndMatch(s) \/ IsProcessed(s) \/ SaveJob(s)
         \/ MarkProcessed(s) \/ Enqueue(s) \/ Crash(s)
  PROVE  ProbedInv'
  <1> DEFINE f == Candidate(s)
  <1>1. UNCHANGED files
    BY DEF ProbeRaises, ProbeAndMatch, IsProcessed, SaveJob, MarkProcessed, Enqueue, Crash, ScanFails
  <1>2. scan[s] \in Scan /\ ScanSound(s)
    BY DEF ScansOK, ProbedInv
  <1>3. CASE Skip(s)
    <2>1. \A g \in scan[s].found \ {f} : CandidateSound(g)
      BY <1>2 DEF ScanSound
    <2> QED
      BY <1>1, <1>3, <2>1, NextSound, SoundStep DEF Skip
  <1>4. CASE ProbeRaises(s) \/ Crash(s)
    BY <1>1, <1>4, IdleSound, SoundStep DEF ProbeRaises, ScanFails, Crash
  <1>5. CASE ProbeAndMatch(s) /\ ~Skip(s)
    <2> DEFINE rec == [scan[s] EXCEPT !.at = "check", !.seen = content[f]]
    <2>1. At(s, "probe") /\ Step(s, rec) /\ Outcome[f][content[f]] # Raised
      BY <1>5 DEF ProbeAndMatch
    <2>2. f \in Files /\ f \in scan[s].found
      BY <2>1, HoldsFiles DEF At
    <2>3. content[f] \in {"torn", "whole"} /\ CandidateSound(f)
      BY <1>2, <2>1, <2>2, OutcomeReadable DEF FilesOK, ScanSound
    <2>4. Plain(f) => content[f] = "whole"
      BY <2>3 DEF CandidateSound
    <2>5. rec.old = scan[s].old /\ rec.found = scan[s].found /\ rec.seen = content[f]
      BY <1>2 DEF Scan
    <2> HIDE DEF rec
    <2>6. RecSound(rec)
      BY <1>2, <2>4, <2>5 DEF RecSound, ScanSound, Candidate
    <2> QED
      BY <1>1, <2>1, <2>6, SoundStep
  <1>6. CASE (IsProcessed(s) /\ ~Skip(s)) \/ SaveJob(s)
    <2>1. PICK p \in {"save", "mark"} :
            scan[s].at \in {"check", "save"} /\ Step(s, [scan[s] EXCEPT !.at = p])
      BY <1>6 DEF IsProcessed, SaveJob, At
    <2>2. RecSound([scan[s] EXCEPT !.at = p])
      BY <1>2, <2>1 DEF ScanSound, RecSound, Scan, Candidate
    <2> QED
      BY <1>1, <2>1, <2>2, SoundStep
  <1>7. CASE MarkProcessed(s)
    <2>1. RecSound([scan[s] EXCEPT !.at = "push", !.seen = None])
      BY <1>2 DEF ScanSound, RecSound, Scan
    <2> QED
      BY <1>1, <1>7, <2>1, SoundStep DEF MarkProcessed
  <1> QED
    BY <1>3, <1>4, <1>5, <1>6, <1>7 DEF Enqueue

\* A job is made from a probe of the whole file, whatever is copied, removed and
\* scanned at the same time, for every file that was copied once by a copy that
\* did not pause for the time of stability.
THEOREM ScanProbes == Spec => []ProbedWhole
  <1>1. ScanTypeOK /\ ProbedInv /\ [Next]_vars => ProbedInv'
    <2> SUFFICES ASSUME FilesOK, ScansOK, ProbedInv, [Next]_vars PROVE ProbedInv'
      BY TypeParts
    <2>1. CASE UNCHANGED vars
      BY <2>1 DEF vars, files, ProbedInv, FileSound, ScanSound, CandidateSound, Plain, Candidate, First
    <2> QED
      BY <2>1, SoundUsers, SoundListing, SoundCandidates DEF Next, ServerStep
  <1>2. ProbedInv => ProbedWhole
    BY DEF ProbedInv, ScanSound, Plain, ProbedWhole, At
  <1> QED
    BY <1>1, <1>2, ProbedInvInit, ScanTyped, PTL DEF Spec
-----------------------------------------------------------------------------
(* The matching, for any rules.  The sort is stable: each rule gets a place *)
(* of its own.  The first of the sorted rules that matches is therefore the *)
(* one that precedes all others that do.                                    *)

\* Rule a is the one to select for an input.
Selected(rules, probed, a) ==
  /\ Matches(rules[a].match, probed)
  /\ \A b \in DOMAIN rules : Matches(rules[b].match, probed) => b = a \/ Precedes(rules, a, b)

\* Precedes is a strict total order.
LEMMA PrecedesOrders ==
  ASSUME NEW rules, Prioritised(rules)
  PROVE  /\ DOMAIN rules = 1..Len(rules) /\ Len(rules) \in Nat
         /\ \A a, b \in DOMAIN rules :
              /\ a = b \/ Precedes(rules, a, b) \/ Precedes(rules, b, a)
              /\ Precedes(rules, a, b) => a # b /\ ~Precedes(rules, b, a)
         /\ \A a, b, c \in DOMAIN rules :
              Precedes(rules, a, b) /\ Precedes(rules, b, c) => Precedes(rules, a, c)
  <1>1. DOMAIN rules = 1..Len(rules) /\ Len(rules) \in Nat
    BY DEF Prioritised
  <1>2. \A a \in DOMAIN rules : a \in Nat /\ rules[a].priority \in Nat
    BY <1>1 DEF Prioritised
  <1> QED
    BY <1>1, <1>2 DEF Precedes

\* A rule that precedes another has a smaller place.
LEMMA PlaceLess ==
  ASSUME NEW rules, Prioritised(rules),
         NEW a \in DOMAIN rules, NEW b \in DOMAIN rules
  PROVE  /\ Place(rules, a) \in DOMAIN rules
         /\ Precedes(rules, a, b) => Place(rules, a) < Place(rules, b)
  <1> DEFINE upTo(k) == {c \in DOMAIN rules : c = k \/ Precedes(rules, c, k)}
  <1>1. \A k \in DOMAIN rules : /\ IsFiniteSet(upTo(k)) /\ Place(rules, k) = Cardinality(upTo(k))
                                /\ Place(rules, k) \in 0..Len(rules)
    <2> SUFFICES ASSUME NEW k \in DOMAIN rules
                 PROVE  /\ IsFiniteSet(upTo(k)) /\ Place(rules, k) = Cardinality(upTo(k))
                        /\ Place(rules, k) \in 0..Len(rules)
      OBVIOUS
    <2>1. /\ IsFiniteSet(DOMAIN rules) /\ Cardinality(DOMAIN rules) = Len(rules)
          /\ Len(rules) \in Nat
      <3>1. DOMAIN rules = 1..Len(rules) /\ Len(rules) \in Nat
        BY PrecedesOrders
      <3>2. /\ IsFiniteSet(1..Len(rules))
            /\ Cardinality(1..Len(rules)) = IF 1 > Len(rules) THEN 0 ELSE Len(rules) - 1 + 1
        <4> HIDE DEF upTo
        <4>1. 1 \in Int /\ Len(rules) \in Int
          BY <3>1
        <4> QED
          BY <4>1, FS_Interval
      <3> QED
        BY <3>1, <3>2
    <2>2. upTo(k) \in SUBSET DOMAIN rules /\ Place(rules, k) = Cardinality(upTo(k))
      BY DEF Place
    <2>3. /\ IsFiniteSet(upTo(k)) /\ Cardinality(upTo(k)) <= Len(rules)
          /\ Cardinality(upTo(k)) \in Nat
      <3> HIDE DEF upTo
      <3> QED
        BY <2>1, <2>2, FS_Subset, FS_CardinalityType
    <2> QED
      BY <2>1, <2>2, <2>3
  <1>2. ASSUME NEW k \in DOMAIN rules, NEW S \in SUBSET upTo(k), k \notin S
        PROVE  Cardinality(S) \in Nat /\ Cardinality(S) < Place(rules, k)
    <2>1. k \in upTo(k)
      OBVIOUS
    <2>2. IsFiniteSet(upTo(k)) /\ Place(rules, k) = Cardinality(upTo(k))
      BY <1>1
    <2> HIDE DEF upTo
    <2>3. /\ IsFiniteSet(S) /\ Cardinality(S) <= Cardinality(upTo(k))
          /\ Cardinality(S) # Cardinality(upTo(k))
          /\ Cardinality(S) \in Nat /\ Cardinality(upTo(k)) \in Nat
      BY <1>2, <2>1, <2>2, FS_Subset, FS_CardinalityType
    <2> QED
      BY <2>2, <2>3
  <1>3. Place(rules, a) \in DOMAIN rules
    <2>1. Cardinality({}) < Place(rules, a)
      BY <1>2
    <2>2. Place(rules, a) \in 0..Len(rules) /\ Len(rules) \in Nat /\ 0 < Place(rules, a)
      <3>1. Cardinality({}) = 0
        BY FS_EmptySet
      <3>2. Place(rules, a) \in 0..Len(rules) /\ Len(rules) \in Nat
        BY <1>1, PrecedesOrders
      <3> QED
        BY <2>1, <3>1, <3>2
    <2> QED
      BY <2>2, PrecedesOrders
  <1>4. ASSUME Precedes(rules, a, b) PROVE Place(rules, a) < Place(rules, b)
    <2>1. upTo(a) \in SUBSET upTo(b) /\ b \notin upTo(a)
      BY <1>4, PrecedesOrders
    <2>2. Place(rules, a) = Cardinality(upTo(a))
      BY <1>1
    <2> QED
      BY <1>2, <2>1, <2>2
  <1> QED
    BY <1>3, <1>4

\* Each rule has a place of its own, and each place a rule.
LEMMA PlaceOnto ==
  ASSUME NEW rules, Prioritised(rules), NEW n \in DOMAIN rules
  PROVE  \E a \in DOMAIN rules : Place(rules, a) = n
  <1> DEFINE D == DOMAIN rules
             f == [a \in D |-> Place(rules, a)]
  <1>1. IsFiniteSet(D)
    <2>1. DOMAIN rules = 1..Len(rules) /\ Len(rules) \in Nat
      BY PrecedesOrders
    <2> QED
      BY <2>1, FS_Interval
  <1>2. f \in [D -> D]
    BY PlaceLess
  <1>3. \A a, b \in D : f[a] = f[b] => a = b
    <2> SUFFICES ASSUME NEW a \in D, NEW b \in D, a # b PROVE f[a] # f[b]
      OBVIOUS
    <2>1. Precedes(rules, a, b) \/ Precedes(rules, b, a)
      BY PrecedesOrders
    <2>2. /\ Precedes(rules, a, b) => Place(rules, a) < Place(rules, b)
          /\ Precedes(rules, b, a) => Place(rules, b) < Place(rules, a)
          /\ Place(rules, a) \in Nat /\ Place(rules, b) \in Nat
      BY PlaceLess, PrecedesOrders
    <2> QED
      BY <2>1, <2>2
  <1>4. f \in Surjection(D, D)
    <2>1. f \in Injection(D, D)
      BY <1>2, <1>3 DEF Injection, IsInjective
    <2> HIDE DEF f, D
    <2> QED
      BY <1>1, <2>1, FS_Injection
  <1>5. \A m \in D : \E a \in D : f[a] = m
    BY <1>4 DEF Surjection
  <1> QED
    BY <1>5

\* The n-th of the sorted rules.
Nth(rules, n) == CHOOSE a \in DOMAIN rules : Place(rules, a) = n

LEMMA NthSorted ==
  ASSUME NEW rules, Prioritised(rules)
  PROVE  /\ \A n \in DOMAIN rules : Nth(rules, n) \in DOMAIN rules /\ Place(rules, Nth(rules, n)) = n
         /\ \A a \in DOMAIN rules : Place(rules, a) \in DOMAIN rules /\ Nth(rules, Place(rules, a)) = a
         /\ \A a, b \in DOMAIN rules : Precedes(rules, a, b) <=> Place(rules, a) < Place(rules, b)
         /\ ByPriority(rules) = [n \in DOMAIN rules |-> rules[Nth(rules, n)]]
         /\ ByPriority(rules) \in Seq({rules[a] : a \in DOMAIN rules})
         /\ Len(ByPriority(rules)) = Len(rules)
  <1>1. \A n \in DOMAIN rules : Nth(rules, n) \in DOMAIN rules /\ Place(rules, Nth(rules, n)) = n
    BY PlaceOnto DEF Nth
  <1>2. \A a, b \in DOMAIN rules : Precedes(rules, a, b) <=> Place(rules, a) < Place(rules, b)
    <2> SUFFICES ASSUME NEW a \in DOMAIN rules, NEW b \in DOMAIN rules
                 PROVE  Precedes(rules, a, b) <=> Place(rules, a) < Place(rules, b)
      OBVIOUS
    <2>1. /\ Precedes(rules, a, b) => Place(rules, a) < Place(rules, b)
          /\ Precedes(rules, b, a) => Place(rules, b) < Place(rules, a)
          /\ Place(rules, a) \in Nat /\ Place(rules, b) \in Nat
      BY PlaceLess, PrecedesOrders
    <2> QED
      BY <2>1, PrecedesOrders
  <1>3. ASSUME NEW a \in DOMAIN rules
        PROVE  Place(rules, a) \in DOMAIN rules /\ Nth(rules, Place(rules, a)) = a
    <2> DEFINE b == Nth(rules, Place(rules, a))
    <2>1. Place(rules, a) \in DOMAIN rules /\ Place(rules, a) \in Nat
      BY PlaceLess, PrecedesOrders
    <2>2. b \in DOMAIN rules /\ Place(rules, b) = Place(rules, a)
      BY <1>1, <2>1
    <2>3. ~Precedes(rules, a, b) /\ ~Precedes(rules, b, a)
      BY <1>2, <2>1, <2>2
    <2> QED
      BY <2>1, <2>2, <2>3, PrecedesOrders
  <1>4. ByPriority(rules) = [n \in DOMAIN rules |-> rules[Nth(rules, n)]]
    BY DEF ByPriority, Nth
  <1>5. /\ ByPriority(rules) \in Seq({rules[a] : a \in DOMAIN rules})
        /\ Len(ByPriority(rules)) = Len(rules)
    BY <1>1, <1>4, PrecedesOrders
  <1> QED
    BY <1>1, <1>2, <1>3, <1>4, <1>5

\* The Min of FiniteSetsExt.
LEMMA SmallestIn ==
  ASSUME NEW S \in SUBSET Nat, S # {}
  PROVE  Min(S) \in S /\ \A k \in S : Min(S) <= k
  <1>1. \E n \in S : \A k \in S : n <= k
    <2>1. PICK n \in S : \A k \in S : <<k, n>> \notin OpToRel(<, Nat)
      BY NatLessThanWellFounded, WFMin
    <2>2. ASSUME NEW k \in S PROVE n <= k
      <3>1. k \in Nat /\ n \in Nat /\ ~(k < n)
        BY <2>1 DEF OpToRel
      <3> QED
        BY <3>1
    <2> QED
      BY <2>2
  <1> QED
    BY <1>1 DEF Min

\* ProfileMatcher finds no rule only if none matches, and else the one that matches with
\* the least priority, the first in the file of those.
THEOREM MatchRuleSelects ==
  ASSUME NEW rules, Prioritised(rules), NEW probed
  PROVE  \/ /\ MatchRule(rules, probed) = None
            /\ \A a \in DOMAIN rules : ~Matches(rules[a].match, probed)
         \/ \E a \in DOMAIN rules :
              Selected(rules, probed, a) /\ MatchRule(rules, probed) = rules[a]
  <1> DEFINE sorted == ByPriority(rules)
             I == {n \in 1..Len(sorted) : Matches(sorted[n].match, probed)}
  <1>1. /\ MatchRule(rules, probed) = IF I # {} THEN sorted[Min(I)] ELSE None
    <2>1. SelectInSeq(sorted, LAMBDA rule : Matches(rule.match, probed)) = IF I # {} THEN Min(I) ELSE 0
      BY DEF SelectInSeq
    <2>2. I # {} => Min(I) # 0
      BY SmallestIn
    <2> QED
      BY <2>1, <2>2 DEF MatchRule
  <1>2. /\ DOMAIN rules = 1..Len(rules) /\ Len(sorted) = Len(rules) /\ Len(rules) \in Nat
        /\ \A n \in DOMAIN rules : sorted[n] = rules[Nth(rules, n)] /\ Nth(rules, n) \in DOMAIN rules
        /\ \A a \in DOMAIN rules : Place(rules, a) \in DOMAIN rules /\ sorted[Place(rules, a)] = rules[a]
    <2>1. /\ sorted = [n \in DOMAIN rules |-> rules[Nth(rules, n)]] /\ Len(sorted) = Len(rules)
          /\ \A n \in DOMAIN rules : Nth(rules, n) \in DOMAIN rules
          /\ \A a \in DOMAIN rules : Place(rules, a) \in DOMAIN rules /\ Nth(rules, Place(rules, a)) = a
      BY NthSorted
    <2> HIDE DEF sorted
    <2> QED
      BY <2>1, PrecedesOrders
  <1>3. I = {n \in DOMAIN rules : Matches(sorted[n].match, probed)}
    BY <1>2
  <1>4. CASE I = {}
    <2>1. \A a \in DOMAIN rules : ~Matches(rules[a].match, probed)
      BY <1>2, <1>3, <1>4
    <2> QED
      BY <1>1, <1>4, <2>1
  <1>5. CASE I # {}
    <2> DEFINE m == Min(I)
               a == Nth(rules, m)
    <2>1. m \in I /\ \A k \in I : m <= k
      <3>1. I \in SUBSET Nat
        OBVIOUS
      <3> HIDE DEF I
      <3> QED
        BY <1>5, <3>1, SmallestIn
    <2>2. /\ a \in DOMAIN rules /\ m \in DOMAIN rules /\ rules[a] = sorted[m]
          /\ Matches(rules[a].match, probed) /\ Place(rules, a) = m
      BY <1>2, <1>3, <2>1, NthSorted
    <2>3. ASSUME NEW b \in DOMAIN rules, Matches(rules[b].match, probed)
          PROVE  b = a \/ Precedes(rules, a, b)
      <3>1. Place(rules, b) \in I
        BY <1>2, <1>3, <2>3
      <3>2. m <= Place(rules, b) /\ m \in Nat /\ Place(rules, b) \in Nat
        BY <2>1, <3>1
      <3>3. CASE m = Place(rules, b)
        BY <3>3, NthSorted
      <3>4. CASE m < Place(rules, b)
        BY <2>2, <3>4, NthSorted
      <3> QED
        BY <3>2, <3>3, <3>4
    <2>4. MatchRule(rules, probed) = rules[a]
      BY <1>1, <1>5, <2>2
    <2> QED
      BY <2>2, <2>3, <2>4 DEF Selected
  <1> QED
    BY <1>4, <1>5

\* The order of the rules in the file decides among rules of one priority only.
THEOREM OrderIrrelevant ==
  ASSUME NEW rules, Prioritised(rules),
         \A a, b \in DOMAIN rules : rules[a].priority = rules[b].priority => a = b,
         NEW p \in Bijection(DOMAIN rules, DOMAIN rules), NEW probed
  PROVE  MatchRule([a \in DOMAIN rules |-> rules[p[a]]], probed) = MatchRule(rules, probed)
  <1> DEFINE others == [a \in DOMAIN rules |-> rules[p[a]]]
  <1>1. /\ p \in [DOMAIN rules -> DOMAIN rules]
        /\ \A a, b \in DOMAIN rules : p[a] = p[b] => a = b
        /\ \A b \in DOMAIN rules : \E a \in DOMAIN rules : p[a] = b
    BY DEF Bijection, Injection, Surjection, IsInjective
  <1>2. /\ DOMAIN rules = 1..Len(rules) /\ Len(rules) \in Nat
        /\ \A a \in DOMAIN rules : rules[a].priority \in Nat
    BY PrecedesOrders DEF Prioritised
  <1>3. /\ DOMAIN others = DOMAIN rules
        /\ \A a \in DOMAIN rules : others[a] = rules[p[a]]
    OBVIOUS
  <1>4. Prioritised(others)
    <2>1. others \in Seq({others[a] : a \in DOMAIN others})
      BY <1>2, <1>3
    <2> HIDE DEF others
    <2> QED
      BY <1>1, <1>2, <1>3, <2>1 DEF Prioritised
  <1> HIDE DEF others
  <1>5. \A a, b \in DOMAIN rules : Precedes(others, a, b) => Precedes(rules, p[a], p[b])
    <2> SUFFICES ASSUME NEW a \in DOMAIN rules, NEW b \in DOMAIN rules, Precedes(others, a, b)
                 PROVE  Precedes(rules, p[a], p[b])
      OBVIOUS
    <2>1. /\ p[a] \in DOMAIN rules /\ p[b] \in DOMAIN rules
          /\ others[a] = rules[p[a]] /\ others[b] = rules[p[b]]
      BY <1>1, <1>3
    <2>2. others[a].priority = others[b].priority => a = b
      BY <1>1, <2>1
    <2> QED
      BY <1>2, <2>1, <2>2 DEF Precedes
  <1>6. CASE \A a \in DOMAIN rules : ~Matches(rules[a].match, probed)
    <2>1. \A a \in DOMAIN rules : ~Matches(others[a].match, probed)
      BY <1>1, <1>3, <1>6
    <2>2. MatchRule(rules, probed) = None
      BY <1>6, MatchRuleSelects DEF Selected
    <2>3. MatchRule(others, probed) = None
      BY <1>3, <1>4, <2>1, MatchRuleSelects DEF Selected
    <2> QED
      BY <2>2, <2>3 DEF others
  <1>7. CASE \E a \in DOMAIN rules : Matches(rules[a].match, probed)
    <2>1. PICK a \in DOMAIN rules : Selected(rules, probed, a) /\ MatchRule(rules, probed) = rules[a]
      BY <1>7, MatchRuleSelects
    <2>2. PICK b \in DOMAIN rules : p[b] = a
      BY <1>1
    <2>3. PICK c \in DOMAIN rules : Selected(others, probed, c) /\ MatchRule(others, probed) = others[c]
      <3>1. Matches(others[b].match, probed)
        BY <1>3, <2>1, <2>2 DEF Selected
      <3> QED
        BY <1>3, <1>4, <3>1, MatchRuleSelects
    <2>4. Matches(rules[p[c]].match, probed) /\ p[c] \in DOMAIN rules
      BY <1>1, <1>3, <2>3 DEF Selected
    <2>5. p[c] = a \/ Precedes(rules, a, p[c])
      BY <2>1, <2>4 DEF Selected
    <2>6. c = b \/ Precedes(others, c, b)
      BY <1>3, <2>1, <2>2, <2>3 DEF Selected
    <2>7. p[c] = a \/ Precedes(rules, p[c], a)
      BY <1>5, <2>2, <2>6
    <2>8. p[c] = a
      BY <2>4, <2>5, <2>7, PrecedesOrders
    <2> QED
      BY <1>3, <2>1, <2>3, <2>8 DEF others
  <1> QED
    BY <1>6, <1>7

\* With a configuration that was accepted, whatever is probed, a match finds a profile
\* that is there, or there is none to find.
THEOREM AcceptedMatches ==
  ASSUME NEW config, ConfigValid(config), Prioritised(config.rules),
         Raised \notin config.profiles, None # Raised, NEW probed
  PROVE  MatchProfile(config, probed) \in config.profiles \cup {None}
  <1> DEFINE rule == MatchRule(config.rules, probed)
  <1>1. rule # None => rule.profile \in config.profiles
    BY MatchRuleSelects DEF ConfigValid
  <1>2. config.noMatch = "default_profile" => config.defaultProfile \in config.profiles
    BY DEF ConfigValid
  <1> HIDE DEF rule
  <1>3. MatchProfile(config, probed) =
          IF rule # None THEN ProfileOf(config, rule.profile)
          ELSE IF config.noMatch = "default_profile" THEN ProfileOf(config, config.defaultProfile)
          ELSE None
    BY DEF MatchProfile, rule
  <1> QED
    BY <1>1, <1>2, <1>3 DEF ProfileOf

\* A scan raises over a file that ffprobe cannot read, and over no other.
THEOREM RaisesOverUnreadable ==
  ASSUME NEW f \in Files, NEW c \in Contents, Outcome[f][c] = Raised
  PROVE  \/ c \in {"absent", "empty"} \/ Media[f][c] = Unreadable
         \/ ~ProbedInputValid(MediaProbe(Media[f][c]))
  <1>1. \A probed : MatchProfile(Config, probed) # Raised
    BY AcceptedMatches, ScanAssumption
  <1> QED
    BY <1>1 DEF Outcome

LEMMA SmallRulesPrioritised ==
  ASSUME NEW config \in SmallConfigs
  PROVE  Prioritised(config.rules)
  <1>1. \A r \in SmallRules : r.priority \in Nat
    BY DEF SmallRules, Rule
  <1>2. CASE config.rules = <<>>
    BY <1>2 DEF Prioritised
  <1>3. CASE \E r \in SmallRules : config.rules = <<r>>
    BY <1>1, <1>3 DEF Prioritised
  <1>4. CASE config.rules \in SmallRules \X SmallRules
    <2>1. PICK q \in SmallRules, r \in SmallRules : config.rules = <<q, r>>
      BY <1>4
    <2> QED
      BY <1>1, <2>1 DEF Prioritised
  <1> QED
    BY <1>2, <1>3, <1>4 DEF SmallConfigs

\* No match raises with the small configurations that are accepted.
THEOREM ScanAcceptedNeverRaises == Spec => []AcceptedNeverRaises
  <1>1. AcceptedMatch
    <2> SUFFICES ASSUME NEW config \in SmallConfigs, ConfigValid(config), NEW probed
                 PROVE  MatchProfile(config, probed) # Raised
      BY DEF AcceptedMatch
    <2>1. Prioritised(config.rules)
      BY SmallRulesPrioritised
    <2>2. Raised \notin config.profiles /\ None # Raised
      BY ScanAssumption DEF SmallConfigs, Raised
    <2> QED
      BY <2>1, <2>2, AcceptedMatches
  <1>2. AcceptedNeverRaises
    BY <1>1 DEF AcceptedNeverRaises
  <1> QED
    BY <1>2, PTL

\* Exchanging two neighbours is one of those orders.
LEMMA SwapIrrelevant ==
  ASSUME NEW rules, Prioritised(rules),
         \A a, b \in DOMAIN rules : rules[a].priority = rules[b].priority => a = b,
         NEW i \in DOMAIN rules, i + 1 \in DOMAIN rules, NEW probed
  PROVE  MatchRule(Swapped(rules, i), probed) = MatchRule(rules, probed)
  <1> DEFINE p == [a \in DOMAIN rules |-> IF a = i THEN i + 1 ELSE IF a = i + 1 THEN i ELSE a]
  <1>1. /\ p \in [DOMAIN rules -> DOMAIN rules]
        /\ \A a \in DOMAIN rules : p[p[a]] = a
    <2>1. DOMAIN rules \subseteq Nat
      BY PrecedesOrders
    <2> QED
      BY <2>1
  <1>2. p \in Bijection(DOMAIN rules, DOMAIN rules)
    <2> HIDE DEF p
    <2>1. \A a, b \in DOMAIN rules : p[a] = p[b] => a = b
      BY <1>1
    <2>2. \A b \in DOMAIN rules : \E a \in DOMAIN rules : p[a] = b
      BY <1>1
    <2> QED
      BY <1>1, <2>1, <2>2 DEF Bijection, Injection, Surjection, IsInjective
  <1>3. Swapped(rules, i) = [a \in DOMAIN rules |-> rules[p[a]]]
    BY PrecedesOrders DEF Swapped
  <1> HIDE DEF p
  <1> QED
    BY <1>2, <1>3, OrderIrrelevant

\* The rules of the repository have priorities that differ.
LEMMA ShippedRules ==
  LET rules == VshiftYaml.rules
  IN  /\ Prioritised(rules) /\ DOMAIN rules = 1..6 /\ Len(rules) = 6
      /\ \A a, b \in DOMAIN rules : rules[a].priority = rules[b].priority => a = b
  <1> DEFINE rules == VshiftYaml.rules
  <1>1. /\ DOMAIN rules = 1..6 /\ Len(rules) = 6
        /\ rules[1].priority = 10 /\ rules[2].priority = 20 /\ rules[3].priority = 25
        /\ rules[4].priority = 30 /\ rules[5].priority = 40 /\ rules[6].priority = 50
    BY DEF VshiftYaml, Rule
  <1>2. rules \in Seq({rules[a] : a \in DOMAIN rules})
    <2>1. rules = [a \in 1..6 |-> rules[a]]
      BY DEF VshiftYaml
    <2> HIDE DEF rules
    <2> QED
      BY <1>1, <2>1
  <1> HIDE DEF rules
  <1>3. \A a \in DOMAIN rules : a \in {1, 2, 3, 4, 5, 6}
    BY <1>1
  <1> QED
    <2>1. \A a \in DOMAIN rules : rules[a].priority \in Nat
      BY <1>1, <1>3
    <2>2. \A a, b \in DOMAIN rules : rules[a].priority = rules[b].priority => a = b
      BY <1>1, <1>3
    <2>3. Prioritised(rules)
      BY <1>2, <2>1 DEF Prioritised
    <2> QED
      BY <1>1, <2>2, <2>3 DEF rules

\* Whatever is probed, exchanging neighbours among the rules of the repository changes no match.
THEOREM ScanRuleOrderIrrelevant == Spec => []RuleOrderIrrelevant
  <1>1. SwapsMatchAlike
    <2> SUFFICES ASSUME NEW i \in 1..5, NEW probed
                 PROVE  MatchRule(Swapped(VshiftYaml.rules, i), probed)
                          = MatchRule(VshiftYaml.rules, probed)
      BY ShippedRules DEF SwapsMatchAlike
    <2> QED
      BY ShippedRules, SwapIrrelevant
  <1>2. RuleOrderIrrelevant
    BY <1>1 DEF RuleOrderIrrelevant
  <1> QED
    BY <1>2, PTL

\* For any size, depth and colours: the rules of the repository give a video of ten bits
\* or more a profile of ten, every other one a profile of eight, or none.
THEOREM ShippedRulesKeepDepth ==
  ASSUME NEW probed, probed.width \in Nat, probed.height \in Nat,
         probed.bitDepth \in Nat, probed.hdr \in BOOLEAN,
         MatchProfile(VshiftYaml, probed) # None
  PROVE  MatchProfile(VshiftYaml, probed) \in {"4k-10Bit-H265", "1080p-10Bit"}
           <=> probed.bitDepth >= 10
  <1> DEFINE rules == VshiftYaml.rules
  <1>1. PICK a \in DOMAIN rules : /\ Selected(rules, probed, a)
                                  /\ MatchProfile(VshiftYaml, probed) = rules[a].profile
    <2>1. VshiftYaml.noMatch = "ignore"
      BY DEF VshiftYaml
    <2>2. MatchRule(rules, probed) # None
      BY <2>1 DEF MatchProfile
    <2>3. PICK a \in DOMAIN rules : Selected(rules, probed, a) /\ MatchRule(rules, probed) = rules[a]
      BY <2>2, ShippedRules, MatchRuleSelects
    <2>4. \A b \in DOMAIN rules : rules[b].profile \in VshiftYaml.profiles
      <3>1. \A b \in DOMAIN rules : b \in {1, 2, 3, 4, 5, 6}
        BY ShippedRules
      <3> QED
        BY <3>1 DEF VshiftYaml, Rule
    <2> QED
      BY <2>2, <2>3, <2>4 DEF MatchProfile, ProfileOf
  <1>2. /\ rules[1].priority = 10 /\ rules[2].priority = 20 /\ rules[3].priority = 25
        /\ rules[4].priority = 30 /\ rules[5].priority = 40 /\ rules[6].priority = 50
        /\ rules[1].profile = "4k-10Bit-H265" /\ rules[2].profile = "4k-8Bit-SDR-H265"
        /\ rules[3].profile = "4k-10Bit-H265" /\ rules[4].profile = "1080p-10Bit"
        /\ rules[5].profile = "1080p-8Bit" /\ rules[6].profile = "4k-8Bit-SDR-H265"
    BY DEF VshiftYaml, Rule
  <1>3. /\ Matches(rules[1].match, probed) <=>
              /\ probed.extension \in Extensions /\ probed.width >= 3840
              /\ probed.bitDepth >= 10 /\ probed.hdr = TRUE
        /\ Matches(rules[2].match, probed) => probed.bitDepth <= 8
        /\ Matches(rules[3].match, probed) <=>
              /\ probed.extension \in Extensions /\ probed.width >= 3840
              /\ probed.bitDepth >= 10 /\ probed.hdr = FALSE
        /\ Matches(rules[4].match, probed) <=>
              /\ probed.extension \in Extensions /\ probed.height <= 1080 /\ probed.bitDepth >= 10
        /\ Matches(rules[5].match, probed) <=>
              probed.extension \in Extensions /\ probed.height <= 1080
        /\ Matches(rules[6].match, probed) <=>
              probed.extension \in Extensions /\ probed.width >= 3840
    <2>1. None \notin Nat
      BY ScanAssumption
    <2>2. TRUE # None /\ FALSE # None
      BY ScanAssumption
    <2>3. /\ rules[1].match.extensions = Extensions /\ rules[1].match.filenameGlob = None
          /\ rules[1].match.minWidth = 3840 /\ rules[1].match.maxWidth = None
          /\ rules[1].match.minHeight = None /\ rules[1].match.maxHeight = None
          /\ rules[1].match.minBitDepth = 10 /\ rules[1].match.maxBitDepth = None
      <3>1. rules[1].match = [AnyInput EXCEPT !.minWidth = 3840, !.minBitDepth = 10, !.hdr = TRUE]
        BY DEF VshiftYaml, Rule
      <3> HIDE DEF rules
      <3> QED
        BY <3>1 DEF AnyInput, NormalizeExtensions
    <2>4. /\ rules[2].match.extensions = Extensions /\ rules[2].match.filenameGlob = None
          /\ rules[2].match.minWidth = 3840 /\ rules[2].match.maxWidth = None
          /\ rules[2].match.minHeight = None /\ rules[2].match.maxHeight = None
          /\ rules[2].match.minBitDepth = None /\ rules[2].match.maxBitDepth = 8
          /\ rules[2].match.hdr = None
      <3>1. rules[2].match = [AnyInput EXCEPT !.minWidth = 3840, !.maxBitDepth = 8]
        BY DEF VshiftYaml, Rule
      <3> HIDE DEF rules
      <3> QED
        BY <3>1 DEF AnyInput, NormalizeExtensions
    <2>5. /\ rules[3].match.extensions = Extensions /\ rules[3].match.filenameGlob = None
          /\ rules[3].match.minWidth = 3840 /\ rules[3].match.maxWidth = None
          /\ rules[3].match.minHeight = None /\ rules[3].match.maxHeight = None
          /\ rules[3].match.minBitDepth = 10 /\ rules[3].match.maxBitDepth = None
      <3>1. rules[3].match = [AnyInput EXCEPT !.minWidth = 3840, !.minBitDepth = 10, !.hdr = FALSE]
        BY DEF VshiftYaml, Rule
      <3> HIDE DEF rules
      <3> QED
        BY <3>1 DEF AnyInput, NormalizeExtensions
    <2>6. /\ rules[4].match.extensions = Extensions /\ rules[4].match.filenameGlob = None
          /\ rules[4].match.minWidth = None /\ rules[4].match.maxWidth = None
          /\ rules[4].match.minHeight = None /\ rules[4].match.maxHeight = 1080
          /\ rules[4].match.minBitDepth = 10 /\ rules[4].match.maxBitDepth = None
          /\ rules[4].match.hdr = None
      <3>1. rules[4].match = [AnyInput EXCEPT !.maxHeight = 1080, !.minBitDepth = 10]
        BY DEF VshiftYaml, Rule
      <3> HIDE DEF rules
      <3> QED
        BY <3>1 DEF AnyInput, NormalizeExtensions
    <2>7. /\ rules[5].match.extensions = Extensions /\ rules[5].match.filenameGlob = None
          /\ rules[5].match.minWidth = None /\ rules[5].match.maxWidth = None
          /\ rules[5].match.minHeight = None /\ rules[5].match.maxHeight = 1080
          /\ rules[5].match.minBitDepth = None /\ rules[5].match.maxBitDepth = None
          /\ rules[5].match.hdr = None
      BY DEF VshiftYaml, Rule, AnyInput, NormalizeExtensions
    <2>8. /\ rules[6].match.extensions = Extensions /\ rules[6].match.filenameGlob = None
          /\ rules[6].match.minWidth = 3840 /\ rules[6].match.maxWidth = None
          /\ rules[6].match.minHeight = None /\ rules[6].match.maxHeight = None
          /\ rules[6].match.minBitDepth = None /\ rules[6].match.maxBitDepth = None
          /\ rules[6].match.hdr = None
      BY DEF VshiftYaml, Rule, AnyInput, NormalizeExtensions
    <2>16. rules[1].match.hdr = TRUE
      <3>1. rules[1].match = [AnyInput EXCEPT !.minWidth = 3840, !.minBitDepth = 10, !.hdr = TRUE]
        BY DEF VshiftYaml, Rule
      <3> HIDE DEF rules
      <3> QED
        BY <3>1 DEF AnyInput
    <2>17. rules[3].match.hdr = FALSE
      <3>1. rules[3].match = [AnyInput EXCEPT !.minWidth = 3840, !.minBitDepth = 10, !.hdr = FALSE]
        BY DEF VshiftYaml, Rule
      <3> HIDE DEF rules
      <3> QED
        BY <3>1 DEF AnyInput
    <2> HIDE DEF rules
    <2>9. Extensions # {}
      BY DEF Extensions
    <2>10. Matches(rules[1].match, probed) <=>
            /\ probed.extension \in Extensions /\ probed.width >= 3840
            /\ probed.bitDepth >= 10 /\ probed.hdr = TRUE
      <3>1. MatchesHdr(probed.hdr, TRUE) <=> probed.hdr = TRUE
        BY <2>2, Zenon DEF MatchesHdr
      <3>2. MatchesHdr(probed.hdr, rules[1].match.hdr) <=> probed.hdr = TRUE
        BY <2>16, <3>1, Zenon
      <3> QED
        BY <2>1, <2>3, <2>9, <3>2 DEF Matches, MatchesDimension
    <2>11. Matches(rules[2].match, probed) =>
            probed.bitDepth <= 8
      BY <2>1, <2>2, <2>4, <2>9 DEF Matches, MatchesDimension, MatchesHdr
    <2>12. Matches(rules[3].match, probed) <=>
            /\ probed.extension \in Extensions /\ probed.width >= 3840
            /\ probed.bitDepth >= 10 /\ probed.hdr = FALSE
      <3>1. MatchesHdr(probed.hdr, FALSE) <=> probed.hdr = FALSE
        BY <2>2, Zenon DEF MatchesHdr
      <3>2. MatchesHdr(probed.hdr, rules[3].match.hdr) <=> probed.hdr = FALSE
        BY <2>17, <3>1, Zenon
      <3> QED
        BY <2>1, <2>5, <2>9, <3>2 DEF Matches, MatchesDimension
    <2>13. Matches(rules[4].match, probed) <=>
            probed.extension \in Extensions /\ probed.height <= 1080 /\ probed.bitDepth >= 10
      BY <2>1, <2>2, <2>6, <2>9 DEF Matches, MatchesDimension, MatchesHdr
    <2>14. Matches(rules[5].match, probed) <=>
            probed.extension \in Extensions /\ probed.height <= 1080
      BY <2>1, <2>2, <2>7, <2>9 DEF Matches, MatchesDimension, MatchesHdr
    <2>15. Matches(rules[6].match, probed) <=>
            probed.extension \in Extensions /\ probed.width >= 3840
      BY <2>1, <2>2, <2>8, <2>9 DEF Matches, MatchesDimension, MatchesHdr
    <2> QED
      BY <2>10, <2>11, <2>12, <2>13, <2>14, <2>15
  <1>4. DOMAIN rules = 1..6
    BY ShippedRules
  <1> HIDE DEF rules
  <1>5. \A b \in DOMAIN rules : Matches(rules[b].match, probed) => b = a \/ Precedes(rules, a, b)
    BY <1>1 DEF Selected
  <1>6. Matches(rules[a].match, probed)
    BY <1>1 DEF Selected
  <1>7. a \in {1, 2, 3, 4, 5, 6}
    BY <1>1, <1>4
  <1>8. CASE a \in {1, 3, 4}
    BY <1>1, <1>2, <1>3, <1>6, <1>8
  <1>9. CASE a = 2
    BY <1>1, <1>2, <1>3, <1>6, <1>9
  <1>10. CASE a = 5
    <2>1. ~Matches(rules[4].match, probed)
      BY <1>2, <1>4, <1>5, <1>10 DEF Precedes
    <2> QED
      BY <1>1, <1>2, <1>3, <1>6, <1>10, <2>1
  <1>11. CASE a = 6
    <2>1. ~Matches(rules[1].match, probed) /\ ~Matches(rules[3].match, probed)
      BY <1>2, <1>4, <1>5, <1>11 DEF Precedes
    <2> QED
      BY <1>1, <1>2, <1>3, <1>6, <1>11, <2>1
  <1> QED
    BY <1>7, <1>8, <1>9, <1>10, <1>11

\* The first of one stream.
LEMMA OneVideo ==
  ASSUME NEW video, video.codecType = "video"
  PROVE  MediaProbe(<<video>>) = ParseVideoStream(video)
  <1>1. VideoIndices(<<video>>) = {1}
    BY DEF VideoIndices
  <1>2. (CHOOSE i \in {1} : \A k \in {1} : i <= k) = 1
    OBVIOUS
  <1> QED
    BY <1>1, <1>2 DEF MediaProbe

\* Where the depth is read off the names of the pixel formats (DepthRead, a search in text,
\* of all but the two that are misread), no video in one of these formats gets a profile of
\* another depth.
THEOREM ScanKeepsBitDepth ==
  ASSUME DepthRead
  PROVE  Spec => []BitDepthKept
  <1>1. DepthKept
    <2> SUFFICES ASSUME NEW pixFmt \in DOMAIN PixelFormats \ Misread, NEW size \in Sizes,
                        NEW transfer \in Transfers, NEW primaries \in Primaries
                 PROVE  LET video   == Video(size[1], size[2], pixFmt, transfer, primaries)
                            profile == MatchProfile(VshiftYaml, ProbedInput(Mkv, MediaProbe(<<video>>)))
                        IN  profile # None =>
                              (profile \in {"4k-10Bit-H265", "1080p-10Bit"} <=> PixelFormats[pixFmt] >= 10)
      BY DEF DepthKept
    <2> DEFINE video == Video(size[1], size[2], pixFmt, transfer, primaries)
               probed == ProbedInput(Mkv, MediaProbe(<<video>>))
    <2>1. /\ video.codecType = "video" /\ video.pixFmt = pixFmt
          /\ video.width = size[1] /\ video.height = size[2]
      BY DEF Video
    <2>2. size[1] \in Nat /\ size[2] \in Nat
      BY DEF Sizes
    <2>3. PixelFormats[pixFmt] \in {8, 10, 12}
      BY DEF PixelFormats
    <2>4. BitDepthFromPixFmt(pixFmt) = PixelFormats[pixFmt]
      BY DEF DepthRead
    <2> HIDE DEF video
    <2>5. /\ probed.width = size[1] /\ probed.height = size[2]
          /\ probed.bitDepth = PixelFormats[pixFmt]
          /\ probed.hdr = IsHdrStream(video, PixelFormats[pixFmt])
      <3>1. MediaProbe(<<video>>) = ParseVideoStream(video)
        BY <2>1, OneVideo
      <3>2. ParseVideoStream(video) =
              [width |-> size[1], height |-> size[2], bitDepth |-> PixelFormats[pixFmt],
               hdr |-> IsHdrStream(video, PixelFormats[pixFmt])]
        BY <2>1, <2>4, Zenon DEF ParseVideoStream
      <3> DEFINE hdr == IsHdrStream(video, PixelFormats[pixFmt])
      <3> HIDE DEF hdr
      <3>3. MediaProbe(<<video>>) =
              [width |-> size[1], height |-> size[2], bitDepth |-> PixelFormats[pixFmt], hdr |-> hdr]
        BY <3>1, <3>2 DEF hdr
      <3>4. /\ probed.width = size[1] /\ probed.height = size[2]
            /\ probed.bitDepth = PixelFormats[pixFmt] /\ probed.hdr = hdr
        BY <3>3 DEF ProbedInput
      <3> QED
        BY <3>4 DEF hdr
    <2>6. probed.hdr \in BOOLEAN
      <3>1. IsHdrStream(video, PixelFormats[pixFmt]) \in BOOLEAN
        BY DEF IsHdrStream
      <3> QED
        BY <2>5, <3>1
    <2> HIDE DEF probed
    <2>7. MatchProfile(VshiftYaml, probed) # None =>
            (MatchProfile(VshiftYaml, probed) \in {"4k-10Bit-H265", "1080p-10Bit"}
               <=> PixelFormats[pixFmt] >= 10)
      BY <2>2, <2>3, <2>5, <2>6, ShippedRulesKeepDepth
    <2> QED
      BY <2>7 DEF probed, video
  <1>2. BitDepthKept
    BY <1>1 DEF BitDepthKept
  <1> QED
    BY <1>2, PTL
=============================================================================

------------------------------ MODULE InputScan ------------------------------
(***************************************************************************)
(* The scan of the input directory (ScanInputFolder, PollFileScanner,      *)
(* ProbeInputFile, MatchProfile, EnqueueJob) by one or more servers, while *)
(* files are copied into the directory, stall, are overwritten and         *)
(* removed.  A scan first lists what is stable, then probes, matches and   *)
(* enqueues one candidate after the other.                                 *)
(*                                                                         *)
(* What becomes of the jobs is in JobPipeline; here a job is a count.      *)
(***************************************************************************)
EXTENDS ProfileMatching, FiniteSets

CONSTANTS
  Servers,
  Sorted,      \* the paths below the input directory, as sorted() lists them
  Input,       \* Input[f]: extension and globs of the name of f
  Media,       \* Media[f][c]: the streams ffprobe finds in f when c of it is there, or Unreadable
  Unreadable,
  Hidden,      \* the paths with a part that starts with a dot
  Stalls,      \* the files whose copy may pause for file_stability_seconds
  Config,
  MaxEdits,    \* bound: how often files are copied into the directory or removed
  MaxCrashes   \* bound: how many servers are stopped in the middle of a scan

VARIABLES
  content,     \* content[f]: how much of file f is there
  aged,        \* the files that were last written file_stability_seconds ago
  copies,      \* copies[f]: how often f has been copied
  edits,
  scan,        \* scan[s]: where the scan thread of server s is
  processed,   \* the paths that are marked in Redis
  saved,       \* saved[f]: how many jobs have been saved for f
  pushed,      \* pushed[f]: how many of them have been pushed
  crashes

files == <<content, aged, copies, edits>>
jobs  == <<processed, saved, pushed>>
vars  == <<files, scan, jobs, crashes>>

Files    == ToSet(Sorted)
Contents == {"absent", "empty", "torn", "whole"}
Points   == {"idle", "list", "stat", "probe", "check", "save", "mark", "push"}

\* "todo": paths still to be looked at; "old": those that were old enough when
\* the scan took the time; "found": the candidates still to be probed; "seen":
\* what of the candidate in hand was there when it was probed.
Scan == [at : Points, todo : SUBSET Files, old : SUBSET Files, found : SUBSET Files,
         seen : Contents \cup {None}]

Idle == [at |-> "idle", todo |-> {}, old |-> {}, found |-> {}, seen |-> None]

ASSUME ScanAssumption ==
  /\ Sorted \in Seq(Files) /\ IsFiniteSet(Servers)
  /\ Hidden \subseteq Files /\ Stalls \subseteq Files
  /\ \A i, k \in DOMAIN Sorted : Sorted[i] = Sorted[k] => i = k
  /\ MaxEdits \in Nat /\ MaxCrashes \in Nat
  /\ ConfigValid(Config) /\ Prioritised(Config.rules)
  /\ None \notin Contents \cup {Raised} /\ None \notin Nat /\ None \notin BOOLEAN
  /\ Raised \notin Config.profiles

ScanTypeOK ==
  /\ content \in [Files -> Contents]
  /\ aged \in SUBSET Files
  /\ copies \in [Files -> Nat] /\ edits \in 0..MaxEdits
  /\ scan \in [Servers -> Scan]
  /\ processed \in SUBSET Files
  /\ saved \in [Files -> Nat]
  /\ pushed \in [Files -> Nat]
  /\ crashes \in 0..MaxCrashes
  /\ \A s \in Servers :
       /\ scan[s].at \in {"list", "stat"} => scan[s].todo # {}
       /\ scan[s].at \in {"probe", "check", "save", "mark", "push"} => scan[s].found # {}
       /\ scan[s].at \in {"check", "save", "mark"} => scan[s].seen \in {"torn", "whole"}

\* The server starts on a directory that may hold files already.
Init ==
  /\ content \in [Files -> {"absent", "whole"}]
  /\ aged = {f \in Files : content[f] = "whole"}
  /\ copies = [f \in Files |-> IF content[f] = "whole" THEN 1 ELSE 0]
  /\ edits = 0
  /\ scan = [s \in Servers |-> Idle]
  /\ processed = {}
  /\ saved = [f \in Files |-> 0]
  /\ pushed = [f \in Files |-> 0]
  /\ crashes = 0

(***************************************************************************)
(* The users of the directory.  What is written after a scan has taken the *)
(* time is not old enough for that scan.                                   *)
(***************************************************************************)
Put(f, c) ==
  /\ content' = [content EXCEPT ![f] = c]
  /\ aged' = aged \ {f}
  /\ scan' = [s \in Servers |-> [scan[s] EXCEPT !.old = @ \ {f}]]
  /\ UNCHANGED <<jobs, crashes>>

\* A new file, or one over the file that is there.
StartCopy(f) ==
  /\ content[f] \in {"absent", "whole"} /\ edits < MaxEdits
  /\ edits' = edits + 1
  /\ copies' = [copies EXCEPT ![f] = @ + 1]
  /\ Put(f, "empty")

Write(f) == content[f] = "empty" /\ Put(f, "torn") /\ UNCHANGED <<copies, edits>>

EndCopy(f) == content[f] = "torn" /\ Put(f, "whole") /\ UNCHANGED <<copies, edits>>

RemoveFile(f) ==
  /\ content[f] = "whole" /\ edits < MaxEdits
  /\ edits' = edits + 1
  /\ Put(f, "absent")
  /\ UNCHANGED copies

\* Time passes.
Age(f) ==
  /\ f \notin aged /\ content[f] # "absent"
  /\ content[f] = "whole" \/ f \in Stalls
  /\ aged' = aged \cup {f}
  /\ UNCHANGED <<content, copies, edits, scan, jobs, crashes>>

(***************************************************************************)
(* scan_once: the names, then is_file and stat of each.                    *)
(***************************************************************************)
At(s, point) == scan[s].at = point

First(S) == Sorted[CHOOSE i \in DOMAIN Sorted :
                     Sorted[i] \in S /\ \A k \in DOMAIN Sorted : Sorted[k] \in S => i <= k]

Step(s, rec) == scan' = [scan EXCEPT ![s] = rec]

NextOf(found) == IF found = {} THEN Idle ELSE [Idle EXCEPT !.at = "probe", !.found = found]

\* Mutant: after the last name the scan goes on listing.
Looked_NoEnd(s, found) ==
  [scan[s] EXCEPT !.at = "list", !.todo = @ \ {First(@)}, !.found = found]

\* The first of the names has been looked at.
Looked(s, found) ==
  LET f == First(scan[s].todo)
  IN  IF scan[s].todo = {f} THEN NextOf(found)
      ELSE [scan[s] EXCEPT !.at = "list", !.todo = @ \ {f}, !.old = @ \ {f}, !.found = found]

ScanStarts(s) ==
  LET names == {f \in Files : content[f] # "absent"}
  IN  /\ At(s, "idle")
      /\ Step(s, IF names = {} THEN Idle
                 ELSE [Idle EXCEPT !.at = "list", !.old = aged, !.todo = names])
      /\ UNCHANGED <<files, jobs, crashes>>

IsFile(s) ==
  LET f == First(scan[s].todo)
  IN  /\ At(s, "list")
      /\ Step(s, IF content[f] = "absent" \/ f \in Hidden
                 THEN Looked(s, scan[s].found)
                 ELSE [scan[s] EXCEPT !.at = "stat"])
      /\ UNCHANGED <<files, jobs, crashes>>

\* Mutant: a file is stable as soon as there is something in it.
IsStable_Any(s, f) == content[f] # "empty"

IsStable(s, f) == content[f] # "empty" /\ f \in scan[s].old

Stat(s) ==
  LET f == First(scan[s].todo)
  IN  /\ At(s, "stat") /\ content[f] # "absent"
      /\ Step(s, Looked(s, scan[s].found \cup (IF IsStable(s, f) THEN {f} ELSE {})))
      /\ UNCHANGED <<files, jobs, crashes>>

\* An exception ends the scan: the loop logs it, and starts the next one.
ScanFails(s) == Step(s, Idle) /\ UNCHANGED <<files, jobs, crashes>>

\* The file is gone since is_file().
StatRaises(s) ==
  /\ At(s, "stat") /\ content[First(scan[s].todo)] = "absent"
  /\ ScanFails(s)

(***************************************************************************)
(* Each candidate: probe, match, and EnqueueJob, which asks for the mark   *)
(* only now, saves the job, sets the mark and pushes the id.               *)
(***************************************************************************)
Candidate(s) == First(scan[s].found)

\* Mutant: the scan goes on to the next scan after one candidate.
Skip_EndsScan(s) == Step(s, Idle)

Skip(s) == Step(s, NextOf(scan[s].found \ {Candidate(s)}))

\* What becomes of file f when c of it is there: the profile it gets, or None,
\* or the probe raises.
Outcome ==
  [f \in Files |-> [c \in Contents |->
     LET streams == Media[f][c]
     IN  IF c \in {"absent", "empty"} \/ streams = Unreadable
              \/ ~ProbedInputValid(MediaProbe(streams))
         THEN Raised
         ELSE MatchProfile(Config, ProbedInput(Input[f], MediaProbe(streams)))]]

ProbeRaises(s) ==
  /\ At(s, "probe") /\ Outcome[Candidate(s)][content[Candidate(s)]] = Raised
  /\ ScanFails(s)

ProbeAndMatch(s) ==
  LET f == Candidate(s)
  IN  /\ At(s, "probe") /\ Outcome[f][content[f]] # Raised
      /\ IF Outcome[f][content[f]] = None THEN Skip(s)
         ELSE Step(s, [scan[s] EXCEPT !.at = "check", !.seen = content[f]])
      /\ UNCHANGED <<files, jobs, crashes>>

IsProcessed(s) ==
  /\ At(s, "check")
  /\ IF Candidate(s) \in processed THEN Skip(s) ELSE Step(s, [scan[s] EXCEPT !.at = "save"])
  /\ UNCHANGED <<files, jobs, crashes>>

SaveJob(s) ==
  /\ At(s, "save")
  /\ saved' = [saved EXCEPT ![Candidate(s)] = @ + 1]
  /\ Step(s, [scan[s] EXCEPT !.at = "mark"])
  /\ UNCHANGED <<files, processed, pushed, crashes>>

\* Mutant: the path is not marked.
MarkProcessed_Forgets(s) ==
  /\ At(s, "mark")
  /\ Step(s, [scan[s] EXCEPT !.at = "push", !.seen = None])
  /\ UNCHANGED <<files, processed, saved, pushed, crashes>>

MarkProcessed(s) ==
  /\ At(s, "mark")
  /\ processed' = processed \cup {Candidate(s)}
  /\ Step(s, [scan[s] EXCEPT !.at = "push", !.seen = None])
  /\ UNCHANGED <<files, saved, pushed, crashes>>

Enqueue(s) ==
  /\ At(s, "push")
  /\ pushed' = [pushed EXCEPT ![Candidate(s)] = @ + 1]
  /\ Skip(s)
  /\ UNCHANGED <<files, processed, saved, crashes>>

\* The server is stopped, and the next one starts.
Crash(s) ==
  /\ ~At(s, "idle") /\ crashes < MaxCrashes
  /\ crashes' = crashes + 1
  /\ Step(s, Idle)
  /\ UNCHANGED <<files, jobs>>

-----------------------------------------------------------------------------
UserStep(f) == StartCopy(f) \/ Write(f) \/ EndCopy(f) \/ RemoveFile(f)

ServerStep(s) ==
  \/ ScanStarts(s) \/ IsFile(s) \/ Stat(s) \/ StatRaises(s)
  \/ ProbeRaises(s) \/ ProbeAndMatch(s)
  \/ IsProcessed(s) \/ SaveJob(s) \/ MarkProcessed(s) \/ Enqueue(s)

Next ==
  \/ \E f \in Files : UserStep(f) \/ Age(f)
  \/ \E s \in Servers : ServerStep(s) \/ Crash(s)

Spec == Init /\ [][Next]_vars

\* The scan thread repeats its scan, and time passes.
FairSpec ==
  /\ Spec
  /\ \A s \in Servers : WF_vars(ServerStep(s))
  /\ \A f \in Files : WF_vars(Age(f))

-----------------------------------------------------------------------------
\* A path is given to the workers once by each server at most, wherever servers
\* are stopped and however often it is overwritten; and its jobs, those included
\* that a stopped server has saved and not pushed, are one more at most for each
\* server that was stopped.
CopiesBounded ==
  \A f \in Files :
    /\ pushed[f] <= Cardinality(Servers)
    /\ saved[f] <= Cardinality(Servers) + crashes

\* Each input path is processed at most once.
ProcessedOnce == \A f \in Files : pushed[f] <= 1

\* A job is made from a probe of the whole file, unless the copy paused for
\* long enough to look finished, or the file was overwritten after its stat().
ProbedWhole ==
  \A s \in Servers :
    At(s, "mark") /\ copies[Candidate(s)] = 1 /\ Candidate(s) \notin Stalls
      => scan[s].seen = "whole"

\* Files that end a scan when it comes to them: ffprobe cannot read them, or
\* not yet and they look stable.
Blocks(f) ==
  f \notin Hidden /\ \E c \in {"torn", "whole"} :
    Outcome[f][c] = Raised /\ (c = "torn" => f \in Stalls)

Before(f) == {Sorted[i] : i \in 1..((CHOOSE k \in DOMAIN Sorted : Sorted[k] = f) - 1)}

\* Its job was marked and never pushed.
Lost(f) ==
  /\ f \in processed /\ pushed[f] = 0
  /\ ~\E s \in Servers : At(s, "push") /\ Candidate(s) = f

Matched(f) == f \notin Hidden /\ Outcome[f]["whole"] \notin {Raised, None}

Served(f) == content[f] = "whole" ~> (pushed[f] > 0 \/ content[f] # "whole" \/ Lost(f))

\* A file that a rule matches is enqueued in the end, whatever the users do to
\* other files and wherever servers stop, if no file before it blocks the scan.
StableGetsQueued == \A f \in Files : Matched(f) /\ ~(\E g \in Before(f) : Blocks(g)) => Served(f)

\* The same for every file that a rule matches.
EveryMatchGetsQueued == \A f \in Files : Matched(f) => Served(f)

=============================================================================

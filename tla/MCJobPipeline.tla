--------------------------- MODULE MCJobPipeline ---------------------------
(* The pipeline on small sets of processes, for TLC. *)
EXTENDS JobTakeover, TLC

CONSTANTS a, b, w1, w2, scan, recover

TwoWorkers == {w1, w2}
WorkerSymmetry == Permutations(TwoWorkers)

\* What TLC explores of the overlapping pipeline: two workers and no fault, or one
\* worker (the other never starts), a lapse and either a crash or an expiry.  A
\* counter that starts at its bound leaves no fault of its kind.
RaceInit ==
  /\ StoreInit
  /\ queue = <<>> /\ deadLetter = {}
  /\ heartbeat = {} /\ processed = {} /\ summary = {} /\ created = 0
  /\ pc = [c \in Threads |-> "idle"]
  /\ pass = [r \in Recoverers |-> NoPass]
  /\ forfeited = {}
  /\ \E crashes \in {0, MaxCrashes}, lapses \in {0, MaxLapses}, expiries \in {0, MaxExpiries} :
       /\ faults = [crashes |-> crashes, lapses |-> lapses, expiries |-> expiries]
       /\ \/ /\ alive = Threads
             /\ crashes = MaxCrashes /\ lapses = MaxLapses /\ expiries = MaxExpiries
          \/ /\ alive = Threads \ {w2}
             /\ lapses = 0 /\ (crashes = 0 <=> expiries = MaxExpiries)

RaceSpec == RaceInit /\ [][TakeoverNext]_takeoverVars

\* Every worker is a process; the threads of the server share one.
OneServer == {{w} : w \in Workers} \cup {Scanners \cup Recoverers}

Anywhere == Points

\* Outside save(), and with neither a popped id nor a push in hand.
BetweenSaves == {"idle", "beatClaim", "beatProcess", "transcode"}
=============================================================================

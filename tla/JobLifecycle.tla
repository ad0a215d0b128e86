---------------------------- MODULE JobLifecycle ----------------------------
(***************************************************************************)
(* What vshift promises about one job: it is created pending, one worker   *)
(* at a time claims it, transcodes it and completes it; a failure, or the  *)
(* loss of its worker, gives it back for another attempt until             *)
(* max_retries attempts are used, and then it has failed for good.         *)
(* (docs/ARCHITECTURE.md 6.2 draws this life; JobPipeline is the code that *)
(* is meant to have it.)  The promise does not cover a job that is taken   *)
(* from a worker that holds it, nor one whose record expires.              *)
(***************************************************************************)
EXTENDS Naturals, JobStateMachine

CONSTANTS Jobs, Workers, Inputs, MaxRetries, None

VARIABLES
  life,        \* life[j]: the record of job j, or None before it is created
  forfeited    \* the jobs that are not covered any more; their life is None

Move(j, from, r) ==
  /\ life[j] # None
  /\ life[j].state = from
  /\ CanTransition(from, r.state)
  /\ life' = [life EXCEPT ![j] = r]
  /\ UNCHANGED forfeited

Init == life = [j \in Jobs |-> None] /\ forfeited = {}

Create(j) ==
  /\ life[j] = None /\ j \notin forfeited
  /\ \E i \in Inputs :
       life' = [life EXCEPT
                  ![j] = [state |-> "PENDING", worker |-> None, attempt |-> 1, input |-> i]]
  /\ UNCHANGED forfeited

Claim(j) ==
  \E w \in Workers :
    Move(j, "PENDING", [life[j] EXCEPT !.state = "CLAIMED", !.worker = w])

Start(j)    == Move(j, "CLAIMED", [life[j] EXCEPT !.state = "PROCESSING"])
Complete(j) == Move(j, "PROCESSING", [life[j] EXCEPT !.state = "COMPLETED"])

Retry(j) ==
  \E held \in HeldStates :
    /\ life[j] # None /\ life[j].attempt < MaxRetries
    /\ Move(j, held, [life[j] EXCEPT !.state = "PENDING", !.worker = None, !.attempt = @ + 1])

GiveUp(j) ==
  \E held \in HeldStates :
    /\ life[j] # None /\ life[j].attempt = MaxRetries
    /\ Move(j, held, [life[j] EXCEPT !.state = "FAILED", !.worker = None])

Forfeit(j) ==
  /\ forfeited' = forfeited \cup {j}
  /\ life' = [life EXCEPT ![j] = None]

Next ==
  \E j \in Jobs :
    \/ Create(j) \/ Claim(j) \/ Start(j) \/ Complete(j) \/ Retry(j) \/ GiveUp(j)
    \/ Forfeit(j)

Spec == Init /\ [][Next]_<<life, forfeited>>
=============================================================================

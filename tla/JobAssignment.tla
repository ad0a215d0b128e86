--------------------------- MODULE JobAssignment ---------------------------
(***************************************************************************)
(* Who transcodes what.  A worker transcodes one job at a time, a job has  *)
(* one worker at a time, and a job that is completed is not transcoded     *)
(* again; a worker may leave its job at any time.  That is no longer so of *)
(* a job that is forfeited (see JobTakeover): whoever gets it may take it. *)
(* JobPipeline is the code that is meant to assign jobs so;                *)
(* TranscodeOutput takes jobs that are assigned so, and knows no more of   *)
(* the pipeline.                                                           *)
(***************************************************************************)
CONSTANTS Workers, Jobs, None

VARIABLES
  holder,   \* holder[w]: the job that worker w transcodes, or None
  done,     \* the jobs that are completed
  forfeited \* the jobs that may be assigned more than once; none of them is in done

Init == holder = [w \in Workers |-> None] /\ done = {} /\ forfeited = {}

Free(j) == j \in forfeited \/ (j \notin done /\ \A w \in Workers : holder[w] # j)

Take(w, j) ==
  /\ holder[w] = None /\ Free(j)
  /\ holder' = [holder EXCEPT ![w] = j]
  /\ UNCHANGED <<done, forfeited>>

Finish(w) ==
  /\ holder[w] # None
  /\ done' = done \cup ({holder[w]} \ forfeited)
  /\ holder' = [holder EXCEPT ![w] = None]
  /\ UNCHANGED forfeited

\* The workers of a set fail, or stop, at once.
Leave(W) ==
  /\ holder' = [w \in Workers |-> IF w \in W THEN None ELSE holder[w]]
  /\ UNCHANGED <<done, forfeited>>

Forfeit(j) ==
  /\ forfeited' = forfeited \cup {j}
  /\ done' = done \ {j}
  /\ UNCHANGED holder

Next ==
  \/ \E w \in Workers : Finish(w) \/ \E j \in Jobs : Take(w, j)
  \/ \E W \in SUBSET Workers : Leave(W)
  \/ \E j \in Jobs : Forfeit(j)

Spec == Init /\ [][Next]_<<holder, done, forfeited>>
=============================================================================

-------------------------- MODULE JobStateMachine --------------------------
(***************************************************************************)
(* The states of a transcode job and the transitions JobStateMachine       *)
(* accepts (domain/job/job_state.py, domain/job/job_state_machine.py).     *)
(***************************************************************************)

JobStates == {"PENDING", "CLAIMED", "PROCESSING", "COMPLETED", "FAILED"}

\* _VALID_TRANSITIONS: the successors of each state.
ValidTransitions ==
  [ PENDING    |-> {"CLAIMED", "FAILED"},
    CLAIMED    |-> {"PROCESSING", "PENDING", "FAILED"},
    PROCESSING |-> {"COMPLETED", "PENDING", "FAILED"},
    COMPLETED  |-> {},
    FAILED     |-> {} ]

\* JobStateMachine.transition raises a VShiftException exactly when this is false.
CanTransition(from, to) == to \in ValidTransitions[from]

TerminalStates == {"COMPLETED", "FAILED"}

\* The states RecoverStaleJobs lists: a worker is supposed to hold the job.
HeldStates == {"CLAIMED", "PROCESSING"}
=============================================================================

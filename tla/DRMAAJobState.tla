---------------------------- MODULE DRMAAJobState ----------------------------
(***************************************************************************)
(* The job states of the DRMAA2 Go binding (part_000): the Go JobState     *)
(* enumeration (iota: Unset = 0 ... Failed = 9),                          *)
(* the C-to-Go table jobStateMap read by goJobState, and Job.GetState,   *)
(* which reads the job's info from the C library and converts its state.  *)
(*                                                                         *)
(* The job itself lives in the DRM behind the C library (not part of this *)
(* repository); its state changes along the DRMAA2 life cycle of the      *)
(* spec (§4.1) and the Go doc comments of the JobState constants.         *)
(***************************************************************************)
EXTENDS Integers, Sequences

CONSTANT MaxPolls   \* the number of GetState calls of one client

\* type JobState int, const ( Unset JobState = iota ... ).
Unset        == 0
Undetermined == 1
Queued       == 2
QueuedHeld   == 3
Running      == 4
Suspended    == 5
Requeued     == 6
RequeuedHeld == 7
Done         == 8
Failed       == 9

GoStates == Unset..Failed

\* var jobStateMap: eight of the nine C states; DRMAA2_REQUEUED is absent.
jobStateMap ==
    [c \in {"DRMAA2_UNDETERMINED", "DRMAA2_QUEUED", "DRMAA2_QUEUED_HELD",
            "DRMAA2_RUNNING", "DRMAA2_SUSPENDED", "DRMAA2_REQUEUED_HELD",
            "DRMAA2_DONE", "DRMAA2_FAILED"} |->
        CASE c = "DRMAA2_UNDETERMINED"  -> Undetermined
          [] c = "DRMAA2_QUEUED"        -> Queued
          [] c = "DRMAA2_QUEUED_HELD"   -> QueuedHeld
          [] c = "DRMAA2_RUNNING"       -> Running
          [] c = "DRMAA2_SUSPENDED"     -> Suspended
          [] c = "DRMAA2_REQUEUED_HELD" -> RequeuedHeld
          [] c = "DRMAA2_DONE"          -> Done
          [] c = "DRMAA2_FAILED"        -> Failed]

\* goJobState: a Go map read; a missing key yields the zero value Unset.
goJobState(state) ==
    IF state \in DOMAIN jobStateMap THEN jobStateMap[state] ELSE Unset

(***************************************************************************)
(* One job in the DRM, and a Go client polling it with Job.GetState.      *)
(***************************************************************************)
VARIABLES
    cstate, \* the job's state in the DRM (drmaa2_jinfo.jobState)
    seen    \* the results of the client's GetState calls, in order

vars == <<cstate, seen>>

\* The DRMAA2 life cycle (spec_modelled): hold and release before and
\* after a requeue, suspend and resume, requeue of a running job,
\* termination from any non-terminal state, and the end of the job.
DrmSucc(c) ==
    CASE c = "DRMAA2_QUEUED"        -> {"DRMAA2_QUEUED_HELD", "DRMAA2_RUNNING", "DRMAA2_FAILED"}
      [] c = "DRMAA2_QUEUED_HELD"   -> {"DRMAA2_QUEUED", "DRMAA2_FAILED"}
      [] c = "DRMAA2_RUNNING"       -> {"DRMAA2_SUSPENDED", "DRMAA2_REQUEUED",
                                        "DRMAA2_DONE", "DRMAA2_FAILED"}
      [] c = "DRMAA2_SUSPENDED"     -> {"DRMAA2_RUNNING", "DRMAA2_FAILED"}
      [] c = "DRMAA2_REQUEUED"      -> {"DRMAA2_REQUEUED_HELD", "DRMAA2_RUNNING", "DRMAA2_FAILED"}
      [] c = "DRMAA2_REQUEUED_HELD" -> {"DRMAA2_REQUEUED", "DRMAA2_FAILED"}
      [] OTHER                      -> {}

Init ==
    /\ cstate \in {"DRMAA2_QUEUED", "DRMAA2_QUEUED_HELD"}
    /\ seen = <<>>

\* The DRM moves the job on.
DrmTransition ==
    /\ \E c \in DrmSucc(cstate) : cstate' = c
    /\ UNCHANGED seen

\* Job.GetState: GetJobInfo converts the job and asks the C library for
\* its info (goJobInfo sets State = goJobState(ji.jobState)); when either
\* fails, GetState answers Undetermined.
GetState ==
    /\ Len(seen) < MaxPolls
    /\ \E ok \in BOOLEAN :
         seen' = Append(seen, IF ok THEN goJobState(cstate) ELSE Undetermined)
    /\ UNCHANGED cstate

Next == DrmTransition \/ GetState

\* A job in a terminal state with every poll made is the end of the run.
Spec == Init /\ [][Next]_vars

-----------------------------------------------------------------------------
(* Properties.                                                             *)

\* The spec: Unset is only a filter value, never a real job's state, so
\* GetState never answers Unset.
GetStateNeverUnset ==
    \A i \in 1..Len(seen) : seen[i] # Unset
==============================================================================

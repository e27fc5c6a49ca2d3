------------------------- MODULE DRMAAJobStateProofs -------------------------
(***************************************************************************)
(* Proofs about Job.GetState (DRMAAJobState.tla), for every number of      *)
(* polls.  goJobState reads jobStateMap, which has eight of the nine C     *)
(* states: it tells the eight apart, and reads the ninth, DRMAA2_REQUEUED, *)
(* as the map's zero value Unset.  So a poll answers Unset exactly when   *)
(* the job is requeued, and the Go state Requeued is never answered.      *)
(***************************************************************************)
EXTENDS DRMAAJobState, TLAPS

\* The C states of the DRMAA2 life cycle.
CStates == DOMAIN jobStateMap \cup {"DRMAA2_REQUEUED"}

\* What a GetState call can answer: a converted state, or Undetermined
\* when GetJobInfo fails.
Answers == {goJobState(c) : c \in CStates} \cup {Undetermined}

\* What drmaa2_jinfo.jobState can hold: a life-cycle state, or the C
\* library's unset enum value (the TODO above jobStateMap).
CJobStates == CStates \cup {"DRMAA2_UNSET_ENUM"}

PollInv == cstate \in CStates /\ seen \in Seq(Answers)

-----------------------------------------------------------------------------
\* The domain of jobStateMap, and its value on each key.
LEMMA MapTable ==
    /\ DOMAIN jobStateMap =
         {"DRMAA2_UNDETERMINED", "DRMAA2_QUEUED", "DRMAA2_QUEUED_HELD",
          "DRMAA2_RUNNING", "DRMAA2_SUSPENDED", "DRMAA2_REQUEUED_HELD",
          "DRMAA2_DONE", "DRMAA2_FAILED"}
    /\ jobStateMap["DRMAA2_UNDETERMINED"] = Undetermined
    /\ jobStateMap["DRMAA2_QUEUED"] = Queued
    /\ jobStateMap["DRMAA2_QUEUED_HELD"] = QueuedHeld
    /\ jobStateMap["DRMAA2_RUNNING"] = Running
    /\ jobStateMap["DRMAA2_SUSPENDED"] = Suspended
    /\ jobStateMap["DRMAA2_REQUEUED_HELD"] = RequeuedHeld
    /\ jobStateMap["DRMAA2_DONE"] = Done
    /\ jobStateMap["DRMAA2_FAILED"] = Failed
<1>. USE DEF Undetermined, Queued, QueuedHeld, Running, Suspended,
            RequeuedHeld, Done, Failed
<1>1. DOMAIN jobStateMap =
         {"DRMAA2_UNDETERMINED", "DRMAA2_QUEUED", "DRMAA2_QUEUED_HELD",
          "DRMAA2_RUNNING", "DRMAA2_SUSPENDED", "DRMAA2_REQUEUED_HELD",
          "DRMAA2_DONE", "DRMAA2_FAILED"}
    BY DEF jobStateMap
<1>2. jobStateMap["DRMAA2_UNDETERMINED"] = Undetermined
    BY DEF jobStateMap
<1>3. jobStateMap["DRMAA2_QUEUED"] = Queued
    BY DEF jobStateMap
<1>4. jobStateMap["DRMAA2_QUEUED_HELD"] = QueuedHeld
    BY DEF jobStateMap
<1>5. jobStateMap["DRMAA2_RUNNING"] = Running
    BY DEF jobStateMap
<1>6. jobStateMap["DRMAA2_SUSPENDED"] = Suspended
    BY DEF jobStateMap
<1>7. jobStateMap["DRMAA2_REQUEUED_HELD"] = RequeuedHeld
    BY DEF jobStateMap
<1>8. jobStateMap["DRMAA2_DONE"] = Done
    BY DEF jobStateMap
<1>9. jobStateMap["DRMAA2_FAILED"] = Failed
    BY DEF jobStateMap
<1>. QED  BY <1>1, <1>2, <1>3, <1>4, <1>5, <1>6, <1>7, <1>8, <1>9

\* For every C job state, goJobState answers Unset exactly for
\* DRMAA2_REQUEUED and for the unset enum value (which the TODO says should
\* read as Undetermined), never the Go state Requeued, and distinct Go
\* states for the eight states jobStateMap has.
THEOREM ConversionLosesRequeued ==
    /\ \A c \in CJobStates :
          goJobState(c) = Unset <=> c \in {"DRMAA2_REQUEUED", "DRMAA2_UNSET_ENUM"}
    /\ \A c \in CJobStates : goJobState(c) # Requeued
    /\ \A c, d \in DOMAIN jobStateMap : goJobState(c) = goJobState(d) => c = d
<1>1. "DRMAA2_REQUEUED" \notin DOMAIN jobStateMap
    BY MapTable
<1>2. \A c \in DOMAIN jobStateMap : goJobState(c) = jobStateMap[c]
    BY DEF goJobState
<1>2a. "DRMAA2_UNSET_ENUM" \notin DOMAIN jobStateMap
    BY MapTable
<1>3. goJobState("DRMAA2_REQUEUED") = Unset /\ goJobState("DRMAA2_UNSET_ENUM") = Unset
    BY <1>1, <1>2a DEF goJobState
<1>4. \A c \in DOMAIN jobStateMap : jobStateMap[c] \notin {Unset, Requeued}
    BY MapTable DEF Unset, Requeued, Undetermined, Queued, QueuedHeld, Running,
                    Suspended, RequeuedHeld, Done, Failed
<1>5. \A c, d \in DOMAIN jobStateMap : jobStateMap[c] = jobStateMap[d] => c = d
    BY MapTable DEF Undetermined, Queued, QueuedHeld, Running,
                    Suspended, RequeuedHeld, Done, Failed
<1>. QED  BY <1>2, <1>3, <1>4, <1>5 DEF CJobStates, CStates, Unset, Requeued

\* The life-cycle states are C job states, and the unset value is none of
\* them.
LEMMA LifeCycleStates ==
    CStates \subseteq CJobStates /\ "DRMAA2_UNSET_ENUM" \notin CStates
BY MapTable DEF CStates, CJobStates

-----------------------------------------------------------------------------
\* The DRM moves a job only between states of the life cycle.
LEMMA SuccInCStates ==
    ASSUME NEW c \in CStates
    PROVE  DrmSucc(c) \subseteq CStates
BY MapTable DEF DrmSucc, CStates

LEMMA InitPollInv == Init => PollInv
BY MapTable DEF Init, PollInv, CStates

LEMMA NextPollInv == PollInv /\ [Next]_vars => PollInv'
<1>. SUFFICES ASSUME PollInv, [Next]_vars PROVE PollInv'
    OBVIOUS
<1>1. CASE DrmTransition
    BY <1>1, SuccInCStates DEF DrmTransition, PollInv
<1>2. CASE GetState
    <2>1. goJobState(cstate) \in Answers /\ Undetermined \in Answers
        BY DEF PollInv, Answers
    <2>. QED  BY <1>2, <2>1 DEF GetState, PollInv
<1>3. CASE UNCHANGED vars
    BY <1>3 DEF vars, PollInv
<1>. QED  BY <1>1, <1>2, <1>3 DEF Next

\* For every number of polls: Job.GetState never reports a job as
\* Requeued, although the DRM requeues running jobs (the Go state Requeued
\* is unreachable through goJobState).
THEOREM GetStateNeverRequeued ==
    Spec => [](\A i \in 1..Len(seen) : seen[i] # Requeued)
<1>1. PollInv => \A i \in 1..Len(seen) : seen[i] # Requeued
    <2>. SUFFICES ASSUME PollInv, NEW i \in 1..Len(seen)
                  PROVE  seen[i] # Requeued
        OBVIOUS
    <2>1. seen[i] \in Answers
        BY DEF PollInv
    <2>. QED  BY <2>1, ConversionLosesRequeued, LifeCycleStates
              DEF Answers, Undetermined, Requeued
<1>. QED  BY <1>1, InitPollInv, NextPollInv, PTL DEF Spec

\* For every number of polls: a GetState call answers Unset only when the
\* job is in DRMAA2_REQUEUED and the C library answered (the cause of the
\* drmaa_state_unset finding, in every configuration).
THEOREM UnsetOnlyWhenRequeued ==
    Spec => [][Len(seen') > Len(seen) /\ seen'[Len(seen')] = Unset =>
                 cstate = "DRMAA2_REQUEUED"]_vars
<1>1. PollInv /\ [Next]_vars =>
        [Len(seen') > Len(seen) /\ seen'[Len(seen')] = Unset =>
           cstate = "DRMAA2_REQUEUED"]_vars
    <2>. SUFFICES ASSUME PollInv, [Next]_vars,
                         Len(seen') > Len(seen), seen'[Len(seen')] = Unset
                  PROVE  cstate = "DRMAA2_REQUEUED"
        OBVIOUS
    <2>1. GetState
        BY DEF Next, DrmTransition, vars
    <2>2. PICK ok \in BOOLEAN :
            seen' = Append(seen, IF ok THEN goJobState(cstate) ELSE Undetermined)
        BY <2>1 DEF GetState
    <2>3. seen'[Len(seen')] = IF ok THEN goJobState(cstate) ELSE Undetermined
        BY <2>2 DEF PollInv
    <2>4. ok /\ goJobState(cstate) = Unset
        BY <2>3 DEF Undetermined, Unset
    <2>. QED  BY <2>4, ConversionLosesRequeued, LifeCycleStates DEF PollInv
<1>. QED  BY <1>1, InitPollInv, NextPollInv, PTL DEF Spec
==============================================================================

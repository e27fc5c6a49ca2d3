---------------------------- MODULE TrackerProofs ----------------------------
(***************************************************************************)
(* Proofs about concurrent StartProcess calls (SimpleTracker.tla), for    *)
(* every set of callers, variable names and values.                       *)
(*                                                                         *)
(* restoreEnv cannot restore anything: the names it unsets and sets are   *)
(* os.Environ() entries "K=V", never variable names.  So a value some     *)
(* template set stays in the environment, and a child started after its   *)
(* own Setenv loop finds every variable of its JobEnvironment set by      *)
(* itself or by another job.  TInv states what the environment can hold.  *)
(***************************************************************************)
EXTENDS SimpleTracker, TLAPS

\* The names of the Environ() entries "K=V".
Entries == Keys \X (Vals \cup {Absent})

\* Every value in the environment was set by some template.
FromTemplates(e) ==
    \A k \in Keys : e[k] # Absent =>
        \E q \in Callers : k \in DOMAIN tmpl[q].env /\ e[k] = tmpl[q].env[k]

TInv ==
    /\ TypeOK
    /\ pending \in [Callers -> SUBSET Keys]
    /\ DOMAIN snap = Callers
    /\ \A p \in Callers : DOMAIN snap[p] \subseteq Entries
    /\ FromTemplates(env)
    \* the variables a call has already set stay set
    /\ \A p \in Callers : pc[p] = "setenv" =>
          \A k \in DOMAIN tmpl[p].env \ pending[p] : env[k] # Absent
    \* a started child got every variable of its JobEnvironment
    /\ \A p \in Callers : Started(p) =>
          /\ FromTemplates(childEnv[p])
          /\ \A k \in DOMAIN tmpl[p].env : childEnv[p][k] # Absent

-----------------------------------------------------------------------------
\* A JobEnvironment maps variable names to values.
LEMMA OverlayType ==
    ASSUME NEW t \in Templates
    PROVE  /\ DOMAIN t.env \subseteq Keys
           /\ \A k \in DOMAIN t.env : t.env[k] \in Vals
BY DEF Templates, Overlays

\* The map currentEnv() returns is keyed by Environ() entries.
LEMMA CurrentEnvDomain ==
    ASSUME NEW e \in EnvState
    PROVE  DOMAIN CurrentEnv(e) \subseteq Entries
BY DEF CurrentEnv, Environ, Entries, EnvState

\* restoreEnv(snap) leaves the environment as it is, whatever snap holds:
\* neither os.Unsetenv(entry) nor os.Setenv(entry, ...) names a variable.
THEOREM RestoreIsIdentity ==
    ASSUME NEW e \in EnvState, NEW s, DOMAIN s \subseteq Entries
    PROVE  RestoreEnv(e, s) = e
<1>1. \A k \in Keys : ~\E en \in Environ(e) : en = k
    BY TrackerAssumption DEF Environ, EnvState
<1>2. \A k \in Keys : ~\E name \in DOMAIN s : name = k
    BY TrackerAssumption DEF Entries
<1>. QED  BY <1>1, <1>2 DEF RestoreEnv, EnvState

-----------------------------------------------------------------------------
LEMMA InitTInv == Init => TInv
<1>. SUFFICES ASSUME Init PROVE TInv
    OBVIOUS
<1>1. BaseEnv \in EnvState
    BY DEF BaseEnv, EnvState
<1>2. DOMAIN CurrentEnv(BaseEnv) \subseteq Entries
    BY <1>1, CurrentEnvDomain
<1>3. \A p \in Callers : ~Started(p)
    BY DEF Init, Started
<1>4. \A p \in Callers : DOMAIN tmpl[p].env \subseteq Keys
    BY OverlayType DEF Init
<1>. QED  BY <1>1, <1>2, <1>3, <1>4, TrackerAssumption
          DEF Init, TInv, TypeOK, FromTemplates, BaseEnv

\* validateJobTemplate: only the caller's progress and result change.
LEMMA ValidateTInv ==
    ASSUME TInv, NEW p \in Callers, Validate(p)
    PROVE  TInv'
<1>1. pc'[p] # "setenv" /\ \A q \in Callers \ {p} : pc'[q] = pc[q]
    BY DEF Validate, TInv, TypeOK
<1>2. TypeOK'
    BY DEF Validate, TInv, TypeOK
<1>. QED  BY <1>1, <1>2 DEF Validate, TInv, FromTemplates, Started

\* mtx.Lock(); env := currentEnv(): the loop starts with every key pending.
LEMMA LockSnapshotTInv ==
    ASSUME TInv, NEW p \in Callers, LockSnapshot(p)
    PROVE  TInv'
<1>1. DOMAIN tmpl[p].env \subseteq Keys
    BY OverlayType DEF TInv, TypeOK
<1>2. DOMAIN CurrentEnv(env) \subseteq Entries
    BY CurrentEnvDomain DEF TInv, TypeOK
<1>3. \A q \in Callers \ {p} : pc'[q] = pc[q] /\ pending'[q] = pending[q]
    BY DEF LockSnapshot, TInv, TypeOK
<1>4. DOMAIN tmpl'[p].env \ pending'[p] = {}
    BY DEF LockSnapshot, TInv, TypeOK
<1>5. TypeOK' /\ pending' \in [Callers -> SUBSET Keys]
    BY <1>1 DEF LockSnapshot, TInv, TypeOK
<1>6. DOMAIN snap' = Callers /\ \A q \in Callers : DOMAIN snap'[q] \subseteq Entries
    BY <1>2 DEF LockSnapshot, TInv
<1>. QED  BY <1>3, <1>4, <1>5, <1>6 DEF LockSnapshot, TInv, FromTemplates, Started

\* One os.Setenv of the caller's JobEnvironment: the value comes from its
\* template, and a set variable stays set.
LEMMA SetenvOneTInv ==
    ASSUME TInv, NEW p \in Callers, SetenvOne(p)
    PROVE  TInv'
<1>1. PICK k \in pending[p] :
        /\ env' = Setenv(env, k, tmpl[p].env[k])
        /\ pending' = [pending EXCEPT ![p] = @ \ {k}]
    BY DEF SetenvOne
<1>2. k \in Keys /\ k \in DOMAIN tmpl[p].env /\ tmpl[p].env[k] \in Vals
    BY OverlayType DEF TInv, TypeOK
<1>3. env' = [env EXCEPT ![k] = tmpl[p].env[k]]
    BY <1>1, <1>2 DEF Setenv
<1>4. UNCHANGED <<tmpl, pc, mtx, snap, childEnv, result>>
    BY DEF SetenvOne
<1>5. \A j \in Keys : env[j] # Absent => env'[j] # Absent
    BY <1>2, <1>3, TrackerAssumption DEF TInv, TypeOK, EnvState
<1>6. FromTemplates(env')
    BY <1>2, <1>3, <1>4 DEF TInv, TypeOK, EnvState, FromTemplates
<1>7. TypeOK' /\ pending' \in [Callers -> SUBSET Keys]
    BY <1>1, <1>2, <1>3, <1>4 DEF TInv, TypeOK, EnvState
<1>8. \A q \in Callers : pc'[q] = "setenv" =>
          \A j \in DOMAIN tmpl'[q].env \ pending'[q] : env'[j] # Absent
    BY <1>1, <1>2, <1>3, <1>4, <1>5, TrackerAssumption
    DEF TInv, TypeOK, EnvState
<1>. QED  BY <1>4, <1>6, <1>7, <1>8 DEF TInv, FromTemplates, Started

\* cmd.Start(): on success the child inherits the whole environment.
LEMMA CmdStartTInv ==
    ASSUME TInv, NEW p \in Callers, CmdStart(p)
    PROVE  TInv'
<1>1. UNCHANGED <<tmpl, env, snap, pending>>
    BY DEF CmdStart
<1>2. \A q \in Callers \ {p} : pc'[q] = pc[q] /\ childEnv'[q] = childEnv[q]
    BY DEF CmdStart, TInv, TypeOK
<1>3. pc'[p] # "setenv"
    BY DEF CmdStart, TInv, TypeOK
<1>4. CASE /\ pc' = [pc EXCEPT ![p] = "returned"]
          /\ mtx' = [mtx EXCEPT ![p] = FALSE]
          /\ result' = [result EXCEPT ![p] = "err"]
          /\ UNCHANGED childEnv
    <2>1. TypeOK'
        BY <1>1, <1>4 DEF TInv, TypeOK
    <2>. QED  BY <1>1, <1>2, <1>3, <1>4, <2>1 DEF TInv, FromTemplates, Started
<1>5. CASE /\ pc' = [pc EXCEPT ![p] = "restore"]
          /\ childEnv' = [childEnv EXCEPT ![p] = env]
          /\ UNCHANGED <<mtx, result>>
    <2>1. \A k \in DOMAIN tmpl[p].env : env[k] # Absent
        BY DEF CmdStart, TInv
    <2>2. childEnv'[p] = env
        BY <1>5 DEF TInv, TypeOK
    <2>3. TypeOK'
        BY <1>1, <1>5 DEF TInv, TypeOK
    <2>. QED  BY <1>1, <1>2, <1>3, <2>1, <2>2, <2>3
              DEF TInv, FromTemplates, Started
<1>. QED  BY <1>4, <1>5 DEF CmdStart

\* restoreEnv(env); mtx.Unlock(): the environment stays as it is.
LEMMA RestoreUnlockTInv ==
    ASSUME TInv, NEW p \in Callers, RestoreUnlock(p)
    PROVE  TInv'
<1>1. env' = env
    BY RestoreIsIdentity DEF RestoreUnlock, TInv, TypeOK
<1>2. pc'[p] # "setenv" /\ \A q \in Callers \ {p} : pc'[q] = pc[q]
    BY DEF RestoreUnlock, TInv, TypeOK
<1>3. TypeOK'
    BY <1>1 DEF RestoreUnlock, TInv, TypeOK
<1>. QED  BY <1>1, <1>2, <1>3 DEF RestoreUnlock, TInv, FromTemplates, Started

LEMMA NextTInv == TInv /\ [Next]_vars => TInv'
<1>. SUFFICES ASSUME TInv, [Next]_vars PROVE TInv'
    OBVIOUS
<1>1. ASSUME NEW p \in Callers, StartProcess(p) PROVE TInv'
    BY <1>1, ValidateTInv, LockSnapshotTInv, SetenvOneTInv, CmdStartTInv,
       RestoreUnlockTInv DEF StartProcess
<1>2. CASE Finished \/ UNCHANGED vars
    BY <1>2 DEF Finished, vars, TInv, TypeOK, FromTemplates, Started
<1>. QED  BY <1>1, <1>2 DEF Next

\* For all callers, names and values: every value in the environment was
\* set by some StartProcess's os.Setenv (restoreEnv never removes one), a
\* call's already-set variables stay set during its Setenv loop, and every
\* started child inherited all of its JobEnvironment.
THEOREM TInvInvariant == Spec => []TInv
BY InitTInv, NextTInv, PTL DEF Spec

\* For all callers, names and values: every StartProcess state is well
\* typed (each call's pending keys are its own template's).
THEOREM TrackerTypeCorrect == Spec => []TypeOK
<1>1. TInv => TypeOK
    BY DEF TInv
<1>. QED  BY <1>1, InitTInv, NextTInv, PTL DEF Spec

\* For all callers, names and values: the overlay is complete before
\* cmd.Start(): every variable of a started job's JobEnvironment reached
\* its child, with its own value or the value a concurrent StartProcess
\* set for the same variable.
THEOREM OverlayAppliedHolds == Spec => []OverlayApplied
<1>1. TInv => OverlayApplied
    <2>. SUFFICES ASSUME TInv, NEW p \in Callers, Started(p),
                         NEW k \in DOMAIN tmpl[p].env
                  PROVE  \/ childEnv[p][k] = tmpl[p].env[k]
                         \/ \E q \in Callers \ {p} :
                               k \in DOMAIN tmpl[q].env
                               /\ childEnv[p][k] = tmpl[q].env[k]
        BY DEF OverlayApplied
    <2>1. k \in Keys
        BY OverlayType DEF TInv, TypeOK
    <2>2. \E q \in Callers : k \in DOMAIN tmpl[q].env
                             /\ childEnv[p][k] = tmpl[q].env[k]
        BY <2>1 DEF TInv, FromTemplates
    <2>. QED  BY <2>2
<1>. QED  BY <1>1, InitTInv, NextTInv, PTL DEF Spec
==============================================================================

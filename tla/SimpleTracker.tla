---------------------------- MODULE SimpleTracker ----------------------------
(***************************************************************************)
(* StartProcess of the process job tracker (simpletracker/os.go), called  *)
(* concurrently by the proxy's request handlers.  Each call validates the *)
(* template, locks the mutex it declares, snapshots the environment with  *)
(* currentEnv, sets the template's JobEnvironment with os.Setenv one key   *)
(* at a time (in Go's random map order), starts the child (which inherits  *)
(* the process environment of that instant), starts TrackProcess, calls    *)
(* restoreEnv(snapshot) and unlocks.                                       *)
(*                                                                         *)
(* Data: the environment is a function from the variable names the         *)
(* templates use (Keys) to a value or Absent.  An os.Environ() entry       *)
(* "K=V" is the pair <<K, V>>; a name containing '=' (any pair) is not a   *)
(* variable name, so os.Unsetenv of it changes nothing and os.Setenv of it *)
(* fails with EINVAL, also changing nothing.  Output/input redirection     *)
(* and argument handling are left out.                                     *)
(***************************************************************************)
EXTENDS Integers, FiniteSets

CONSTANTS
    Callers,    \* concurrent StartProcess calls
    Keys,       \* environment variable names used by job templates
    Vals,       \* their values
    Absent,     \* "not set"
    NoChild     \* no process started (yet)

ASSUME TrackerAssumption ==
    /\ Keys # {}
    /\ Absent \notin Vals
    /\ NoChild \notin [Keys -> Vals \cup {Absent}]
    \* a variable name contains no '=', so it is never an Environ() entry
    /\ \A k \in Keys : k \notin Keys \X (Vals \cup {Absent})

EnvState == [Keys -> Vals \cup {Absent}]

\* A JobEnvironment map.
Overlays == UNION {[D -> Vals] : D \in SUBSET Keys}

\* The parts of a JobTemplate StartProcess looks at: whether
\* validateJobTemplate accepts it, and its JobEnvironment.
Templates == [valid : BOOLEAN, env : Overlays]

\* The proxy's own environment sets none of the templates' variables.
BaseEnv == [k \in Keys |-> Absent]

\* os.Environ(): one "K=V" entry per set variable.
Environ(e) == {<<k, e[k]>> : k \in {k \in Keys : e[k] # Absent}}

\* os.Getenv(name): "" (here Absent) unless name is a set variable.
Getenv(e, name) == IF name \in Keys THEN e[name] ELSE Absent

\* os.Unsetenv / os.Setenv: no effect on a name that is not a variable name.
Unsetenv(e, name) == IF name \in Keys THEN [e EXCEPT ![name] = Absent] ELSE e
Setenv(e, name, v) == IF name \in Keys THEN [e EXCEPT ![name] = v] ELSE e

\* currentEnv(): env[entry] = os.Getenv(entry) for every entry of Environ.
CurrentEnv(e) == [en \in Environ(e) |-> Getenv(e, en)]

\* restoreEnv(snap): Unsetenv every entry of os.Environ(), then Setenv
\* every key of snap.  Keys and entries of both loops are "K=V" strings,
\* so each call hits its no-op branch; the loops are taken as one step.
RestoreEnv(e, snap) ==
    LET unset == [k \in Keys |->
                    IF \E en \in Environ(e) : en = k THEN Absent ELSE e[k]]
    IN  [k \in Keys |->
            IF \E name \in DOMAIN snap : name = k THEN snap[k] ELSE unset[k]]

VARIABLES
    tmpl,       \* per call: its template
    pc,         \* per call: its progress through StartProcess
    env,        \* the process environment
    mtx,        \* per call: the state of the sync.Mutex it declares
    snap,       \* per call: the map currentEnv returned
    pending,    \* per call: JobEnvironment keys not yet set
    childEnv,   \* per call: the environment its child started with
    result      \* per call: "none", "pid" or "err"

vars == <<tmpl, pc, env, mtx, snap, pending, childEnv, result>>

Init ==
    /\ tmpl \in [Callers -> Templates]
    /\ pc = [p \in Callers |-> "validate"]
    /\ env = BaseEnv
    /\ mtx = [p \in Callers |-> FALSE]
    /\ snap = [p \in Callers |-> CurrentEnv(BaseEnv)]
    /\ pending = [p \in Callers |-> {}]
    /\ childEnv = [p \in Callers |-> NoChild]
    /\ result = [p \in Callers |-> "none"]

\* validateJobTemplate: an invalid template returns its error at once.
Validate(p) ==
    /\ pc[p] = "validate"
    /\ IF tmpl[p].valid
       THEN pc' = [pc EXCEPT ![p] = "lock"] /\ UNCHANGED result
       ELSE /\ pc' = [pc EXCEPT ![p] = "returned"]
            /\ result' = [result EXCEPT ![p] = "err"]
    /\ UNCHANGED <<tmpl, env, mtx, snap, pending, childEnv>>

\* Mutant: the loop runs over every variable name, not t.JobEnvironment.
LockSnapshotAllKeys(p) ==
    /\ pc[p] = "lock"
    /\ ~mtx[p]
    /\ mtx' = [mtx EXCEPT ![p] = TRUE]
    /\ snap' = [snap EXCEPT ![p] = CurrentEnv(env)]
    /\ pending' = [pending EXCEPT ![p] = Keys]
    /\ pc' = [pc EXCEPT ![p] = "setenv"]
    /\ UNCHANGED <<tmpl, env, childEnv, result>>

\* var mtx sync.Mutex; mtx.Lock(); env := currentEnv().  The mutex is a
\* local of this call: only this call can hold it.
LockSnapshot(p) ==
    /\ pc[p] = "lock"
    /\ ~mtx[p]
    /\ mtx' = [mtx EXCEPT ![p] = TRUE]
    /\ snap' = [snap EXCEPT ![p] = CurrentEnv(env)]
    /\ pending' = [pending EXCEPT ![p] = DOMAIN tmpl[p].env]
    /\ pc' = [pc EXCEPT ![p] = "setenv"]
    /\ UNCHANGED <<tmpl, env, childEnv, result>>

\* One os.Setenv(key, value) of the JobEnvironment loop.
SetenvOne(p) ==
    /\ pc[p] = "setenv"
    /\ \E k \in pending[p] :
          /\ env' = Setenv(env, k, tmpl[p].env[k])
          /\ pending' = [pending EXCEPT ![p] = @ \ {k}]
    /\ UNCHANGED <<tmpl, pc, mtx, snap, childEnv, result>>

\* Mutant: cmd.Start() does not wait for the Setenv loop to finish.
CmdStartEarly(p) ==
    /\ pc[p] = "setenv"
    /\ \/ /\ pc' = [pc EXCEPT ![p] = "returned"]
          /\ mtx' = [mtx EXCEPT ![p] = FALSE]
          /\ result' = [result EXCEPT ![p] = "err"]
          /\ UNCHANGED childEnv
       \/ /\ pc' = [pc EXCEPT ![p] = "restore"]
          /\ childEnv' = [childEnv EXCEPT ![p] = env]
          /\ UNCHANGED <<mtx, result>>
    /\ UNCHANGED <<tmpl, env, snap, pending>>

\* cmd.Start() after the loop: on error unlock and return it (the
\* environment is not restored); on success the child inherits env and
\* TrackProcess is started.
CmdStart(p) ==
    /\ pc[p] = "setenv"
    /\ pending[p] = {}
    /\ \/ /\ pc' = [pc EXCEPT ![p] = "returned"]
          /\ mtx' = [mtx EXCEPT ![p] = FALSE]
          /\ result' = [result EXCEPT ![p] = "err"]
          /\ UNCHANGED childEnv
       \/ /\ pc' = [pc EXCEPT ![p] = "restore"]
          /\ childEnv' = [childEnv EXCEPT ![p] = env]
          /\ UNCHANGED <<mtx, result>>
    /\ UNCHANGED <<tmpl, env, snap, pending>>

\* restoreEnv(env); mtx.Unlock(); return cmd.Process.Pid.
RestoreUnlock(p) ==
    /\ pc[p] = "restore"
    /\ env' = RestoreEnv(env, snap[p])
    /\ mtx' = [mtx EXCEPT ![p] = FALSE]
    /\ pc' = [pc EXCEPT ![p] = "returned"]
    /\ result' = [result EXCEPT ![p] = "pid"]
    /\ UNCHANGED <<tmpl, snap, pending, childEnv>>

AllReturned == \A p \in Callers : pc[p] = "returned"

Finished == AllReturned /\ UNCHANGED vars

StartProcess(p) ==
    Validate(p) \/ LockSnapshot(p) \/ SetenvOne(p) \/ CmdStart(p)
      \/ RestoreUnlock(p)

Next == (\E p \in Callers : StartProcess(p)) \/ Finished

Spec == Init /\ [][Next]_vars

-----------------------------------------------------------------------------
TypeOK ==
    /\ tmpl \in [Callers -> Templates]
    /\ pc \in [Callers -> {"validate", "lock", "setenv", "restore", "returned"}]
    /\ env \in EnvState
    /\ mtx \in [Callers -> BOOLEAN]
    /\ \A p \in Callers : pending[p] \subseteq DOMAIN tmpl[p].env
    /\ childEnv \in [Callers -> EnvState \cup {NoChild}]
    /\ result \in [Callers -> {"none", "pid", "err"}]

Started(p) == childEnv[p] # NoChild

\* The environment a child of template t should start with (spec 4.1):
\* the JobEnvironment on top of the proxy's environment.
Expected(t) == [k \in Keys |-> IF k \in DOMAIN t.env THEN t.env[k] ELSE BaseEnv[k]]

\* Every variable of a started job's JobEnvironment reaches its child, with
\* the job's own value unless a concurrent StartProcess set the same
\* variable in between: the overlay is complete before cmd.Start().
OverlayApplied ==
    \A p \in Callers : Started(p) =>
        \A k \in DOMAIN tmpl[p].env :
            \/ childEnv[p][k] = tmpl[p].env[k]
            \/ \E q \in Callers \ {p} :
                  k \in DOMAIN tmpl[q].env /\ childEnv[p][k] = tmpl[q].env[k]

\* Spec 4.1 and 9: a child's environment is exactly the proxy's environment
\* with its own template's JobEnvironment applied, nothing of other jobs.
ChildEnvIsolated ==
    \A p \in Callers : Started(p) => childEnv[p] = Expected(tmpl[p])
==============================================================================

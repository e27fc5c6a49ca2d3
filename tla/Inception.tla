------------------------------ MODULE Inception ------------------------------
(***************************************************************************)
(* One call of Inception.GetJobInfosByFilter (cmd/uc, inception mode):     *)
(* jip.Add(len(config.Cluster)); for every configured cluster either skip  *)
(* it (its address plus "/" equals the inception's own address) with       *)
(* jip.Done(), or start a requestJobInfos goroutine; then jip.Wait() and   *)
(* return jip.jobinfos.  Each goroutine asks its peer for its job infos    *)
(* and, when it got a non-nil slice, appends it under jip's mutex; it      *)
(* always ends with jip.Done().                                            *)
(*                                                                         *)
(* Data: a peer's slice of job infos is the one token c (the peer's        *)
(* index), so jobinfos is the sequence of the peers whose slices were      *)
(* appended.  Addresses are strings kept as sequences of tokens: peer c is *)
(* reached at <<c>>, the inception listens at <<0>>, "" is <<>>.           *)
(***************************************************************************)
EXTENDS InceptionConfig, FiniteSets

NoLock == 0

VARIABLES
    mpc,        \* the calling goroutine: "loop", "wait", "returned"
    idx,        \* the next configured cluster the loop visits
    wg,         \* the counter of jip's WaitGroup
    gpc,        \* per cluster: its requestJobInfos goroutine's progress
    resp,       \* per cluster: the result of i.request.GetJobs
    lock,       \* the goroutine holding jip's mutex, or NoLock
    tmp,        \* per goroutine: the slice header read inside append
    jobinfos    \* jip.jobinfos

vars == <<mpc, idx, wg, gpc, resp, lock, tmp, jobinfos>>

GState == {"idle", "skipped", "get", "lock", "read", "write", "unlock", "done"}

Init ==
    /\ mpc = "loop"
    /\ idx = 1
    /\ wg = N
    /\ gpc = [c \in Peers |-> "idle"]
    /\ resp = [c \in Peers |-> "none"]
    /\ lock = NoLock
    /\ tmp = [c \in Peers |-> <<>>]
    /\ jobinfos = <<>>

\* One iteration of the loop over i.config.Cluster.
VisitCluster ==
    /\ mpc = "loop"
    /\ idx <= N
    /\ IF IsOwnAddress(idx)
       THEN /\ gpc' = [gpc EXCEPT ![idx] = "skipped"]
            /\ wg' = wg - 1
       ELSE /\ gpc' = [gpc EXCEPT ![idx] = "get"]
            /\ UNCHANGED wg
    /\ idx' = idx + 1
    /\ UNCHANGED <<mpc, resp, lock, tmp, jobinfos>>

LoopDone ==
    /\ mpc = "loop"
    /\ idx = N + 1
    /\ mpc' = "wait"
    /\ UNCHANGED <<idx, wg, gpc, resp, lock, tmp, jobinfos>>

\* jip.Wait() returns once the counter is zero; the call returns jobinfos.
WaitAll ==
    /\ mpc = "wait"
    /\ wg = 0
    /\ mpc' = "returned"
    /\ UNCHANGED <<idx, wg, gpc, resp, lock, tmp, jobinfos>>

\* Mutant: the nil path returns without ji.Done().
GetJobsNoDone(c) ==
    /\ gpc[c] = "get"
    /\ \/ /\ resp' = [resp EXCEPT ![c] = "nil"]
          /\ gpc' = [gpc EXCEPT ![c] = "done"]
          /\ UNCHANGED wg
       \/ /\ resp' = [resp EXCEPT ![c] = "ok"]
          /\ gpc' = [gpc EXCEPT ![c] = "lock"]
          /\ UNCHANGED wg
    /\ UNCHANGED <<mpc, idx, lock, tmp, jobinfos>>

\* i.request.GetJobs(address, "all", ""): nil (an error) or the peer's
\* slice; on nil the goroutine goes straight to ji.Done().
GetJobs(c) ==
    /\ gpc[c] = "get"
    /\ \/ /\ resp' = [resp EXCEPT ![c] = "nil"]
          /\ gpc' = [gpc EXCEPT ![c] = "done"]
          /\ wg' = wg - 1
       \/ /\ resp' = [resp EXCEPT ![c] = "ok"]
          /\ gpc' = [gpc EXCEPT ![c] = "lock"]
          /\ UNCHANGED wg
    /\ UNCHANGED <<mpc, idx, lock, tmp, jobinfos>>

\* Mutant: the append is done without taking ji's mutex.
LockUnguarded(c) ==
    /\ gpc[c] = "lock"
    /\ lock' = c
    /\ gpc' = [gpc EXCEPT ![c] = "read"]
    /\ UNCHANGED <<mpc, idx, wg, resp, tmp, jobinfos>>

\* ji.Lock()
Lock(c) ==
    /\ gpc[c] = "lock"
    /\ lock = NoLock
    /\ lock' = c
    /\ gpc' = [gpc EXCEPT ![c] = "read"]
    /\ UNCHANGED <<mpc, idx, wg, resp, tmp, jobinfos>>

\* append(ji.jobinfos, jis...) reads the slice ...
ReadSlice(c) ==
    /\ gpc[c] = "read"
    /\ tmp' = [tmp EXCEPT ![c] = jobinfos]
    /\ gpc' = [gpc EXCEPT ![c] = "write"]
    /\ UNCHANGED <<mpc, idx, wg, resp, lock, jobinfos>>

\* ... and ji.jobinfos = the extended slice.
WriteSlice(c) ==
    /\ gpc[c] = "write"
    /\ jobinfos' = tmp[c] \o <<c>>
    /\ gpc' = [gpc EXCEPT ![c] = "unlock"]
    /\ UNCHANGED <<mpc, idx, wg, resp, lock, tmp>>

\* Mutant: Done is called twice (an extra defer ji.Done()).
UnlockDoneTwice(c) ==
    /\ gpc[c] = "unlock"
    /\ lock' = NoLock
    /\ gpc' = [gpc EXCEPT ![c] = "done"]
    /\ wg' = wg - 2
    /\ UNCHANGED <<mpc, idx, resp, tmp, jobinfos>>

\* ji.Unlock(); ji.Done()
UnlockDone(c) ==
    /\ gpc[c] = "unlock"
    /\ lock' = NoLock
    /\ gpc' = [gpc EXCEPT ![c] = "done"]
    /\ wg' = wg - 1
    /\ UNCHANGED <<mpc, idx, resp, tmp, jobinfos>>

Caller == VisitCluster \/ LoopDone \/ WaitAll

RequestJobInfos(c) ==
    GetJobs(c) \/ Lock(c) \/ ReadSlice(c) \/ WriteSlice(c) \/ UnlockDone(c)

Next == Caller \/ \E c \in Peers : RequestJobInfos(c)

\* The Go runtime keeps running every runnable goroutine; each peer
\* request is assumed to come back (with a result or an error).
Fairness == WF_vars(Caller) /\ \A c \in Peers : WF_vars(RequestJobInfos(c))

Spec == Init /\ [][Next]_vars /\ Fairness

-----------------------------------------------------------------------------
TypeOK ==
    /\ mpc \in {"loop", "wait", "returned"}
    /\ idx \in 1..(N + 1)
    /\ wg \in 0..N
    /\ gpc \in [Peers -> GState]
    /\ resp \in [Peers -> {"none", "nil", "ok"}]
    /\ lock \in Peers \cup {NoLock}
    /\ tmp \in [Peers -> Seq(Peers)]
    /\ jobinfos \in Seq(Peers)

Answered == {c \in Peers : resp[c] = "ok"}

\* What GetJobInfosByFilter returns is the merge of every peer that
\* answered: each answering peer's job infos appear exactly once (no
\* append lost to a concurrent append, none duplicated), and nothing from
\* a peer that failed.
MergeComplete ==
    mpc = "returned" =>
        /\ \A i, j \in 1..Len(jobinfos) : jobinfos[i] = jobinfos[j] => i = j
        /\ {jobinfos[i] : i \in 1..Len(jobinfos)} = Answered

\* Every write of jip.jobinfos in requestJobInfos extends the slice: what
\* the append writes back keeps every job info already merged, in place,
\* and adds the peer's own (a write from a slice read before another
\* goroutine's write would drop that goroutine's job infos).
AppendOnly ==
    [][/\ Len(jobinfos') > Len(jobinfos)
       /\ \A i \in 1..Len(jobinfos) : jobinfos'[i] = jobinfos[i]]_jobinfos

\* Every call of GetJobInfosByFilter returns: the WaitGroup count matches
\* the Done calls of the skip path and of every goroutine.
FanOutReturns == <>(mpc = "returned")

-----------------------------------------------------------------------------
\* The aggregate read as the broker contract states it (AggregateRead):
\* a peer's answer is resp, and the call's result is jobinfos once it
\* returned.  The clusters at the inception's own address are SelfPeers.
AR == INSTANCE AggregateRead
        WITH Own <- SelfPeers,
             ares <- resp,
             astate <- IF mpc = "returned" THEN "returned" ELSE "running",
             aout <- IF mpc = "returned" THEN jobinfos ELSE <<>>

\* GetJobInfosByFilter implements the aggregate read: it asks every other
\* peer once, returns after all answered, with their successful results
\* each once, and it does return.
ImplementsAggregateRead == AR!ASpec

\* The spec and the comment in the loop: a cluster configured at the
\* inception's own address is skipped, never requested (no request loop).
NoSelfRequest == \A c \in SelfPeers : gpc[c] \in {"idle", "skipped"}
==============================================================================

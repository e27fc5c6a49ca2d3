--------------------------- MODULE InceptionProofs ---------------------------
(***************************************************************************)
(* Proofs about one call of Inception.GetJobInfosByFilter (Inception.tla), *)
(* for every number N of configured clusters and every set SelfPeers.      *)
(*                                                                         *)
(* MergeComplete is not inductive: it speaks only of the returned state,   *)
(* and whether jobinfos is right there depends on the WaitGroup counter    *)
(* matching the goroutines still running, on the mutex being held by the   *)
(* one goroutine between ji.Lock() and ji.Unlock(), and on the slice read  *)
(* inside append still being the current slice when it is written back.   *)
(* IInv states those relations for every reachable state.                  *)
(***************************************************************************)
EXTENDS Inception, FiniteSetTheorems, TLAPS

\* Progress values of a requestJobInfos goroutine that has not called
\* ji.Done() yet, and those in which it holds ji's mutex.
Running == {"get", "lock", "read", "write", "unlock"}
Holding == {"read", "write", "unlock"}

\* Clusters the WaitGroup still waits for: not visited by the loop yet, or
\* with a goroutine that has not called ji.Done().
Pending == {c \in Peers : c >= idx \/ gpc[c] \in Running}

\* Clusters whose slice has been appended to jip.jobinfos.
Appended == {c \in Peers : resp[c] = "ok" /\ gpc[c] \in {"unlock", "done"}}

\* The elements of a sequence, and that none occurs twice.
SeqElems(s) == {s[i] : i \in 1..Len(s)}
SeqNoDup(s) == \A i, j \in 1..Len(s) : s[i] = s[j] => i = j

\* The caller's loop visits clusters in order, and returns only after the
\* WaitGroup reached zero.
Ctl ==
    /\ \A c \in Peers : (c >= idx) <=> (gpc[c] = "idle")
    /\ mpc # "loop" => idx = N + 1
    /\ mpc = "returned" => \A c \in Peers : gpc[c] \notin Running
    /\ \A c \in Peers : gpc[c] = "skipped" => IsOwnAddress(c)

\* ji's mutex is held exactly by the goroutine between ji.Lock() and
\* ji.Unlock(), and the slice it read inside append is still the current one.
LockInv ==
    /\ \A c \in Peers : (lock = c) <=> (gpc[c] \in Holding)
    /\ \A c \in Peers : gpc[c] = "write" => tmp[c] = jobinfos

\* A peer's answer is known exactly once its goroutine is past GetJobs.
RespInv ==
    /\ \A c \in Peers : (resp[c] = "none") <=> (gpc[c] \in {"idle", "skipped", "get"})
    /\ \A c \in Peers : resp[c] = "nil" => gpc[c] = "done"

\* The WaitGroup counter is the number of clusters still waited for.
CountInv == wg = Cardinality(Pending)

\* jip.jobinfos holds each appended peer's slice once.
SliceInv == SeqNoDup(jobinfos) /\ SeqElems(jobinfos) = Appended

IInv == TypeOK /\ Ctl /\ LockInv /\ RespInv /\ CountInv /\ SliceInv

-----------------------------------------------------------------------------
\* The WaitGroup counter can be compared with any set of clusters.
LEMMA PeerSetCard ==
    ASSUME NEW S \in SUBSET Peers
    PROVE  /\ IsFiniteSet(S)
           /\ Cardinality(S) \in 0..N
<1>1. IsFiniteSet(Peers) /\ Cardinality(Peers) = N
    BY InceptionAssumption, FS_Interval DEF Peers
<1>. QED  BY <1>1, FS_Subset, FS_CardinalityType

\* Appending one new element to a sequence without duplicates (the
\* append(ji.jobinfos, jis...) of requestJobInfos).
LEMMA AppendNew ==
    ASSUME NEW S, NEW s \in Seq(S), NEW x \in S,
           SeqNoDup(s), x \notin SeqElems(s)
    PROVE  /\ s \o <<x>> \in Seq(S)
           /\ SeqNoDup(s \o <<x>>)
           /\ SeqElems(s \o <<x>>) = SeqElems(s) \cup {x}
<1>. DEFINE t == s \o <<x>>
<1>1. /\ t \in Seq(S)
      /\ Len(t) = Len(s) + 1
      /\ \A i \in 1..Len(s) : t[i] = s[i]
      /\ t[Len(s) + 1] = x
    OBVIOUS
<1>2. SeqNoDup(t)
    BY <1>1 DEF SeqNoDup, SeqElems
<1>3. SeqElems(t) = SeqElems(s) \cup {x}
    BY <1>1 DEF SeqElems
<1>. QED  BY <1>1, <1>2, <1>3

-----------------------------------------------------------------------------
\* The initial state of GetJobInfosByFilter (jip.Add(len(config.Cluster))
\* with an empty slice) satisfies IInv.
LEMMA InitIInv == Init => IInv
<1>. SUFFICES ASSUME Init PROVE IInv
    OBVIOUS
<1>1. Pending = Peers
    BY InceptionAssumption DEF Init, Pending, Peers
<1>2. Cardinality(Peers) = N
    BY InceptionAssumption, FS_Interval DEF Peers
<1>3. Appended = {} /\ SeqElems(jobinfos) = {}
    BY DEF Init, Appended, SeqElems
<1>. QED  BY <1>1, <1>2, <1>3, InceptionAssumption
          DEF Init, IInv, TypeOK, Ctl, LockInv, RespInv, CountInv, SliceInv,
             Peers, Holding, NoLock, SeqNoDup, GState

\* Every step of the caller and of the requestJobInfos goroutines keeps IInv.
LEMMA NextIInv == IInv /\ [Next]_vars => IInv'
<1>. SUFFICES ASSUME IInv, [Next]_vars PROVE IInv'
    OBVIOUS
<1>. USE InceptionAssumption DEF Peers
<1>0. /\ IsFiniteSet(Pending)
      /\ Pending' \in SUBSET Peers
      /\ IsFiniteSet(Pending') /\ Cardinality(Pending') \in 0..N
    BY PeerSetCard DEF Pending
<1>a. TypeOK /\ Ctl /\ LockInv /\ RespInv /\ CountInv /\ SliceInv
    BY DEF IInv
<1>1. CASE VisitCluster
    <2>1. CASE IsOwnAddress(idx)
        <3>1. Pending' = Pending \ {idx} /\ idx \in Pending
            BY <1>a, <1>1, <2>1 DEF VisitCluster, Pending, Running, TypeOK
        <3>2. Cardinality(Pending \ {idx}) = Cardinality(Pending) - 1
            BY <1>0, <3>1, FS_RemoveElement
        <3>3. wg' = wg - 1
            BY <1>1, <2>1 DEF VisitCluster
        <3>4. CountInv'
            BY <1>a, <3>1, <3>2, <3>3, Zenon DEF CountInv
        <3>5. TypeOK'
            <4>1. wg' \in 0..N
                BY <1>0, <3>4, Zenon DEF CountInv
            <4>2. idx' \in 1..(N+1) /\ mpc' = mpc
                BY <1>a, <1>1 DEF VisitCluster, TypeOK
            <4>3. gpc' \in [Peers -> GState]
                <5>1. gpc' = [gpc EXCEPT ![idx] = "skipped"]
                    BY <1>1, <2>1 DEF VisitCluster
                <5>2. gpc \in [Peers -> GState]
                    BY <1>a DEF TypeOK
                <5>. QED  BY <5>1, <5>2 DEF GState
            <4>4. UNCHANGED <<resp, lock, tmp, jobinfos>>
                BY <1>1 DEF VisitCluster
            <4>. QED  BY <1>a, <4>1, <4>2, <4>3, <4>4 DEF TypeOK
        <3>6. Ctl' /\ LockInv' /\ RespInv' /\ SliceInv'
            <4>1. /\ gpc' = [gpc EXCEPT ![idx] = "skipped"]
                  /\ idx' = idx + 1
                  /\ UNCHANGED <<mpc, resp, lock, tmp, jobinfos>>
                BY <1>1, <2>1, Zenon DEF VisitCluster
            <4>2. idx \in Peers /\ gpc[idx] = "idle" /\ mpc = "loop"
                BY <1>a, <1>1 DEF VisitCluster, TypeOK, Ctl
            <4>3. Ctl'
                BY <1>a, <2>1, <4>1, <4>2 DEF TypeOK, Ctl, Running
            <4>4. LockInv'
                BY <1>a, <4>1, <4>2 DEF TypeOK, LockInv, Holding
            <4>5. RespInv'
                BY <1>a, <4>1, <4>2 DEF TypeOK, RespInv
            <4>6. SliceInv'
                BY <1>a, <4>1, <4>2 DEF TypeOK, RespInv, SliceInv, Appended
            <4>. QED  BY <4>3, <4>4, <4>5, <4>6
        <3>. QED  BY <3>4, <3>5, <3>6 DEF IInv
    <2>2. CASE ~IsOwnAddress(idx)
        <3>1. Pending' = Pending
            BY <1>a, <1>1, <2>2 DEF VisitCluster, Pending, Running, TypeOK
        <3>4. CountInv'
            BY <1>a, <1>1, <2>2, <3>1, Zenon DEF CountInv, VisitCluster
        <3>5. TypeOK'
            <4>1. wg' \in 0..N
                BY <1>0, <3>4, Zenon DEF CountInv
            <4>2. idx' \in 1..(N+1) /\ mpc' = mpc
                BY <1>a, <1>1 DEF VisitCluster, TypeOK
            <4>3. gpc' \in [Peers -> GState]
                <5>1. gpc' = [gpc EXCEPT ![idx] = "get"]
                    BY <1>1, <2>2 DEF VisitCluster
                <5>2. gpc \in [Peers -> GState]
                    BY <1>a DEF TypeOK
                <5>. QED  BY <5>1, <5>2 DEF GState
            <4>4. UNCHANGED <<resp, lock, tmp, jobinfos>>
                BY <1>1 DEF VisitCluster
            <4>. QED  BY <1>a, <4>1, <4>2, <4>3, <4>4 DEF TypeOK
        <3>6. Ctl' /\ LockInv' /\ RespInv' /\ SliceInv'
            <4>1. /\ gpc' = [gpc EXCEPT ![idx] = "get"]
                  /\ idx' = idx + 1
                  /\ UNCHANGED <<mpc, resp, lock, tmp, jobinfos>>
                BY <1>1, <2>2, Zenon DEF VisitCluster
            <4>2. idx \in Peers /\ gpc[idx] = "idle" /\ mpc = "loop"
                BY <1>a, <1>1 DEF VisitCluster, TypeOK, Ctl
            <4>3. Ctl'
                BY <1>a, <4>1, <4>2 DEF TypeOK, Ctl, Running
            <4>4. LockInv'
                BY <1>a, <4>1, <4>2 DEF TypeOK, LockInv, Holding
            <4>5. RespInv'
                BY <1>a, <4>1, <4>2 DEF TypeOK, RespInv
            <4>6. SliceInv'
                BY <1>a, <4>1, <4>2 DEF TypeOK, RespInv, SliceInv, Appended
            <4>. QED  BY <4>3, <4>4, <4>5, <4>6
        <3>. QED  BY <3>4, <3>5, <3>6 DEF IInv
    <2>. QED  BY <2>1, <2>2
<1>2. CASE LoopDone \/ WaitAll \/ UNCHANGED vars
    <2>1. UNCHANGED <<idx, wg, gpc, resp, lock, tmp, jobinfos>>
        BY <1>2 DEF LoopDone, WaitAll, vars
    <2>2. Pending' = Pending /\ Appended' = Appended
        BY <2>1 DEF Pending, Appended
    <2>3. CountInv' /\ SliceInv'
        BY <1>a, <2>1, <2>2, Zenon DEF CountInv, SliceInv
    <2>4. TypeOK' /\ LockInv' /\ RespInv'
        BY <1>a, <1>2, <2>1 DEF LoopDone, WaitAll, vars, TypeOK, LockInv, RespInv
    <2>5. Ctl'
        <3>1. mpc' = "returned" => \A d \in Peers : gpc[d] \notin Running
            <4>1. CASE WaitAll
                <5>1. Cardinality(Pending) = 0
                    BY <1>a, <4>1, Zenon DEF WaitAll, CountInv
                <5>2. Pending = {}
                    BY <1>0, <5>1, FS_EmptySet
                <5>. QED  BY <5>2 DEF Pending
            <4>2. CASE LoopDone \/ UNCHANGED vars
                BY <1>a, <4>2 DEF LoopDone, vars, Ctl
            <4>. QED  BY <1>2, <4>1, <4>2
        <3>. QED  BY <1>a, <1>2, <2>1, <3>1 DEF LoopDone, WaitAll, vars, TypeOK, Ctl
    <2>. QED  BY <2>3, <2>4, <2>5 DEF IInv
<1>3. ASSUME NEW c \in Peers, GetJobs(c) PROVE IInv'
    <2>0. UNCHANGED <<mpc, idx, lock, tmp, jobinfos>>
        BY <1>3 DEF GetJobs
    <2>1. CASE resp'[c] = "nil"
        <3>1. Pending' = Pending \ {c} /\ c \in Pending
            BY <1>a, <1>3, <2>1 DEF GetJobs, Pending, Running, TypeOK, Ctl
        <3>2. Cardinality(Pending \ {c}) = Cardinality(Pending) - 1
            BY <1>0, <3>1, FS_RemoveElement
        <3>3. wg' = wg - 1 /\ Appended' = Appended
            BY <1>a, <1>3, <2>1 DEF GetJobs, TypeOK, Appended
        <3>4. CountInv' /\ SliceInv'
            BY <1>a, <2>0, <3>1, <3>2, <3>3, Zenon DEF CountInv, SliceInv
        <3>5. TypeOK'
            <4>1. wg' \in 0..N
                BY <1>0, <3>4, Zenon DEF CountInv
            <4>. QED  BY <1>a, <1>3, <4>1 DEF GetJobs, TypeOK, GState
        <3>6. Ctl' /\ LockInv' /\ RespInv'
            <4>1. /\ gpc' = [gpc EXCEPT ![c] = "done"]
                  /\ resp' = [resp EXCEPT ![c] = "nil"]
                BY <1>a, <1>3, <2>1 DEF GetJobs, TypeOK
            <4>2. gpc[c] = "get" /\ mpc # "returned"
                BY <1>a, <1>3 DEF GetJobs, TypeOK, Ctl, Running
            <4>3. Ctl'
                BY <1>a, <2>0, <4>1, <4>2 DEF TypeOK, Ctl, Running
            <4>4. LockInv'
                BY <1>a, <2>0, <4>1, <4>2 DEF TypeOK, LockInv, Holding
            <4>5. RespInv'
                BY <1>a, <4>1, <4>2 DEF TypeOK, RespInv
            <4>. QED  BY <4>3, <4>4, <4>5
        <3>. QED  BY <3>4, <3>5, <3>6 DEF IInv
    <2>2. CASE resp'[c] # "nil"
        <3>1. Pending' = Pending /\ Appended' = Appended /\ wg' = wg
            BY <1>a, <1>3, <2>2 DEF GetJobs, Pending, Running, Appended, TypeOK
        <3>4. CountInv' /\ SliceInv'
            BY <1>a, <2>0, <3>1, Zenon DEF CountInv, SliceInv
        <3>5. TypeOK'
            BY <1>a, <1>3, <3>1 DEF GetJobs, TypeOK, GState
        <3>6. Ctl' /\ LockInv' /\ RespInv'
            <4>1. /\ gpc' = [gpc EXCEPT ![c] = "lock"]
                  /\ resp' = [resp EXCEPT ![c] = "ok"]
                BY <1>a, <1>3, <2>2 DEF GetJobs, TypeOK
            <4>2. gpc[c] = "get" /\ mpc # "returned"
                BY <1>a, <1>3 DEF GetJobs, TypeOK, Ctl, Running
            <4>3. Ctl'
                BY <1>a, <2>0, <4>1, <4>2 DEF TypeOK, Ctl, Running
            <4>4. LockInv'
                BY <1>a, <2>0, <4>1, <4>2 DEF TypeOK, LockInv, Holding
            <4>5. RespInv'
                BY <1>a, <4>1, <4>2 DEF TypeOK, RespInv
            <4>. QED  BY <4>3, <4>4, <4>5
        <3>. QED  BY <3>4, <3>5, <3>6 DEF IInv
    <2>. QED  BY <2>1, <2>2
<1>4. ASSUME NEW c \in Peers, Lock(c) \/ ReadSlice(c) PROVE IInv'
    <2>1. UNCHANGED <<mpc, idx, wg, resp, jobinfos>>
        BY <1>4 DEF Lock, ReadSlice
    <2>2. Pending' = Pending /\ Appended' = Appended
        BY <1>a, <1>4 DEF Lock, ReadSlice, Pending, Running, Appended, TypeOK
    <2>3. CountInv' /\ SliceInv'
        BY <1>a, <2>1, <2>2, Zenon DEF CountInv, SliceInv
    <2>4. \/ /\ gpc[c] = "lock" /\ lock = NoLock /\ lock' = c
             /\ gpc' = [gpc EXCEPT ![c] = "read"] /\ tmp' = tmp
          \/ /\ gpc[c] = "read" /\ lock' = lock
             /\ gpc' = [gpc EXCEPT ![c] = "write"]
             /\ tmp' = [tmp EXCEPT ![c] = jobinfos]
        BY <1>4 DEF Lock, ReadSlice
    <2>5. TypeOK'
        BY <1>a, <2>1, <2>4 DEF TypeOK, GState, NoLock
    <2>6. Ctl' /\ RespInv'
        BY <1>a, <2>1, <2>4 DEF TypeOK, Ctl, RespInv, Running
    <2>7. LockInv'
        BY <1>a, <2>1, <2>4 DEF TypeOK, LockInv, Holding, NoLock
    <2>. QED  BY <2>3, <2>5, <2>6, <2>7 DEF IInv
<1>5. ASSUME NEW c \in Peers, WriteSlice(c) PROVE IInv'
    <2>1. UNCHANGED <<mpc, idx, wg, resp, lock, tmp>>
        BY <1>5 DEF WriteSlice
    <2>2. Pending' = Pending
        BY <1>a, <1>5 DEF WriteSlice, Pending, Running, TypeOK
    <2>3. Appended' = Appended \cup {c} /\ c \notin Appended
        BY <1>a, <1>5 DEF WriteSlice, Appended, TypeOK, RespInv
    <2>4. jobinfos' = jobinfos \o <<c>>
        BY <1>a, <1>5 DEF WriteSlice, LockInv
    <2>5. /\ jobinfos' \in Seq(Peers)
          /\ SeqNoDup(jobinfos')
          /\ SeqElems(jobinfos') = SeqElems(jobinfos) \cup {c}
        BY <1>a, <2>3, <2>4, AppendNew DEF SliceInv, TypeOK
    <2>6. CountInv' /\ SliceInv'
        BY <1>a, <2>1, <2>2, <2>3, <2>5, Zenon DEF CountInv, SliceInv
    <2>7. gpc[c] = "write" /\ gpc' = [gpc EXCEPT ![c] = "unlock"]
        BY <1>5 DEF WriteSlice
    <2>8. TypeOK'
        BY <1>a, <2>1, <2>5, <2>7 DEF TypeOK, GState
    <2>9. Ctl' /\ RespInv'
        BY <1>a, <2>1, <2>7 DEF TypeOK, Ctl, RespInv, Running
    <2>10. LockInv'
        <3>1. \A d \in Peers : gpc'[d] = "write" => d # c /\ gpc[d] = "write"
            BY <1>a, <2>7 DEF TypeOK
        <3>2. \A d \in Peers \ {c} : gpc[d] # "write"
            BY <1>a, <2>7 DEF TypeOK, LockInv, Holding
        <3>. QED  BY <1>a, <2>1, <2>7, <3>1, <3>2 DEF TypeOK, LockInv, Holding
    <2>. QED  BY <2>6, <2>8, <2>9, <2>10 DEF IInv
<1>6. ASSUME NEW c \in Peers, UnlockDone(c) PROVE IInv'
    <2>1. UNCHANGED <<mpc, idx, resp, tmp, jobinfos>>
        BY <1>6 DEF UnlockDone
    <2>2. Pending' = Pending \ {c} /\ c \in Pending
        BY <1>a, <1>6 DEF UnlockDone, Pending, Running, TypeOK, Ctl
    <2>3. Cardinality(Pending \ {c}) = Cardinality(Pending) - 1
        BY <1>0, <2>2, FS_RemoveElement
    <2>4. wg' = wg - 1 /\ Appended' = Appended
        BY <1>a, <1>6 DEF UnlockDone, Appended, TypeOK
    <2>5. CountInv' /\ SliceInv'
        BY <1>a, <2>1, <2>2, <2>3, <2>4, Zenon DEF CountInv, SliceInv
    <2>6. TypeOK'
        <3>1. wg' \in 0..N
            BY <1>0, <2>5, Zenon DEF CountInv
        <3>. QED  BY <1>a, <1>6, <3>1 DEF UnlockDone, TypeOK, GState, NoLock
    <2>7. /\ gpc[c] = "unlock" /\ gpc' = [gpc EXCEPT ![c] = "done"]
          /\ lock' = NoLock /\ mpc # "returned"
        BY <1>a, <1>6 DEF UnlockDone, TypeOK, Ctl, Running
    <2>8. Ctl' /\ RespInv'
        BY <1>a, <2>1, <2>7 DEF TypeOK, Ctl, RespInv, Running
    <2>9. LockInv'
        BY <1>a, <2>1, <2>7 DEF TypeOK, LockInv, Holding, NoLock
    <2>. QED  BY <2>5, <2>6, <2>8, <2>9 DEF IInv
<1>. QED  BY <1>1, <1>2, <1>3, <1>4, <1>5, <1>6
          DEF Next, Caller, RequestJobInfos

\* Once no goroutine is pending, the peers that answered are exactly the
\* appended ones.
LEMMA DoneMerge ==
    ASSUME IInv, \A c \in Peers : gpc[c] \notin Running /\ gpc[c] # "idle"
    PROVE  SeqNoDup(jobinfos) /\ SeqElems(jobinfos) = Answered
<1>1. Appended = Answered
    BY DEF IInv, TypeOK, RespInv, Appended, Answered, Running, GState
<1>. QED  BY <1>1 DEF IInv, SliceInv

\* IInv yields MergeComplete: once jip.Wait() returned, every goroutine has
\* called ji.Done(), so the peers that answered are exactly the appended ones.
LEMMA IInvMerge == IInv => MergeComplete
<1>. SUFFICES ASSUME IInv, mpc = "returned"
              PROVE  /\ \A i, j \in 1..Len(jobinfos) : jobinfos[i] = jobinfos[j] => i = j
                     /\ {jobinfos[i] : i \in 1..Len(jobinfos)} = Answered
    BY DEF MergeComplete
<1>1. \A c \in Peers : gpc[c] \notin Running /\ gpc[c] # "idle"
    BY InceptionAssumption DEF IInv, TypeOK, Ctl, Peers
<1>. QED  BY <1>1, DoneMerge DEF SeqNoDup, SeqElems

-----------------------------------------------------------------------------
\* The inductive invariant holds in every state of every call.
THEOREM IInvInvariant == Spec => []IInv
BY InitIInv, NextIInv, PTL DEF Spec

\* Type correctness of GetJobInfosByFilter's state, in particular the
\* WaitGroup counter never goes negative (no extra ji.Done()).
THEOREM TypeCorrect == Spec => []TypeOK
<1>1. IInv => TypeOK
    BY DEF IInv
<1>. QED  BY <1>1, IInvInvariant, PTL

\* GetJobInfosByFilter returns each answering peer's job infos exactly
\* once: no append is lost to a concurrent append, whatever N is.
THEOREM MergeCorrect == Spec => []MergeComplete
BY IInvInvariant, IInvMerge, PTL
\* Only the write-back of append changes jip.jobinfos, and under the mutex
\* it writes the current slice with the peer's job infos appended.
LEMMA WriteExtends ==
    ASSUME IInv, [Next]_vars, jobinfos' # jobinfos
    PROVE  \E c \in Peers : jobinfos' = jobinfos \o <<c>>
<1>1. PICK c \in Peers : WriteSlice(c)
    BY DEF Next, Caller, VisitCluster, LoopDone, WaitAll, RequestJobInfos,
           GetJobs, Lock, ReadSlice, UnlockDone, vars
<1>2. tmp[c] = jobinfos
    BY <1>1 DEF WriteSlice, IInv, LockInv
<1>. QED  BY <1>1, <1>2 DEF WriteSlice

\* For every N: no write of requestJobInfos drops or reorders a job info
\* already in jip.jobinfos; each one appends to the current slice.
THEOREM AppendOnlyHolds == Spec => AppendOnly
<1>1. IInv /\ [Next]_vars =>
        [/\ Len(jobinfos') > Len(jobinfos)
         /\ \A i \in 1..Len(jobinfos) : jobinfos'[i] = jobinfos[i]]_jobinfos
    <2>. SUFFICES ASSUME IInv, [Next]_vars, jobinfos' # jobinfos
                  PROVE  /\ Len(jobinfos') > Len(jobinfos)
                         /\ \A i \in 1..Len(jobinfos) : jobinfos'[i] = jobinfos[i]
        OBVIOUS
    <2>1. PICK c \in Peers : jobinfos' = jobinfos \o <<c>>
        BY WriteExtends
    <2>2. jobinfos \in Seq(Peers)
        BY DEF IInv, TypeOK
    <2>. QED  BY <2>1, <2>2
<1>. QED  BY <1>1, IInvInvariant, PTL DEF Spec, AppendOnly

\* Address(c) with "/" appended is never the empty inceptionAddress.
LEMMA NoOwnAddress == \A c \in Peers : ~IsOwnAddress(c)
BY DEF IsOwnAddress, InceptionAddress, WithSlash, Address

\* For every N and every SelfPeers, the continue of the own-address guard
\* in GetJobInfosByFilter is dead code: i.inceptionAddress is never set,
\* so no cluster is ever skipped, one at the proxy's own address included
\* (the inception_self finding, for every configuration).
THEOREM OwnGuardNeverSkips == Spec => [](\A c \in Peers : gpc[c] # "skipped")
<1>1. IInv => \A c \in Peers : gpc[c] # "skipped"
    BY NoOwnAddress DEF IInv, Ctl
<1>. QED  BY <1>1, IInvInvariant, PTL

-----------------------------------------------------------------------------
(***************************************************************************)
(* Refinement: GetJobInfosByFilter implements the aggregate read of        *)
(* AggregateRead under the mapping AR of Inception, when no configured     *)
(* cluster is at the inception's own address.                              *)
(***************************************************************************)

\* A sequence without duplicates is an arrangement of its elements.
LEMMA NoDupArrangement ==
    ASSUME NEW S, NEW s \in Seq(S), SeqNoDup(s)
    PROVE  s \in AR!Arrangements(SeqElems(s))
<1>1. s \in Bijection(1..Len(s), SeqElems(s))
    BY DEF Bijection, Injection, Surjection, IsInjective, SeqNoDup, SeqElems
<1>2. IsFiniteSet(1..Len(s)) /\ Cardinality(1..Len(s)) = Len(s)
    <2>1. Len(s) \in Nat
        OBVIOUS
    <2>. QED  BY <2>1, FS_Interval
<1>3. Cardinality(SeqElems(s)) = Len(s)
    BY <1>1, <1>2, FS_Bijection DEF ExistsBijection
<1>4. s \in [1..Len(s) -> SeqElems(s)]
    BY DEF SeqElems
<1>5. AR!Cardinality(SeqElems(s)) = Cardinality(SeqElems(s))
    BY DEF AR!Cardinality, Cardinality
<1>. QED  BY <1>3, <1>4, <1>5 DEF AR!Arrangements, AR!NoDup, SeqNoDup

\* The initial state of the call is the initial state of an aggregate read.
LEMMA InitRefines == Init => AR!AInit
BY DEF Init, AR!AInit

\* Every step is an Answer, the Return, or leaves the mapped state alone.
LEMMA StepRefines ==
    ASSUME SelfPeers = {}, IInv, IInv', [Next]_vars
    PROVE  [AR!ANext]_AR!avars
<1>. USE InceptionAssumption DEF Peers
<1>1. ASSUME NEW c \in Peers, GetJobs(c) PROVE AR!Answer(c)
    <2>1. gpc[c] = "get" /\ mpc # "returned" /\ resp[c] = "none"
        BY <1>1 DEF GetJobs, IInv, Ctl, Running, RespInv
    <2>2. UNCHANGED <<mpc, jobinfos>>
        BY <1>1 DEF GetJobs
    <2>3. \E r \in {"nil", "ok"} : resp' = [resp EXCEPT ![c] = r]
        BY <1>1 DEF GetJobs
    <2>. QED  BY <2>1, <2>2, <2>3 DEF AR!Answer
<1>2. CASE WaitAll
    <2>1. UNCHANGED <<gpc, resp, jobinfos>> /\ mpc' = "returned" /\ mpc = "wait"
        BY <1>2 DEF WaitAll
    <2>2. \A c \in Peers : gpc[c] \notin Running /\ gpc[c] # "idle"
        <3>1. Cardinality(Pending) = 0
            BY <1>2, Zenon DEF WaitAll, IInv, CountInv
        <3>2. IsFiniteSet(Pending)
            BY PeerSetCard DEF Pending
        <3>3. Pending = {}
            BY <3>1, <3>2, FS_EmptySet
        <3>. QED  BY <2>1, <3>3 DEF Pending, IInv, Ctl
    <2>3. jobinfos \in AR!Arrangements(Answered)
        <3>1. jobinfos \in Seq(Peers)
            BY DEF IInv, TypeOK
        <3>2. SeqNoDup(jobinfos) /\ SeqElems(jobinfos) = Answered
            BY <2>2, DoneMerge
        <3>. QED  BY <3>1, <3>2, NoDupArrangement
    <2>4. \A c \in Peers : resp[c] # "none"
        <3>1. \A c \in Peers : ~IsOwnAddress(c)
            BY DEF IsOwnAddress, InceptionAddress, WithSlash, Address
        <3>2. \A c \in Peers : gpc[c] # "skipped"
            BY <3>1 DEF IInv, Ctl
        <3>. QED  BY <2>2, <3>2 DEF IInv, TypeOK, RespInv, GState, Running
    <2>5. {c \in Peers : resp[c] = "ok"} = Answered
        BY DEF Answered
    <2>. QED  BY <2>1, <2>3, <2>4, <2>5 DEF AR!ANext, AR!Return
<1>3. CASE VisitCluster \/ LoopDone \/ UNCHANGED vars
    BY <1>3 DEF VisitCluster, LoopDone, vars, AR!avars
<1>4. ASSUME NEW c \in Peers,
             Lock(c) \/ ReadSlice(c) \/ WriteSlice(c) \/ UnlockDone(c)
      PROVE  UNCHANGED AR!avars
    <2>1. mpc # "returned"
        BY <1>4 DEF Lock, ReadSlice, WriteSlice, UnlockDone, IInv, Ctl, Running
    <2>. QED  BY <1>4, <2>1 DEF Lock, ReadSlice, WriteSlice, UnlockDone, AR!avars
<1>. QED  BY <1>1, <1>2, <1>3, <1>4 DEF Next, Caller, RequestJobInfos, AR!ANext

\* When no configured cluster is the inception itself, every behaviour of
\* GetJobInfosByFilter is a behaviour of the aggregate read (safety part).
THEOREM RefinesAggregateRead == SelfPeers = {} => (Spec => AR!SafeSpec)
<1>. SUFFICES ASSUME SelfPeers = {} PROVE Spec => AR!SafeSpec
    OBVIOUS
<1>1. IInv /\ IInv' /\ [Next]_vars => [AR!ANext]_AR!avars
    BY StepRefines
<1>. QED  BY <1>1, InitIInv, NextIInv, InitRefines, PTL DEF Spec, AR!SafeSpec
==============================================================================

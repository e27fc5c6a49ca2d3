---------------------------- MODULE InceptionReads ----------------------------
(***************************************************************************)
(* One call of the sequential read aggregations of the inception proxy:   *)
(* Inception.GetAllMachines, GetAllQueues and GetAllCategories.  Each      *)
(* walks i.config.Cluster in order; skips a cluster at the inception's    *)
(* own address (continue); resolves the cluster's name with               *)
(* GetClusterAddress and calls log.Panicln when that fails; asks the      *)
(* cluster for its machines / queues / categories and appends them.       *)
(* A failed GetMachines or GetQueues is logged and excluded.              *)
(* GetJobCategories has no error result: a cluster that does not answer    *)
(* contributes an empty (nil) slice, which appends nothing.               *)
(*                                                                         *)
(* Data: cluster c's partial result is the token c, so all is the         *)
(* sequence of clusters whose results were appended.  res[c] records the  *)
(* peer's answer: "none" (not asked), "nil" (failed / empty), "ok".       *)
(***************************************************************************)
EXTENDS InceptionConfig, FiniteSets

\* The three entry points.
Ops == {"machines", "queues", "categories"}

VARIABLES
    op,     \* which of the three entry points was called
    pc,     \* "loop", "returned", or "panicked" (log.Panicln unwound the call)
    idx,    \* the loop's next cluster index
    res,    \* per cluster: "none", "nil" or "ok"
    all     \* allmachines / allqueues / cat

vars == <<op, pc, idx, res, all>>

TypeOK ==
    /\ op \in Ops
    /\ pc \in {"loop", "returned", "panicked"}
    /\ idx \in 1..N+1
    /\ res \in [Peers -> {"none", "nil", "ok"}]
    /\ all \in Seq(Peers)

\* make([]T, 0, 0) for one of the three entry points.
Init ==
    /\ op \in Ops
    /\ pc = "loop"
    /\ idx = 1
    /\ res = [c \in Peers |-> "none"]
    /\ all = <<>>

\* The own-address guard: continue with the next cluster.
SkipOwn ==
    /\ idx' = idx + 1
    /\ UNCHANGED <<op, pc, res, all>>

\* GetClusterAddress(c.Name) fails: log.Panicln unwinds the whole call;
\* the following return nil, err is never reached.  Whether the name
\* resolves is up to the configuration collaborator; each cluster is
\* resolved once per call, so the model chooses the outcome at that step.
AddressFails ==
    /\ pc' = "panicked"
    /\ UNCHANGED <<op, idx, res, all>>

\* Mutant: the append ignores the request's error.
FetchedIgnoresError(ok) ==
    /\ \E r \in ok :
         /\ res' = [res EXCEPT ![idx] = r]
         /\ all' = Append(all, idx)
    /\ idx' = idx + 1
    /\ UNCHANGED <<op, pc>>

\* The request to the resolved cluster: on success its slice is appended,
\* on error it is logged and excluded; then the loop goes on.
Fetched(ok) ==
    /\ \E r \in ok :
         /\ res' = [res EXCEPT ![idx] = r]
         /\ all' = IF r = "ok" THEN Append(all, idx) ELSE all
    /\ idx' = idx + 1
    /\ UNCHANGED <<op, pc>>

\* Mutant: the loop runs one index past the configured clusters.
VisitPastEnd(ok) ==
    /\ pc = "loop"
    /\ idx <= N + 1
    /\ IF IsOwnAddress(idx)
       THEN SkipOwn
       ELSE AddressFails \/ Fetched(ok)

\* One iteration of the loop over i.config.Cluster.
Visit(ok) ==
    /\ pc = "loop"
    /\ idx <= N
    /\ IF IsOwnAddress(idx)
       THEN SkipOwn
       ELSE AddressFails \/ Fetched(ok)

\* The three entry points.  GetJobCategories cannot report an error, so
\* a cluster that does not answer gives a nil slice that appends nothing.
GetAllMachines   == op = "machines"   /\ Visit({"nil", "ok"})
GetAllQueues     == op = "queues"     /\ Visit({"nil", "ok"})
GetAllCategories == op = "categories" /\ Visit({"nil", "ok"})

\* The loop is over: return the aggregate with a nil error.
ReturnAll ==
    /\ pc = "loop"
    /\ idx = N + 1
    /\ pc' = "returned"
    /\ UNCHANGED <<op, idx, res, all>>

Next ==
    \/ GetAllMachines
    \/ GetAllQueues
    \/ GetAllCategories
    \/ ReturnAll

\* The call runs on one goroutine, which the runtime keeps scheduling.
Spec == Init /\ [][Next]_vars /\ WF_vars(Next)

(***************************************************************************)
(* The abstract read aggregation of AggregateRead: a cluster's answer is  *)
(* res, and the call's result is all once the call has returned.          *)
(***************************************************************************)
AR == INSTANCE AggregateRead
        WITH Own <- SelfPeers, ares <- res,
             astate <- IF pc = "returned" THEN "returned" ELSE "running",
             aout <- IF pc = "returned" THEN all ELSE <<>>

\* GetAllMachines / GetAllQueues / GetAllCategories implement the broker's
\* read-aggregation contract: every cluster other than the proxy itself is
\* asked once, the returned slice holds each successful partial result
\* exactly once and nothing of a failed cluster, and the call returns.
ImplementsAggregateRead == AR!ASpec

\* Whatever the clusters answer, a call that returns returns the right
\* merge: only the liveness half of the contract can fail.
ReadsSafe == AR!SafeSpec
==============================================================================

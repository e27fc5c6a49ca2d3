--------------------------- MODULE SchedulerProofs ---------------------------
(***************************************************************************)
(* Proofs about the SelectCluster decisions of Scheduler.tla, for every    *)
(* number N of configured clusters and every bound on the decisions.       *)
(*                                                                         *)
(* SelectionOnJoinedLoads is not inductive: whether a decision sees every  *)
(* fetch finished depends on lv's WaitGroup counter being the number of    *)
(* getClusterLoad goroutines that have not called Done, and on no         *)
(* goroutine of an earlier decision still running.  SInv states both.     *)
(***************************************************************************)
EXTENDS Scheduler, FiniteSetTheorems, TLAPS

\* The getClusterLoad goroutines that have not called lv.Done() yet.
Fetching == {i \in Clusters : fpc[i] = "running"}

\* The WaitGroup counter counts the running goroutines; they run only
\* while the caller waits in getAllLoadValues, and each of them started
\* by this getAllLoadValues.
WaitInv ==
    /\ wg = Cardinality(Fetching)
    /\ phase # "fetching" => Fetching = {}
    /\ phase = "fetching" => \A i \in Clusters : fpc[i] \in {"running", "done"}

SInv ==
    /\ schedType \in SchedulerTypes
    /\ phase \in {"idle", "fetching", "selected", "panicked"}
    /\ fpc \in [Clusters -> {"idle", "running", "done"}]
    /\ WaitInv
    /\ SelectionOnJoinedLoads

-----------------------------------------------------------------------------
\* Any set of configured clusters is finite, of at most N elements.
LEMMA ClusterSetCard ==
    ASSUME NEW S \in SUBSET Clusters
    PROVE  IsFiniteSet(S) /\ Cardinality(S) \in 0..N
<1>1. IsFiniteSet(Clusters) /\ Cardinality(Clusters) = N
    BY SchedAssumption, FS_Interval DEF Clusters
<1>. QED  BY <1>1, FS_Subset, FS_CardinalityType

\* No WaitGroup counter and no goroutine before the first decision.
LEMMA InitSInv == Init => SInv
<1>. SUFFICES ASSUME Init PROVE SInv
    OBVIOUS
<1>1. Fetching = {}
    BY DEF Init, Fetching
<1>. QED  BY <1>1, FS_EmptySet
          DEF Init, SInv, WaitInv, SelectionOnJoinedLoads

\* When the counter is zero every goroutine of the decision has finished.
LEMMA JoinedAllDone ==
    ASSUME SInv, phase = "fetching", Joined
    PROVE  \A i \in Clusters : fpc[i] = "done"
<1>1. Cardinality(Fetching) = 0
    BY DEF SInv, WaitInv, Joined
<1>2. Fetching = {}
    BY <1>1, ClusterSetCard, FS_EmptySet DEF Fetching
<1>. QED  BY <1>2 DEF SInv, WaitInv, Fetching

LEMMA NextSInv == SInv /\ [Next]_vars => SInv'
<1>. SUFFICES ASSUME SInv, [Next]_vars PROVE SInv'
    OBVIOUS
<1>. USE SchedAssumption
<1>1. CASE GetAllLoadValues
    <2>1. Fetching' = Clusters
        BY <1>1 DEF GetAllLoadValues, Fetching
    <2>2. Cardinality(Clusters) = N
        BY FS_Interval DEF Clusters
    <2>3. WaitInv'
        BY <1>1, <2>1, <2>2 DEF GetAllLoadValues, WaitInv
    <2>. QED  BY <1>1, <2>3
              DEF GetAllLoadValues, CanSelect, SInv, SelectionOnJoinedLoads
<1>2. ASSUME NEW i \in Clusters, GetClusterLoad(i)
      PROVE  SInv'
    <2>1. phase = "fetching" /\ i \in Fetching
        BY <1>2 DEF GetClusterLoad, SInv, WaitInv, Fetching
    <2>2. Fetching' = Fetching \ {i}
        BY <1>2 DEF GetClusterLoad, SInv, Fetching
    <2>3. Cardinality(Fetching') = Cardinality(Fetching) - 1
        BY <2>1, <2>2, ClusterSetCard, FS_RemoveElement DEF Fetching
    <2>4. WaitInv'
        BY <1>2, <2>1, <2>3 DEF GetClusterLoad, SInv, WaitInv
    <2>. QED  BY <1>2, <2>1, <2>4 DEF GetClusterLoad, SInv, SelectionOnJoinedLoads
<1>3. CASE SelectLoadBased
    <2>1. \A i \in Clusters : fpc[i] = "done"
        BY <1>3, JoinedAllDone DEF SelectLoadBased
    <2>2. Fetching' = {}
        BY <1>3, <2>1 DEF SelectLoadBased, Fetching
    <2>. QED  BY <1>3, <2>1, <2>2, FS_EmptySet
              DEF SelectLoadBased, SInv, WaitInv, Joined, SelectionOnJoinedLoads
<1>4. CASE SelectProb
    <2>1. \A i \in Clusters : fpc[i] = "done"
        BY <1>4, JoinedAllDone DEF SelectProb
    <2>2. Fetching' = {}
        BY <1>4, <2>1 DEF SelectProb, Fetching
    <2>. QED  BY <1>4, <2>1, <2>2, FS_EmptySet
              DEF SelectProb, SInv, WaitInv, Joined, SelectionOnJoinedLoads
<1>5. CASE SelectRandom
    BY <1>5 DEF SelectRandom, CanSelect, SInv, WaitInv, Fetching,
               SelectionOnJoinedLoads
<1>6. CASE Finished \/ UNCHANGED vars
    BY <1>6 DEF Finished, vars, SInv, WaitInv, Fetching, SelectionOnJoinedLoads
<1>. QED  BY <1>1, <1>2, <1>3, <1>4, <1>5, <1>6 DEF Next

\* For every number of clusters: lv's WaitGroup counter always equals the
\* number of getClusterLoad goroutines that have not called lv.Done(), no
\* goroutine runs outside getAllLoadValues, and every load-based or
\* probabilistic decision was made on joined loads.
THEOREM SInvInvariant == Spec => []SInv
BY InitSInv, NextSInv, PTL DEF Spec

\* For every number of clusters: a load-based or probabilistic decision
\* is made on the load slice after every getClusterLoad goroutine of the
\* decision called lv.Done(), and the load-based one is minLoad of it.
THEOREM JoinedSelection == Spec => []SelectionOnJoinedLoads
<1>1. SInv => SelectionOnJoinedLoads
    BY DEF SInv
<1>. QED  BY <1>1, InitSInv, NextSInv, PTL DEF Spec
==============================================================================

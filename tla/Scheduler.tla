------------------------------ MODULE Scheduler ------------------------------
(***************************************************************************)
(* Cluster selection of cmd/uc/scheduler.go.  A scheduler of one of the    *)
(* three types makes up to MaxDecisions SelectCluster decisions.  The      *)
(* probabilistic and load-based ones first run getAllLoadValues: a fresh   *)
(* loadValues with a zeroed slot per configured cluster, WaitGroup.Add(N), *)
(* one goroutine getClusterLoad per cluster that fetches /drmsload and     *)
(* calls Done, and Wait; then they choose from the load slice.             *)
(***************************************************************************)
EXTENDS LoadSelection, FiniteSets

CONSTANTS
    N,               \* number of configured clusters, conf.Cluster[0..N-1]
    Loads,           \* the loads a reachable peer may report (1/Scale units)
    MaxDecisions,    \* bound on the number of SelectCluster calls
    SchedulerTypes   \* the SchedulerType values MakeNewScheduler may get

ASSUME SchedAssumption ==
    /\ N \in Nat
    /\ Loads \subseteq 0..Scale
    /\ MaxDecisions \in Nat
    /\ SchedulerTypes \subseteq {"prob", "rand", "load"}

Clusters == 1..N

\* What one fetch of cluster i returned: a decodable load, a body that
\* does not decode as a float, or an UberGet error (negative codes, so
\* that they never equal a load).
Garbage     == -1
Unreachable == -2
NoAnswer    == -3
Answers     == Loads \cup {Garbage, Unreachable, NoAnswer}

\* SelectCluster of ProbSched falls back to the cluster named "default";
\* NoChoice: no decision taken yet.
Default  == NoCluster
NoChoice == -1

VARIABLES
    schedType,   \* the SchedulerImpl's type, fixed by MakeNewScheduler
    phase,       \* the SelectCluster caller: idle, fetching, selected, panicked
    load,        \* lv.load
    wg,          \* the counter of lv's WaitGroup
    fpc,         \* per cluster: its getClusterLoad goroutine's progress
    answer,      \* per cluster: what its peer answered in this decision
    chosen,      \* the result of the last SelectCluster
    decisions    \* SelectCluster calls made so far

vars == <<schedType, phase, load, wg, fpc, answer, chosen, decisions>>

Init ==
    /\ schedType \in SchedulerTypes
    /\ phase = "idle"
    /\ load = [i \in Clusters |-> 0]
    /\ wg = 0
    /\ fpc = [i \in Clusters |-> "idle"]
    /\ answer = [i \in Clusters |-> NoAnswer]
    /\ chosen = NoChoice
    /\ decisions = 0

CanSelect == phase \in {"idle", "selected"} /\ decisions < MaxDecisions

\* Mutant: Add(len(conf.Cluster) + 1), one more than the goroutines.
GetAllLoadValuesAddOne ==
    /\ CanSelect
    /\ schedType \in {"prob", "load"}
    /\ phase' = "fetching"
    /\ load' = [i \in Clusters |-> 0]
    /\ wg' = N + 1
    /\ fpc' = [i \in Clusters |-> "running"]
    /\ answer' = [i \in Clusters |-> NoAnswer]
    /\ chosen' = NoChoice
    /\ UNCHANGED <<schedType, decisions>>

\* getAllLoadValues up to lv.Wait(): a zeroed slice, Add(len(conf.Cluster))
\* and one getClusterLoad goroutine per cluster.
GetAllLoadValues ==
    /\ CanSelect
    /\ schedType \in {"prob", "load"}
    /\ phase' = "fetching"
    /\ load' = [i \in Clusters |-> 0]
    /\ wg' = N
    /\ fpc' = [i \in Clusters |-> "running"]
    /\ answer' = [i \in Clusters |-> NoAnswer]
    /\ chosen' = NoChoice
    /\ UNCHANGED <<schedType, decisions>>

\* getClusterLoad(lv, i, ...): the slot is written only when decoding the
\* body fails (with the zero the failed Decode left in load); a decoded
\* load is only logged as an error.  Every path ends in lv.Done().
GetClusterLoad(i) ==
    /\ fpc[i] = "running"
    /\ \/ /\ answer' = [answer EXCEPT ![i] = Unreachable]
          /\ UNCHANGED load
       \/ \E l \in Loads :
          /\ answer' = [answer EXCEPT ![i] = l]
          /\ UNCHANGED load
       \/ /\ answer' = [answer EXCEPT ![i] = Garbage]
          /\ load' = [load EXCEPT ![i] = 0]
    /\ fpc' = [fpc EXCEPT ![i] = "done"]
    /\ wg' = wg - 1
    /\ UNCHANGED <<schedType, phase, chosen, decisions>>

\* Mutant: the wait returns one Done early (Add(len(conf.Cluster) - 1)).
JoinedEarly == wg <= 1

\* lv.Wait() returns once the counter is zero.
Joined == wg = 0

\* LoadBasedSched.SelectCluster: conf.Cluster[minLoad(load)].Name; with
\* no configured cluster minLoad returns 0 and the index panics.
SelectLoadBased ==
    /\ schedType = "load"
    /\ phase = "fetching"
    /\ Joined
    /\ IF N = 0
       THEN phase' = "panicked" /\ UNCHANGED chosen
       ELSE phase' = "selected" /\ chosen' = MinLoad(load)
    /\ decisions' = decisions + 1
    /\ UNCHANGED <<schedType, load, wg, fpc, answer>>

\* ProbSched.SelectCluster: probabilisticSelection, "default" when it
\* returns -1; rand.Int63n panics (the uc process dies) on a bound <= 0.
SelectProb ==
    /\ schedType = "prob"
    /\ phase = "fetching"
    /\ Joined
    /\ IF ProbPanics(load)
       THEN phase' = "panicked" /\ UNCHANGED chosen
       ELSE /\ phase' = "selected"
            /\ \E r \in ProbOutcomes(load) :
                  chosen' = IF r = NoCluster THEN Default ELSE r
    /\ decisions' = decisions + 1
    /\ UNCHANGED <<schedType, load, wg, fpc, answer>>

\* RandomSched.SelectCluster: rand.Intn(len(conf.Cluster)), no fetch;
\* rand.Intn panics when there is no cluster.
SelectRandom ==
    /\ schedType = "rand"
    /\ CanSelect
    /\ IF N = 0
       THEN phase' = "panicked" /\ UNCHANGED chosen
       ELSE phase' = "selected" /\ \E i \in Clusters : chosen' = i
    /\ decisions' = decisions + 1
    /\ UNCHANGED <<schedType, load, wg, fpc, answer>>

\* uc exits after its decisions.
Finished ==
    /\ phase = "selected"
    /\ decisions = MaxDecisions
    /\ UNCHANGED vars

Next ==
    \/ GetAllLoadValues
    \/ \E i \in Clusters : GetClusterLoad(i)
    \/ SelectLoadBased
    \/ SelectProb
    \/ SelectRandom
    \/ Finished

Spec == Init /\ [][Next]_vars /\ WF_vars(Next)

-----------------------------------------------------------------------------
TypeOK ==
    /\ schedType \in SchedulerTypes
    /\ phase \in {"idle", "fetching", "selected", "panicked"}
    /\ load \in [Clusters -> 0..Scale]
    /\ wg \in 0..N
    /\ fpc \in [Clusters -> {"idle", "running", "done"}]
    /\ answer \in [Clusters -> Answers]
    /\ chosen \in Clusters \cup {Default, NoChoice}
    /\ decisions \in 0..MaxDecisions

\* The WaitGroup join of getAllLoadValues: a load-based or probabilistic
\* decision is taken only after every cluster's getClusterLoad goroutine
\* has finished, so no fetch of this decision writes its slot afterwards,
\* and the load-based choice is minLoad of the complete slice.
SelectionOnJoinedLoads ==
    (phase = "selected" /\ schedType # "rand") =>
        /\ \A i \in Clusters : fpc[i] = "done"
        /\ schedType = "load" => chosen = MinLoad(load)

\* The spec (LoadBasedSched over loads [0.9, 0.1, 0.5] returns index 1):
\* the load-based scheduler picks a cluster whose reported load is the
\* least of all the loads the clusters reported in this decision.
LoadBasedPicksLeastLoaded ==
    (phase = "selected" /\ schedType = "load"
       /\ \E i \in Clusters : answer[i] \in Loads) =>
        /\ answer[chosen] \in Loads
        /\ \A i \in Clusters : answer[i] \in Loads => answer[chosen] <= answer[i]
==============================================================================

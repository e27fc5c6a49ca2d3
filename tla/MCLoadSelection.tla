--------------------------- MODULE MCLoadSelection ---------------------------
(***************************************************************************)
(* Checks the selection algorithms of LoadSelection over every load vector *)
(* of up to MaxClusters clusters whose loads are multiples of 1/Scale in   *)
(* [0, 1].  The state is the input vector; it never changes.               *)
(***************************************************************************)
EXTENDS LoadSelection, FiniteSets

CONSTANT MaxClusters

ASSUME MaxClustersAssumption == MaxClusters \in Nat \ {0}

VARIABLE loads

LoadVectors == UNION {[1..n -> 0..Scale] : n \in 1..MaxClusters}

Init == loads \in LoadVectors

Next == UNCHANGED loads

Spec == Init /\ [][Next]_loads


-----------------------------------------------------------------------------
(* Reference definitions.                                                  *)

\* The cluster the doc comment of minLoad promises: the lowest index among
\* the clusters with the least load.
RefMinLoad(ls) ==
    CHOOSE k \in 1..Len(ls) :
        /\ \A j \in 1..Len(ls) : ls[k] <= ls[j]
        /\ \A j \in 1..(k - 1) : ls[j] > ls[k]

\* A cluster can take a job when its reported load is below 1.0.
Available(ls, k) == ls[k] < Scale

-----------------------------------------------------------------------------
(* Properties.                                                             *)

\* LoadBasedSched picks, among equally loaded clusters, the first one
\* configured, and never a more loaded one (minLoad's strict comparison).
MinLoadIsFirstMinimum == MinLoad(loads) = RefMinLoad(loads)

\* probabilisticSelection only ever selects a cluster whose load is below
\* 1.0, and answers "no cluster" (the "default" fallback of SelectCluster)
\* exactly when no cluster is available.
SelectsOnlyAvailable ==
    ~ProbPanics(loads) =>
        \A r \in ProbOutcomes(loads) :
            /\ (r = NoCluster) <=> (\A k \in 1..Len(loads) : ~Available(loads, k))
            /\ r # NoCluster => Available(loads, r)

\* The number of the equally likely draws of rand.Int63n that select k.
Picks(ls, k) == Cardinality({d \in ProbDraws(ls) : ProbPick(ls, d) = k})

\* The doc comment of probabilisticSelection and the spec: a cluster's
\* chance is its share of the total weight, i.e. of the equally likely
\* draws the fraction Weight(load) / TotalWeight selects cluster k
\* (uniform loads: 1/n each).
ProbSelectionProportional ==
    TotalWeight(loads) > 0 /\ ~ProbPanics(loads) =>
        \A k \in 1..Len(loads) :
            Picks(loads, k) * TotalWeight(loads)
                = Weight(loads[k]) * Cardinality(ProbDraws(loads))
==============================================================================

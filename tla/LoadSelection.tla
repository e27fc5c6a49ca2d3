---------------------------- MODULE LoadSelection ----------------------------
(***************************************************************************)
(* The two cluster-selection algorithms of cmd/uc/scheduler.go, as pure    *)
(* operators over a load vector: probabilisticSelection and minLoad.       *)
(*                                                                         *)
(* A load is the float64 a cluster reports from /drmsload.  It is kept as  *)
(* an integer number of 1/Scale units, so the code's weight                *)
(* int64((1.0 - v) * 10000) becomes Scale - l (Scale stands for 10000).    *)
(* The Go slice index k is the model index k + 1; the code's "no cluster"  *)
(* result -1 is NoCluster (0).                                             *)
(***************************************************************************)
EXTENDS Integers, Sequences

CONSTANT Scale   \* the weight of a cluster reporting load 0

ASSUME ScaleAssumption == Scale \in Nat \ {0}

NoCluster == 0

\* int64((1.0 - v) * 10000): the incremental weight of a cluster.
Weight(l) == Scale - l

\* The likelyhood slice: likelyhood[k] = likelyhood[k-1] + weight of k.
Likelyhood(loads) ==
    LET cum[k \in 0..Len(loads)] ==
            IF k = 0 THEN 0 ELSE cum[k - 1] + Weight(loads[k])
    IN  [k \in 1..Len(loads) |-> cum[k]]

\* likelyhood[len(loads)-1], the total weight.
TotalWeight(loads) == Likelyhood(loads)[Len(loads)]

\* rand.Int63n(n) panics when n <= 0; the code calls it with total - 1.
ProbPanics(loads) ==
    /\ Len(loads) > 0
    /\ TotalWeight(loads) > 0
    /\ TotalWeight(loads) - 1 <= 0

\* The values rand.Int63n(total - 1) can return: [0, total - 1).
ProbDraws(loads) == 0..(TotalWeight(loads) - 2)

\* Mutant: the loop tests likelyhood[k] >= selection.
ProbPickGe(loads, draw) ==
    LET L    == Likelyhood(loads)
        Over == {k \in 1..Len(loads) : L[k] >= draw}
    IN  IF Over = {} THEN NoCluster
        ELSE CHOOSE k \in Over : \A j \in Over : k <= j

\* The final loop: the first k whose cumulative weight exceeds the draw.
ProbPick(loads, draw) ==
    LET L    == Likelyhood(loads)
        Over == {k \in 1..Len(loads) : L[k] > draw}
    IN  IF Over = {} THEN NoCluster
        ELSE CHOOSE k \in Over : \A j \in Over : k <= j

\* Every result probabilisticSelection can return for this load vector
\* (only meaningful when it does not panic).
ProbOutcomes(loads) ==
    IF Len(loads) <= 0 \/ TotalWeight(loads) <= 0 THEN {NoCluster}
    ELSE {ProbPick(loads, d) : d \in ProbDraws(loads)}

\* minLoad: the scan keeps <<min, index>>; min starts at math.MaxFloat64
\* (above every load, here Scale + 1) and index at the first cluster.
\* Mutant: minLoad compares v <= min.
MinLoadStepLe(acc, k, v) ==
    IF v <= acc.min THEN [min |-> v, index |-> k] ELSE acc

MinLoadStep(acc, k, v) ==
    IF v < acc.min THEN [min |-> v, index |-> k] ELSE acc

MinLoad(loads) ==
    LET scan[k \in 0..Len(loads)] ==
            IF k = 0 THEN [min |-> Scale + 1, index |-> 1]
            ELSE MinLoadStep(scan[k - 1], k, loads[k])
    IN  scan[Len(loads)].index
==============================================================================

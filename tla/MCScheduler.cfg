\* Two decisions of every scheduler type on three clusters.  SInv is the
\* inductive invariant of the SchedulerProofs theorems.
CONSTANTS
    Scale = 4
    N = 3
    Loads = {1, 3}
    MaxDecisions = 2
    SchedulerTypes = {"prob", "rand", "load"}
SPECIFICATION Spec
INVARIANTS
    TypeOK
    SelectionOnJoinedLoads
    SInv

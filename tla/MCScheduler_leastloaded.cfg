CONSTANTS
    Scale = 4
    N = 3
    Loads = {1, 3}
    MaxDecisions = 1
    SchedulerTypes = {"load"}
SPECIFICATION Spec
INVARIANT LoadBasedPicksLeastLoaded

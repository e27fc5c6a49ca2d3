CONSTANTS
    Scale = 4
    MaxClusters = 3
SPECIFICATION Spec
INVARIANT ProbSelectionProportional

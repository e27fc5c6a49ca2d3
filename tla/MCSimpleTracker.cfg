\* Two concurrent StartProcess calls, two variable names, two values.
\* TInv is the inductive invariant of the TrackerProofs theorems.
CONSTANTS
    Callers = {p1, p2}
    Keys = {k1, k2}
    Vals = {v1, v2}
    Absent = Absent
    NoChild = NoChild
SPECIFICATION Spec
INVARIANTS
    TypeOK
    OverlayApplied
    TInv

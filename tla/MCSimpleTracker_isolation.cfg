CONSTANTS
    Callers = {p1, p2}
    Keys = {k1, k2}
    Vals = {v1, v2}
    Absent = Absent
    NoChild = NoChild
SPECIFICATION Spec
SYMMETRY Symmetry
INVARIANT
    ChildEnvIsolated

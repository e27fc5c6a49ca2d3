--------------------------- MODULE MCSimpleTracker ---------------------------
EXTENDS SimpleTracker, TLC

\* Callers, variable names and values are only compared for equality.
Symmetry == Permutations(Callers) \cup Permutations(Keys) \cup Permutations(Vals)
==============================================================================

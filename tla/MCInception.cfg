\* One call of GetJobInfosByFilter on three peers.  It ends when it
\* returns; FanOutReturns replaces deadlock checking.  IInv is the
\* inductive invariant of the proofs, checked here before it was proved.
CONSTANTS
    N = 3
    SelfPeers = {}
SPECIFICATION Spec
CHECK_DEADLOCK FALSE
INVARIANTS
    TypeOK
    MergeComplete
    IInv
PROPERTIES
    FanOutReturns
    ImplementsAggregateRead
    AppendOnly

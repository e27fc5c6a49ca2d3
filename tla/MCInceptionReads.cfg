\* Four configured clusters, none at the inception's own address, each of
\* which may fail to resolve, fail to answer, or answer.  A call ends
\* (returned or panicked), so deadlock is not checked.
CONSTANTS
    N = 4
    SelfPeers = {}
SPECIFICATION Spec
INVARIANT TypeOK
PROPERTY ReadsSafe
CHECK_DEADLOCK FALSE

CONSTANTS
    N = 2
    SelfPeers = {2}
SPECIFICATION Spec
CHECK_DEADLOCK FALSE
INVARIANT NoSelfRequest

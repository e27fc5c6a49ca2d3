\* One call of an aggregate read over three clusters: does it always
\* return the merge of the answering clusters?
CONSTANTS
    N = 3
    SelfPeers = {}
SPECIFICATION Spec
PROPERTY ImplementsAggregateRead
CHECK_DEADLOCK FALSE

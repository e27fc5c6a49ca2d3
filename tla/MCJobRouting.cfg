\* Two cluster names, configurations of up to 2 clusters (repeated names
\* and empty addresses included), identifiers of up to 4 symbols.
CONSTANTS
    Names = {"a", "default"}
    Hosts = {"h1", "h2"}
    MaxClusters = 2
    MaxIdLen = 4
SPECIFICATION Spec
INVARIANT
    RoutingAsSpecified
CHECK_DEADLOCK FALSE

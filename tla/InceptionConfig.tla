--------------------------- MODULE InceptionConfig ---------------------------
(***************************************************************************)
(* The configuration every Inception operation iterates over: the         *)
(* configured clusters i.config.Cluster, their addresses, and the          *)
(* inception's own address i.inceptionAddress with the self-reference      *)
(* guard of GetJobInfosByFilter, GetAllMachines, GetAllQueues and          *)
(* GetAllCategories.  Addresses are strings kept as sequences of tokens:   *)
(* peer c is reached at <<c>>, the inception listens at <<0>>, "" is <<>>. *)
(***************************************************************************)
EXTENDS Integers, Sequences

CONSTANTS
    N,          \* number of configured clusters
    SelfPeers   \* the configured clusters whose address is the inception's

ASSUME InceptionAssumption ==
    /\ N \in Nat \ {0}
    /\ SelfPeers \subseteq 1..N

Peers == 1..N

\* Configured address of cluster c (config.Cluster[c].Address).
Address(c) == IF c \in SelfPeers THEN <<0>> ELSE <<c>>

\* fmt.Sprintf("%s/", c.Address)
WithSlash(a) == a \o <<"/">>

\* i.inceptionAddress: NewInception never assigns it, so it keeps "".
InceptionAddress == <<>>

\* The guard of the loop: the cluster is this inception itself.
IsOwnAddress(c) == WithSlash(Address(c)) = InceptionAddress
==============================================================================

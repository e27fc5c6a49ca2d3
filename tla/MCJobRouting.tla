----------------------------- MODULE MCJobRouting -----------------------------
(***************************************************************************)
(* Checks GetJobInfo's routing against the identifier grammar of the      *)
(* spec (§8): "42@clusterA" routes to clusterA with job id "42", "42"     *)
(* routes to the default cluster, "42@a@b" is a malformed identifier.     *)
(* Every configuration of up to MaxClusters clusters (names may repeat,   *)
(* addresses may be empty) and every id of up to MaxIdLen symbols.        *)
(***************************************************************************)
EXTENDS JobRouting, FiniteSets

\* The reading of an identifier that is not of the form id or id@cluster.
Malformed == [malformed |-> TRUE]

\* The positions of the separators of an identifier.
Ats(id) == {i \in 1..Len(id) : id[i] = "@"}

\* The spec's reading of an identifier: the cluster and the job id, or
\* Malformed when it has more than one "@".
RefRoute(id) ==
    CASE Ats(id) = {} -> [cluster |-> <<"default">>, job |-> id]
      [] Cardinality(Ats(id)) = 1 ->
           LET i == CHOOSE i \in Ats(id) : TRUE
           IN  [cluster |-> SubSeq(id, i + 1, Len(id)),
                job |-> SubSeq(id, 1, i - 1)]
      [] OTHER -> Malformed

\* The cluster configured under a name: the first one of that name.
RefCluster(cn) ==
    {k \in 1..Len(cfg) : cfg[k].name = cn /\ \A j \in 1..k-1 : cfg[j].name # cn}

\* GetJobInfo sends a request exactly when the id is well formed and the
\* first cluster of the name it designates has an address, and then asks
\* that cluster, at its address and protocol version, for the job id of
\* the identifier; a returned job always comes from that request.
RoutingAsSpecified ==
    pc # "start" =>
      LET r == RefRoute(jobid) IN
      /\ (url # <<>>) <=> (r # Malformed /\ \E k \in RefCluster(r.cluster) :
                                               cfg[k].address # <<>>)
      /\ url # <<>> =>
           \E k \in RefCluster(r.cluster) :
              /\ url = cfg[k].address \o cfg[k].version
              /\ reqid = r.job
      /\ reply = "job" => url # <<>>
==============================================================================

------------------------------ MODULE JobRouting ------------------------------
(***************************************************************************)
(* One call of Inception.GetJobInfo(jobid) with getJobFromCluster: route   *)
(* "jobid@cluster" to the named cluster, a plain "jobid" to the cluster    *)
(* named "default", log and drop an id with more than one "@"; look the    *)
(* cluster up in i.config.Cluster (first match, break), request           *)
(* address+version from it, and return the job or nil.                    *)
(*                                                                         *)
(* Data: strings are sequences of symbols.  "@" is the separator; every   *)
(* other symbol stands for a run of characters without "@" (a cluster     *)
(* name of Names, or the job number "42").  A configured address is      *)
(* <<>> ("") or <<h>> for a host h of Hosts.                              *)
(***************************************************************************)
EXTENDS Integers, SequencesExt

CONSTANTS
    Names,       \* cluster names, "default" among them
    Hosts,       \* cluster addresses other than ""
    MaxClusters, \* the longest configuration
    MaxIdLen     \* the longest job identifier

ASSUME RoutingAssumption ==
    /\ "default" \in Names
    /\ "@" \notin Names \cup Hosts
    /\ MaxClusters \in Nat /\ MaxIdLen \in Nat

Symbols == Names \cup {"@", "42"}

\* A cluster record of the configuration: Name, Address, ProtocolVersion.
ClusterRecords ==
    [name : {<<n>> : n \in Names},
     address : {<<>>} \cup {<<h>> : h \in Hosts},
     version : {<<"v1">>}]

VARIABLES
    cfg,    \* i.config.Cluster
    jobid,  \* the argument of GetJobInfo
    pc,     \* "start", "request" (GetJob in flight), "returned"
    url,    \* the request address+version, <<>> while none is made
    reqid,  \* the job id sent with the request
    reply,  \* what GetJobInfo returns: "job" or "nil"
    err     \* the error of the call: "none", "unknown", "peer", "malformed"

vars == <<cfg, jobid, pc, url, reqid, reply, err>>

\* strings.Split(s, "@"): a new part at every separator.
Split(s) ==
    LET step(parts, x) ==
          IF x = "@" THEN Append(parts, <<>>)
          ELSE [parts EXCEPT ![Len(parts)] = Append(@, x)]
    IN  FoldLeft(step, << <<>> >>, s)

Init ==
    /\ cfg \in BoundedSeq(ClusterRecords, MaxClusters)
    /\ jobid \in BoundedSeq(Symbols, MaxIdLen)
    /\ pc = "start"
    /\ url = <<>>
    /\ reqid = <<>>
    /\ reply = "nil"
    /\ err = "none"

\* Mutant: the lookup loop without its break (the last match wins).
LastMatch(cn) ==
    LET ks == {k \in 1..Len(cfg) : cfg[k].name = cn}
    IN  IF ks = {} THEN 0 ELSE Max(ks)

\* The loop over i.config.Cluster that stops at the first cluster whose
\* Name equals clustername.
FirstMatch(cn) == SelectInSeq(cfg, LAMBDA c : c.name = cn)

\* getJobFromCluster: with a non-empty address the request is sent;
\* otherwise "Couldn't find clustername in config".
GetJobFromCluster(cn, jid) ==
    LET k == FirstMatch(cn)
        address == IF k = 0 THEN <<>> ELSE cfg[k].address
    IN  IF address # <<>>
        THEN /\ pc' = "request"
             /\ url' = address \o cfg[k].version
             /\ reqid' = jid
             /\ UNCHANGED <<reply, err>>
        ELSE /\ pc' = "returned"
             /\ reply' = "nil"
             /\ err' = "unknown"
             /\ UNCHANGED <<url, reqid>>

\* Mutant: any id with an "@" and at least two parts is routed.
GetJobInfoLoose ==
    /\ pc = "start"
    /\ LET parts == Split(jobid) IN
       IF Contains(jobid, "@")
       THEN IF Len(parts) >= 2
            THEN GetJobFromCluster(parts[2], parts[1])
            ELSE /\ pc' = "returned"
                 /\ UNCHANGED <<url, reqid, reply, err>>
       ELSE GetJobFromCluster(<<"default">>, jobid)
    /\ UNCHANGED <<cfg, jobid>>

\* GetJobInfo: "id@cluster" goes to cluster, "id" to "default"; any other
\* id containing "@" is logged and nil returned, with no error.
GetJobInfo ==
    /\ pc = "start"
    /\ LET parts == Split(jobid) IN
       IF Contains(jobid, "@")
       THEN IF Len(parts) = 2
            THEN GetJobFromCluster(parts[2], parts[1])
            ELSE /\ pc' = "returned"
                 /\ UNCHANGED <<url, reqid, reply, err>>
       ELSE GetJobFromCluster(<<"default">>, jobid)
    /\ UNCHANGED <<cfg, jobid>>

\* i.request.GetJob(request, jobid): the job, or the request's error;
\* GetJobInfo drops the error and returns the job pointer.
GetJob ==
    /\ pc = "request"
    /\ \E ok \in BOOLEAN :
         /\ reply' = IF ok THEN "job" ELSE "nil"
         /\ err' = IF ok THEN "none" ELSE "peer"
    /\ pc' = "returned"
    /\ UNCHANGED <<cfg, jobid, url, reqid>>

Next == GetJobInfo \/ GetJob

\* A call ends; deadlock is not checked.
Spec == Init /\ [][Next]_vars
==============================================================================

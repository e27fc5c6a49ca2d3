---------------------------- MODULE AggregateRead ----------------------------
(***************************************************************************)
(* What a read-aggregation call of the inception proxy promises (the       *)
(* broker contract of GetJobInfosByFilter, GetAllMachines, GetAllQueues,   *)
(* GetAllCategories): every configured peer except the ones at the         *)
(* proxy's own address is asked once, each answers with its partial        *)
(* result or fails, and the call returns the concatenation of the          *)
(* successful partial results, each exactly once, and nothing of a peer    *)
(* that failed.  Peer c's partial result is the token c.                   *)
(***************************************************************************)
EXTENDS Integers, Sequences, FiniteSets

CONSTANTS
    Peers,  \* the configured clusters
    Own     \* the configured clusters at the proxy's own address

VARIABLES
    ares,   \* per peer: "none" (not answered), "nil" (failed), "ok"
    astate, \* "running" or "returned"
    aout    \* the returned concatenation of partial results

avars == <<ares, astate, aout>>

\* The elements of a sequence, and that none occurs twice.
Elems(s) == {s[i] : i \in 1..Len(s)}
NoDup(s) == \A i, j \in 1..Len(s) : s[i] = s[j] => i = j

\* The sequences that hold every element of the finite set S once.
Arrangements(S) == {s \in [1..Cardinality(S) -> S] : NoDup(s)}

AInit ==
    /\ ares = [c \in Peers |-> "none"]
    /\ astate = "running"
    /\ aout = <<>>

\* A peer other than the proxy itself answers, with a result or a failure.
Answer(c) ==
    /\ astate = "running"
    /\ c \notin Own
    /\ ares[c] = "none"
    /\ \E r \in {"nil", "ok"} : ares' = [ares EXCEPT ![c] = r]
    /\ UNCHANGED <<astate, aout>>

\* Once every peer that is asked has answered, the call returns the
\* successful partial results, in some order, each once.
Return ==
    /\ astate = "running"
    /\ \A c \in Peers \ Own : ares[c] # "none"
    /\ astate' = "returned"
    /\ aout' \in Arrangements({c \in Peers : ares[c] = "ok"})
    /\ UNCHANGED ares

ANext == Return \/ \E c \in Peers : Answer(c)

\* Only safety: the proxy never returns a wrong merge.
SafeSpec == AInit /\ [][ANext]_avars

\* And the call returns: peers answer, the proxy does not hang or abort.
ASpec == SafeSpec /\ WF_avars(ANext)
==============================================================================

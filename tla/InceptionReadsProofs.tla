------------------------- MODULE InceptionReadsProofs -------------------------
(***************************************************************************)
(* Proofs about one call of GetAllMachines, GetAllQueues or               *)
(* GetAllCategories (InceptionReads.tla), for every number N of configured *)
(* clusters: the call never returns a wrong merge.                         *)
(*                                                                         *)
(* The refinement needs the merge invariant RInv in every state, not only  *)
(* in the returned one: the clusters answered are exactly those the loop   *)
(* has passed, and the slice holds each cluster that answered "ok" once.   *)
(***************************************************************************)
EXTENDS InceptionReads, FiniteSetTheorems, TLAPS

\* The clusters whose partial result was appended.
Ok == {c \in Peers : res[c] = "ok"}

RInv ==
    /\ TypeOK
    /\ \A c \in Peers : res[c] = "none" <=> c >= idx
    /\ pc = "returned" => idx = N + 1
    /\ AR!NoDup(all)
    /\ AR!Elems(all) = Ok

\* No configured cluster is ever at the inception's own address: its
\* address with a "/" appended is never the empty inceptionAddress.
LEMMA NeverOwn == \A c \in Peers : ~IsOwnAddress(c)
BY DEF IsOwnAddress, InceptionAddress, WithSlash, Address

\* Appending a new element to a sequence without duplicates (the
\* append(allmachines, ms...) of the loop).
LEMMA AppendFresh ==
    ASSUME NEW S, NEW s \in Seq(S), NEW x \in S,
           AR!NoDup(s), x \notin AR!Elems(s)
    PROVE  /\ Append(s, x) \in Seq(S)
           /\ AR!NoDup(Append(s, x))
           /\ AR!Elems(Append(s, x)) = AR!Elems(s) \cup {x}
<1>. DEFINE t == Append(s, x)
<1>1. /\ t \in Seq(S)
      /\ Len(t) = Len(s) + 1
      /\ \A i \in 1..Len(s) : t[i] = s[i]
      /\ t[Len(s) + 1] = x
    OBVIOUS
<1>2. AR!NoDup(t)
    BY <1>1 DEF AR!NoDup, AR!Elems
<1>3. AR!Elems(t) = AR!Elems(s) \cup {x}
    BY <1>1 DEF AR!Elems
<1>. QED  BY <1>1, <1>2, <1>3

\* A sequence without duplicates is an arrangement of its elements.
LEMMA Arranged ==
    ASSUME NEW S, NEW s \in Seq(S), AR!NoDup(s)
    PROVE  s \in AR!Arrangements(AR!Elems(s))
<1>1. s \in Bijection(1..Len(s), AR!Elems(s))
    BY DEF Bijection, Injection, Surjection, IsInjective, AR!NoDup, AR!Elems
<1>2. IsFiniteSet(1..Len(s)) /\ Cardinality(1..Len(s)) = Len(s)
    <2>1. Len(s) \in Nat
        OBVIOUS
    <2>. QED  BY <2>1, FS_Interval
<1>3. Cardinality(AR!Elems(s)) = Len(s)
    BY <1>1, <1>2, FS_Bijection DEF ExistsBijection
<1>4. s \in [1..Len(s) -> AR!Elems(s)]
    BY DEF AR!Elems
<1>5. AR!Cardinality(AR!Elems(s)) = Cardinality(AR!Elems(s))
    BY DEF AR!Cardinality, Cardinality
<1>. QED  BY <1>3, <1>4, <1>5 DEF AR!Arrangements

LEMMA InitRInv == Init => RInv
BY InceptionAssumption DEF Init, RInv, TypeOK, Ok, Peers, AR!NoDup, AR!Elems

\* One iteration of any of the three loops: skip, panic, or a fetch.
LEMMA VisitRInv ==
    ASSUME RInv, NEW ok \in SUBSET {"nil", "ok"}, Visit(ok)
    PROVE  RInv'
<1>. USE InceptionAssumption DEF Peers
<1>1. pc = "loop" /\ idx \in 1..N /\ ~IsOwnAddress(idx)
    BY NeverOwn DEF Visit, RInv, TypeOK
<1>2. CASE AddressFails
    BY <1>1, <1>2 DEF AddressFails, RInv, TypeOK, Ok
<1>3. CASE Fetched(ok)
    <2>1. PICK r \in ok : /\ res' = [res EXCEPT ![idx] = r]
                          /\ all' = IF r = "ok" THEN Append(all, idx) ELSE all
        BY <1>3 DEF Fetched
    <2>2. idx' = idx + 1 /\ UNCHANGED <<op, pc>>
        BY <1>3 DEF Fetched
    <2>3. res[idx] = "none" /\ idx \notin AR!Elems(all)
        BY <1>1 DEF RInv, Ok
    <2>4. Ok' = IF r = "ok" THEN Ok \cup {idx} ELSE Ok
        BY <1>1, <2>1, <2>3 DEF Ok, RInv, TypeOK
    <2>5. /\ all' \in Seq(Peers)
          /\ AR!NoDup(all')
          /\ AR!Elems(all') = Ok'
        <3>1. CASE r = "ok"
            BY <1>1, <2>1, <2>3, <2>4, <3>1, AppendFresh DEF RInv, TypeOK
        <3>2. CASE r # "ok"
            BY <2>1, <2>4, <3>2 DEF RInv, TypeOK
        <3>. QED  BY <3>1, <3>2
    <2>6. res' \in [Peers -> {"none", "nil", "ok"}]
          /\ \A c \in Peers : res'[c] = "none" <=> c >= idx'
        BY <1>1, <2>1, <2>2 DEF RInv, TypeOK
    <2>. QED  BY <1>1, <2>2, <2>5, <2>6 DEF RInv, TypeOK
<1>. QED  BY <1>1, <1>2, <1>3 DEF Visit

LEMMA NextRInv == RInv /\ [Next]_vars => RInv'
<1>. SUFFICES ASSUME RInv, [Next]_vars PROVE RInv'
    OBVIOUS
<1>1. CASE GetAllMachines \/ GetAllQueues \/ GetAllCategories
    BY <1>1, VisitRInv DEF GetAllMachines, GetAllQueues, GetAllCategories
<1>2. CASE ReturnAll
    BY <1>2 DEF ReturnAll, RInv, TypeOK, Ok
<1>3. CASE UNCHANGED vars
    BY <1>3 DEF vars, RInv, TypeOK, Ok
<1>. QED  BY <1>1, <1>2, <1>3 DEF Next

\* For every N: the loop index of GetAllMachines / GetAllQueues /
\* GetAllCategories stays within 1..N+1 (config.Cluster is never indexed
\* out of range) and the aggregate holds only configured clusters.
THEOREM ReadsTypeCorrect == Spec => []TypeOK
<1>1. RInv => TypeOK
    BY DEF RInv
<1>. QED  BY <1>1, InitRInv, NextRInv, PTL DEF Spec

\* The loop's safety half (ReadsSafe): for every N, when no configured
\* cluster is at the inception's own address, every behaviour of
\* GetAllMachines / GetAllQueues / GetAllCategories, log.Panicln included,
\* is a behaviour of the aggregate read: a returned slice is always an
\* arrangement of the partial results of the clusters that answered.
THEOREM ReadsRefineSafely == SelfPeers = {} => (Spec => ReadsSafe)
<1>. SUFFICES ASSUME SelfPeers = {} PROVE Spec => AR!SafeSpec
    BY DEF ReadsSafe
<1>1. Init => AR!AInit
    BY DEF Init, AR!AInit
<1>2. RInv /\ [Next]_vars => [AR!ANext]_AR!avars
    <2>. SUFFICES ASSUME RInv, [Next]_vars PROVE [AR!ANext]_AR!avars
        OBVIOUS
    <2>. USE InceptionAssumption DEF Peers
    <2>1. ASSUME NEW ok \in SUBSET {"nil", "ok"}, Visit(ok)
          PROVE  [AR!ANext]_AR!avars
        <3>1. pc = "loop" /\ idx \in 1..N
            BY <2>1 DEF Visit, RInv, TypeOK
        <3>2. CASE AddressFails
            BY <3>1, <3>2 DEF AddressFails, AR!avars
        <3>3. CASE Fetched(ok)
            <4>1. PICK r \in ok : /\ res' = [res EXCEPT ![idx] = r]
                                  /\ UNCHANGED <<pc>>
                BY <3>3 DEF Fetched
            <4>2. res[idx] = "none"
                BY <3>1 DEF RInv
            <4>. QED  BY <3>1, <4>1, <4>2 DEF AR!ANext, AR!Answer
        <3>. QED  BY <2>1, <3>1, <3>2, <3>3, NeverOwn DEF Visit
    <2>2. CASE ReturnAll
        <3>1. \A c \in Peers : res[c] # "none"
            BY <2>2 DEF ReturnAll, RInv
        <3>2. all \in AR!Arrangements(Ok)
            BY Arranged DEF RInv, TypeOK
        <3>. QED  BY <2>2, <3>1, <3>2 DEF ReturnAll, Ok, AR!ANext, AR!Return
    <2>3. CASE UNCHANGED vars
        BY <2>3 DEF vars, AR!avars
    <2>. QED  BY <2>1, <2>2, <2>3 DEF Next, GetAllMachines, GetAllQueues,
                                      GetAllCategories
<1>. QED  BY <1>1, <1>2, InitRInv, NextRInv, PTL DEF Spec, AR!SafeSpec
==============================================================================

------------------------- MODULE DelegateVoteProofs -------------------------
(***************************************************************************)
(* Proofs about DelegateVote, for any number of nodes, candidates, weights *)
(* and restarts: its type invariant, that a complete collection dominates  *)
(* every other one, that publications of a majority of the weight complete *)
(* a collection, and that the proof in a completed block verifies.         *)
(*                                                                         *)
(* The second needs an inductive invariant that says where the open shares *)
(* come from.  The argument is then quorum intersection: two sets of       *)
(* nThresh shares out of nTotal have an index in common, its owner         *)
(* published once, and both nodes collected that publication.  The third   *)
(* counts the open shares, and the last replays the collection.            *)
(***************************************************************************)
EXTENDS DelegateVote, CountingFacts

-----------------------------------------------------------------------------
(* Facts about the operators.                                              *)

\* nLastIndex is the function its definition says.
LEMMA LastIndexDef ==
  /\ nLastIndex \in [0..Len(vCandidate) -> Nat \ {0}]
  /\ nLastIndex[0] = 1
  /\ \A k \in 1..Len(vCandidate) : nLastIndex[k] = nLastIndex[k - 1] + Weight[vCandidate[k]]
  <1> DEFINE L == Len(vCandidate)
             V == Nat \ {0}
             W(k) == Weight[vCandidate[k]]
             Defines(f) == f = [k \in 0..L |-> IF k = 0 THEN 1 ELSE f[k - 1] + W(k)]
  <1>1. L \in Nat /\ \A k \in 1..L : W(k) \in Nat \ {0}
    BY ConstantsAssumption, SeqFunction, SeqElement, Zenon
  <1> HIDE DEF L, W
  <1> DEFINE step == [k \in 1..L |-> [v \in V |-> v + W(k)]]
  <1>2. 1 \in V /\ step \in [1..L -> [V -> V]]
    BY <1>1
  <1>3. PICK g \in [0..L -> V] : Recursive(g, L, 1, step)
    <2> HIDE DEF step, V
    <2> QED
      BY <1>1, <1>2, RecursionExists, Zenon
  <1>4. g[0] = 1 /\ \A k \in 1..L : g[k - 1] \in V /\ g[k] = g[k - 1] + W(k)
    <2>1. \A k \in 1..L : k - 1 \in 0..L
      BY <1>1
    <2> HIDE DEF V
    <2>2. \A k \in 1..L, v \in V : step[k][v] = v + W(k)
      BY Zenon
    <2> HIDE DEF step
    <2> QED
      BY <1>3, <2>1, <2>2, Zenon DEF Recursive
  <1>5. Defines(g)
    BY <1>1, <1>3, <1>4
  <1>6. nLastIndex = CHOOSE f : Defines(f)
    BY Zenon DEF nLastIndex, L, W
  <1>7. Defines(nLastIndex)
    <2> HIDE DEF Defines
    <2> QED
      BY <1>5, <1>6, Zenon
  <1>8. /\ DOMAIN nLastIndex = 0..L /\ nLastIndex[0] = 1
        /\ \A k \in 1..L : nLastIndex[k] = nLastIndex[k - 1] + W(k)
    BY <1>1, <1>7
  <1>9. \A k \in 0..L : g[k] = nLastIndex[k]
    <2>1. Follows(nLastIndex, L, V, 1, step)
      BY <1>8, Zenon DEF Follows
    <2> HIDE DEF step, V
    <2> QED
      BY <1>1, <1>3, <2>1, RecursionUnique
  <1>10. nLastIndex \in [0..L -> V]
    BY <1>7, <1>9, Zenon
  <1> QED
    BY <1>8, <1>10, Zenon DEF L, W

\* The index ranges follow each other.
LEMMA LastIndexGrows ==
  ASSUME NEW k \in 0..Len(vCandidate), NEW l \in 0..Len(vCandidate), k <= l
  PROVE  nLastIndex[k] <= nLastIndex[l]
  <1> DEFINE L == Len(vCandidate)
             W(i) == Weight[vCandidate[i]]
             Bad == {m \in k..L : ~(nLastIndex[k] <= nLastIndex[m])}
  <1>1. /\ L \in Nat /\ \A i \in 1..L : W(i) \in Nat \ {0}
        /\ \A i \in 0..L : nLastIndex[i] \in Nat \ {0}
        /\ \A i \in 1..L : nLastIndex[i] = nLastIndex[i - 1] + W(i)
    BY ConstantsAssumption, SeqFunction, SeqElement, LastIndexDef, Zenon
  <1> HIDE DEF L, W
  <1>2. k \in 0..L /\ l \in k..L
    BY DEF L
  <1>3. CASE Bad # {}
    <2>1. PICK m \in Bad : \A n \in Bad : m <= n
      <3>1. Bad \subseteq Nat
        BY <1>1, <1>2
      <3> QED
        BY <1>3, <3>1, LeastNatural, Zenon
    <2>2. m \in k..L /\ m # k
      BY <1>1, <1>2
    <2>3. m - 1 \in k..L /\ m \in 1..L /\ ~(m <= m - 1)
      BY <1>1, <1>2, <2>2
    <2>4. nLastIndex[k] <= nLastIndex[m - 1]
      BY <2>1, <2>3, Zenon
    <2>5. /\ nLastIndex[m] = nLastIndex[m - 1] + W(m) /\ W(m) \in Nat
          /\ nLastIndex[k] \in Nat /\ nLastIndex[m - 1] \in Nat
      BY <1>1, <1>2, <2>3
    <2> QED
      BY <2>4, <2>5
  <1> QED
    BY <1>2, <1>3, Zenon

\* What Enroll's loop computes: the candidates' index ranges lie in 1..nTotal
\* and do not overlap.
LEMMA EnrollIndices ==
  /\ nTotal \in Nat
  /\ \A d \in Delegate : nIndex[d] \in Nat /\ ShareRange[d] \subseteq 1..nTotal
  /\ \A d, e \in Delegate : d # e => ShareRange[d] \cap ShareRange[e] = {}
  <1> DEFINE L == Len(vCandidate)
             Pos(d) == CHOOSE k \in DOMAIN vCandidate : vCandidate[k] = d
  <1>1. /\ L \in Nat /\ DOMAIN vCandidate = 1..L
        /\ \A i \in 0..L : nLastIndex[i] \in Nat \ {0}
        /\ nLastIndex[0] = 1
        /\ \A i \in 1..L : nLastIndex[i] = nLastIndex[i - 1] + Weight[vCandidate[i]]
    BY ConstantsAssumption, SeqFunction, LastIndexDef, Zenon
  <1>2. \A d \in Delegate : Pos(d) \in 1..L /\ vCandidate[Pos(d)] = d
    BY <1>1, Zenon DEF Delegate, Range
  <1>3. \A d \in Delegate : nIndex[d] = nLastIndex[Pos(d) - 1]
    BY Zenon DEF nIndex
  <1> HIDE DEF L, Pos
  <1>4. nTotal = nLastIndex[L] - 1 /\ nTotal \in Nat
    BY <1>1 DEF nTotal, L
  <1>5. \A d \in Delegate : /\ Pos(d) \in 0..L /\ Pos(d) - 1 \in 0..L
                            /\ nIndex[d] \in Nat \ {0}
                            /\ ShareRange[d] = nLastIndex[Pos(d) - 1]..nLastIndex[Pos(d)] - 1
    <2> SUFFICES ASSUME NEW d \in Delegate
                 PROVE  /\ Pos(d) \in 0..L /\ Pos(d) - 1 \in 0..L
                        /\ nIndex[d] \in Nat \ {0}
                        /\ ShareRange[d] = nLastIndex[Pos(d) - 1]..nLastIndex[Pos(d)] - 1
      BY Zenon
    <2>1. Pos(d) \in 0..L /\ Pos(d) - 1 \in 0..L /\ Pos(d) \in 1..L
      BY <1>1, <1>2
    <2>2. nLastIndex[Pos(d)] = nIndex[d] + Weight[d]
      BY <1>1, <1>2, <1>3, <2>1, Zenon
    <2>3. ShareRange[d] = nIndex[d]..nIndex[d] + Weight[d] - 1
      BY Zenon DEF ShareRange
    <2> QED
      <3>1. nLastIndex[Pos(d) - 1] \in Nat \ {0}
        BY <1>1, <2>1, Zenon
      <3>2. ShareRange[d] = nIndex[d]..nLastIndex[Pos(d)] - 1
        <4>1. nIndex[d] \in Nat /\ Weight[d] \in Nat
          BY <1>3, <3>1, ConstantsAssumption, Zenon
        <4> QED
          BY <2>2, <2>3, <4>1
      <3>3. nIndex[d] = nLastIndex[Pos(d) - 1]
        BY <1>3, Zenon
      <3>4. ShareRange[d] = nLastIndex[Pos(d) - 1]..nLastIndex[Pos(d)] - 1
        BY <3>2, <3>3, Zenon
      <3> QED
        BY <2>1, <3>1, <3>3, <3>4, Zenon
  <1>6. \A d \in Delegate : ShareRange[d] \subseteq 1..nTotal
    <2> SUFFICES ASSUME NEW d \in Delegate PROVE ShareRange[d] \subseteq 1..nTotal
      BY Zenon
    <2>1. nLastIndex[Pos(d)] <= nLastIndex[L]
      <3>1. Pos(d) <= L /\ L \in 0..L
        BY <1>1, <1>5
      <3> QED
        BY <1>5, <3>1, LastIndexGrows, Zenon DEF L
    <2>2. nLastIndex[Pos(d)] \in Nat /\ nLastIndex[Pos(d) - 1] \in Nat \ {0} /\ nLastIndex[L] \in Nat
      BY <1>1, <1>5
    <2> QED
      BY <1>4, <1>5, <2>1, <2>2
  <1>7. ASSUME NEW d \in Delegate, NEW e \in Delegate, Pos(d) < Pos(e)
        PROVE  ShareRange[d] \cap ShareRange[e] = {}
    <2>1. nLastIndex[Pos(d)] <= nLastIndex[Pos(e) - 1]
      <3>1. Pos(d) <= Pos(e) - 1
        BY <1>1, <1>5, <1>7
      <3> QED
        BY <1>5, <3>1, LastIndexGrows, Zenon DEF L
    <2>2. /\ nLastIndex[Pos(d)] \in Nat /\ nLastIndex[Pos(d) - 1] \in Nat
          /\ nLastIndex[Pos(e)] \in Nat /\ nLastIndex[Pos(e) - 1] \in Nat
      BY <1>1, <1>5, Zenon
    <2>3. /\ \A i \in ShareRange[d] : i \in Int /\ i < nLastIndex[Pos(d)]
          /\ \A i \in ShareRange[e] : i >= nLastIndex[Pos(e) - 1]
      <3>1. /\ ShareRange[d] = nLastIndex[Pos(d) - 1]..nLastIndex[Pos(d)] - 1
            /\ ShareRange[e] = nLastIndex[Pos(e) - 1]..nLastIndex[Pos(e)] - 1
        BY <1>5, Zenon
      <3> QED
        BY <2>2, <3>1
    <2>4. \A i \in ShareRange[d] : i \notin ShareRange[e]
      BY <2>1, <2>2, <2>3
    <2> QED
      BY <2>4, Zenon
  <1>8. \A d, e \in Delegate : d # e => Pos(d) < Pos(e) \/ Pos(e) < Pos(d)
    BY <1>1, <1>2
  <1> QED
    BY <1>4, <1>5, <1>6, <1>7, <1>8, Zenon


\* nThresh, Enroll's threshold, is a positive number and more than half of nTotal.
LEMMA ThreshMajority == nThresh \in Nat \ {0} /\ 2 * nThresh > nTotal
  BY EnrollIndices DEF nThresh

\* The shares Collect opens are shares of the publisher it collects from.
LEMMA CollectShareBounds ==
  ASSUME NEW opened \in [Delegate -> SUBSET (1..nTotal)],
         NEW from \in Delegate, NEW S \in SUBSET Delegate
  PROVE  /\ CollectShare(opened, from, S) \in [Delegate -> SUBSET (1..nTotal)]
         /\ \A e \in Delegate :
               /\ opened[e] \subseteq CollectShare(opened, from, S)[e]
               /\ CollectShare(opened, from, S)[e] \subseteq opened[e] \cup ShareRange[from]
               /\ e \notin S => CollectShare(opened, from, S)[e] = opened[e]
  <1>1. ShareRange[from] \subseteq 1..nTotal
    BY EnrollIndices, Zenon
  <1> QED
    BY <1>1, Zenon DEF CollectShare

\* Collect opens at least one share of every secret in the publication, so the
\* secret becomes a key of mapOpenedShare.
LEMMA CollectShareOpens ==
  ASSUME NEW opened \in [Delegate -> SUBSET (1..nTotal)],
         NEW from \in Delegate, NEW S \in SUBSET Delegate, NEW e \in S
  PROVE  CollectShare(opened, from, S)[e] # {}
  <1>1. CASE opened[e] # {}
    BY <1>1, CollectShareBounds, Zenon
  <1>2. CASE opened[e] = {}
    <2> DEFINE i == nIndex[from]
    <2>1. i \in ShareRange[from] /\ \A j \in ShareRange[from] : ~(j < i)
      BY ConstantsAssumption, EnrollIndices DEF ShareRange
    <2>2. Cardinality({j \in ShareRange[from] \ opened[e] : j < i}) = 0
      <3>1. {j \in ShareRange[from] \ opened[e] : j < i} = {}
        BY <2>1, Zenon
      <3> QED
        BY <3>1, FS_EmptySet, Zenon
    <2>3. nThresh - Cardinality(opened[e]) > 0
      BY <1>2, FS_EmptySet, ThreshMajority
    <2>4. i \in CollectShare(opened, from, S)[e]
      BY Zenon, <1>2, <2>1, <2>2, <2>3 DEF CollectShare
    <2> QED
      BY <2>4, Zenon
  <1> QED
    BY <1>1, <1>2, Zenon

\* Two sets of nThresh share indices have an index in common.
LEMMA QuorumsIntersect ==
  ASSUME NEW A \in SUBSET (1..nTotal), NEW B \in SUBSET (1..nTotal),
         Cardinality(A) = nThresh, Cardinality(B) = nThresh
  PROVE  A \cap B # {}
  <1>1. IsFiniteSet(1..nTotal) /\ Cardinality(1..nTotal) = nTotal
    BY FS_Interval, EnrollIndices
  <1>2. IsFiniteSet(A) /\ IsFiniteSet(B)
    BY Zenon, <1>1, FS_Subset
  <1>3. Cardinality(A \cup B) <= nTotal
    <2> DEFINE U == A \cup B
    <2>1. U \in SUBSET (1..nTotal)
      BY Zenon
    <2> HIDE DEF U
    <2>2. Cardinality(U) <= Cardinality(1..nTotal)
      BY Zenon, <1>1, <2>1, FS_Subset
    <2> QED
      BY <1>1, <2>2, Zenon DEF U
  <1>4. Cardinality(A \cup B) = nThresh + nThresh - Cardinality(A \cap B)
    BY <1>2, FS_Union, Zenon
  <1>5. IsFiniteSet(A \cap B) /\ Cardinality(A \cap B) \in Nat
    BY <1>2, FS_Intersection, FS_CardinalityType, Zenon
  <1>6. Cardinality(A \cap B) # 0
    BY <1>3, <1>4, <1>5, ThreshMajority, EnrollIndices
  <1> QED
    BY <1>6, FS_EmptySet, Zenon

\* What the delegates of a node publish is a sequence of publications.
LEMMA OwnPublicationsType ==
  ASSUME TypeOK, NEW n \in Node
  PROVE  OwnPublications(n) \in Seq(Publication)
  <1>1. mapDelegate[n] \in Seq(Delegate)
    BY ConstantsAssumption, Zenon
  <1>2. \A k \in DOMAIN mapDelegate[n] : PublishData(mapDelegate[n][k]) \in Publication
    BY <1>1 DEF TypeOK, PublishData, Publication
  <1> QED
    BY <1>1, <1>2 DEF OwnPublications

-----------------------------------------------------------------------------
(* The inductive invariant.                                                *)

\* A round starts with nothing accepted, published or collected.
LEMMA InitIInv == Init => IInv /\ EmptyBeforePublish
  <1> SUFFICES ASSUME Init PROVE IInv /\ EmptyBeforePublish
    BY Zenon
  <1> USE DEF Init
  <1>1. TypeOK
    BY ConstantsAssumption, SeqEmpty DEF TypeOK, NothingOpened, NoAgreement, NoBlock
  <1>2. OpenedFromCollected /\ CollectedIsOpened /\ CollectedIsPublished
    BY DEF OpenedFromCollected, CollectedIsOpened, CollectedIsPublished, NothingOpened
  <1>3. EmptyBeforePublish
    BY Zenon DEF EmptyBeforePublish
  <1> QED
    BY <1>1, <1>2, <1>3, Zenon DEF IInv

\* HandleCollect, the common part of CollectOwn and HandlePublish, keeps the
\* types and the facts that relate vCollected and mapOpenedShare.
LEMMA HandleCollectIInv ==
  ASSUME IInv, NEW n \in Node, NEW pub \in Publication, HandleCollect(n, pub),
         pub \in netPublish' \cup Range(mapPublishData'[n]),
         netPublish' = netPublish, mapPublishData' = mapPublishData
  PROVE  /\ vCollected' \in [Node -> Seq(Publication)]
         /\ mapOpenedShare' \in [Node -> [Delegate -> SUBSET (1..nTotal)]]
         /\ OpenedFromCollected' /\ CollectedIsOpened' /\ CollectedIsPublished'
  <1> DEFINE S == vCollected[n]
             o == mapOpenedShare[n]
             T == Append(S, pub)
             q == CollectShare(o, pub[1], pub[2])
  <1>1. CASE Ignored(n, pub)
    BY Zenon, <1>1 DEF HandleCollect, IInv, TypeOK, OpenedFromCollected, CollectedIsOpened,
                CollectedIsPublished
  <1>2. CASE ~Ignored(n, pub)
    <2>1. /\ vCollected' = [vCollected EXCEPT ![n] = T]
          /\ mapOpenedShare' = [mapOpenedShare EXCEPT ![n] = q]
      BY <1>2, Zenon DEF HandleCollect
    <2>2. /\ vCollected \in [Node -> Seq(Publication)] /\ S \in Seq(Publication)
          /\ mapOpenedShare \in [Node -> [Delegate -> SUBSET (1..nTotal)]]
          /\ o \in [Delegate -> SUBSET (1..nTotal)]
      BY Zenon DEF IInv, TypeOK
    <2>3. pub[1] \in Delegate /\ pub[2] \in SUBSET Delegate
      BY Zenon DEF Publication
    <2>4. /\ T \in Seq(Publication) /\ Len(T) = Len(S) + 1 /\ Len(S) \in Nat
          /\ DOMAIN T = 1..Len(T) /\ DOMAIN S = 1..Len(S)
          /\ \A k \in 1..Len(S) : T[k] = S[k]
          /\ T[Len(S) + 1] = pub
      BY <2>2, SeqAppend
    <2>5. /\ q \in [Delegate -> SUBSET (1..nTotal)]
          /\ \A e \in Delegate : o[e] \subseteq q[e] /\ q[e] \subseteq o[e] \cup ShareRange[pub[1]]
          /\ \A e \in Delegate : e \notin pub[2] => q[e] = o[e]
      BY <2>2, <2>3, CollectShareBounds
    <2>6. \A e \in pub[2] : q[e] # {}
      BY Zenon, <2>2, <2>3, CollectShareOpens
    <2> HIDE DEF S, o, T, q
    <2>7. /\ vCollected' \in [Node -> Seq(Publication)]
          /\ mapOpenedShare' \in [Node -> [Delegate -> SUBSET (1..nTotal)]]
          /\ vCollected'[n] = T /\ mapOpenedShare'[n] = q
          /\ \A m \in Node \ {n} : vCollected'[m] = vCollected[m]
                                 /\ mapOpenedShare'[m] = mapOpenedShare[m]
      BY <2>1, <2>2, <2>4, <2>5, Zenon
    <2>8. OpenedFromCollected'
      <3> SUFFICES ASSUME NEW m \in Node, NEW e \in Delegate, NEW i \in mapOpenedShare'[m][e]
                   PROVE  \E k \in DOMAIN vCollected'[m] :
                             i \in ShareRange[vCollected'[m][k][1]] /\ e \in vCollected'[m][k][2]
        BY Zenon DEF OpenedFromCollected
      <3>1. CASE m # n
        <4>1. vCollected'[m] = vCollected[m] /\ mapOpenedShare'[m] = mapOpenedShare[m]
          BY <2>7, <3>1, Zenon
        <4> QED
          BY <4>1, Zenon DEF IInv, OpenedFromCollected
      <3>2. CASE m = n /\ i \in o[e]
        <4>1. PICK k \in DOMAIN S : i \in ShareRange[S[k][1]] /\ e \in S[k][2]
          BY <3>2, Zenon DEF IInv, OpenedFromCollected, S, o
        <4> QED
          BY <2>4, <2>7, <3>2, <4>1
      <3>3. CASE m = n /\ i \notin o[e]
        <4>1. i \in ShareRange[pub[1]] /\ e \in pub[2]
          BY <2>5, <2>7, <3>3, Zenon
        <4> QED
          BY <2>4, <2>7, <3>3, <4>1
      <3> QED
        BY <3>1, <3>2, <3>3, Zenon
    <2>9. CollectedIsOpened'
      <3> SUFFICES ASSUME NEW m \in Node, NEW k \in DOMAIN vCollected'[m],
                          NEW e \in vCollected'[m][k][2]
                   PROVE  mapOpenedShare'[m][e] # {}
        BY Zenon DEF CollectedIsOpened
      <3>1. CASE m # n
        <4>1. vCollected'[m] = vCollected[m] /\ mapOpenedShare'[m] = mapOpenedShare[m]
          BY <2>7, <3>1, Zenon
        <4> QED
          BY <4>1, Zenon DEF IInv, CollectedIsOpened
      <3>2. CASE m = n /\ k \in 1..Len(S)
        <4>1. e \in S[k][2] /\ S[k] \in Publication
          BY <2>2, <2>4, <2>7, <3>2, SeqElement, Zenon
        <4>2. e \in Delegate /\ o[e] # {}
          BY Zenon, <2>4, <3>2, <4>1 DEF IInv, CollectedIsOpened, S, o, Publication
        <4> QED
          BY <2>5, <2>7, <3>2, <4>2, Zenon
      <3>3. CASE m = n /\ k = Len(S) + 1
        BY Zenon, <2>4, <2>6, <2>7, <3>3
      <3> QED
        BY <2>4, <2>7, <3>1, <3>2, <3>3
    <2>10. CollectedIsPublished'
      <3> SUFFICES ASSUME NEW m \in Node, NEW k \in DOMAIN vCollected'[m]
                   PROVE  vCollected'[m][k] \in netPublish' \cup Range(mapPublishData'[m])
        BY Zenon DEF CollectedIsPublished
      <3>1. CASE m # n
        <4>1. vCollected'[m] = vCollected[m] /\ mapOpenedShare'[m] = mapOpenedShare[m]
          BY <2>7, <3>1, Zenon
        <4> QED
          BY <4>1, Zenon DEF IInv, CollectedIsPublished
      <3>2. CASE m = n /\ k \in 1..Len(S)
        BY <2>4, <2>7, <3>2, Zenon DEF IInv, CollectedIsPublished, S
      <3>3. CASE m = n /\ k = Len(S) + 1
        BY <2>4, <2>7, <3>3, Zenon
      <3> QED
        BY <2>4, <2>7, <3>1, <3>2, <3>3
    <2> QED
      BY <2>7, <2>8, <2>9, <2>10, Zenon
  <1> QED
    BY <1>1, <1>2, Zenon

\* Steps that leave the collections alone and lose no publication.
LEMMA CollectedStable ==
  ASSUME IInv, UNCHANGED <<vCollected, mapOpenedShare>>,
         netPublish \subseteq netPublish',
         \A n \in Node : vCollected[n] = <<>> \/ mapPublishData'[n] = mapPublishData[n]
  PROVE  OpenedFromCollected' /\ CollectedIsOpened' /\ CollectedIsPublished'
  <1>1. OpenedFromCollected' /\ CollectedIsOpened'
    BY Zenon DEF IInv, OpenedFromCollected, CollectedIsOpened
  <1>2. CollectedIsPublished'
    BY DEF IInv, CollectedIsPublished
  <1> QED
    BY <1>1, <1>2, Zenon

\* Only CollectOwn and HandlePublish collect, and both come after EvolvePublish.
LEMMA NextEmpty == TypeOK /\ EmptyBeforePublish /\ [Next]_vars => EmptyBeforePublish'
  <1> SUFFICES ASSUME TypeOK, EmptyBeforePublish, [Next]_vars,
                      NEW m \in Node, phase'[m] \in {"setup", "distribute"}
               PROVE  vCollected'[m] = <<>>
    BY Zenon DEF EmptyBeforePublish
  <1>1. CASE UNCHANGED vars
    BY <1>1, Zenon DEF EmptyBeforePublish, vars
  <1>2. ASSUME NEW n \in Node, CollectOwn(n) \/ \E pub \in netPublish : HandlePublish(n, pub)
        PROVE  vCollected'[m] = <<>>
    <2>1. m # n /\ phase' = phase
      BY <1>2, Zenon DEF CollectOwn, HandlePublish
    <2>2. vCollected'[m] = vCollected[m]
      BY <1>2, <2>1 DEF CollectOwn, HandlePublish, HandleCollect, TypeOK
    <2> QED
      BY <2>1, <2>2, Zenon DEF EmptyBeforePublish
  <1>3. ASSUME NEW n \in Node,
               \/ EvolveEnroll(n) \/ EvolvePublish(n) \/ OfferPublish(n)
               \/ \E e \in Delegate : HandleDistribute(n, e)
               \/ GetNextConsensus(n) \/ PrepareBlock(n) \/ AddNewBlock(n) \/ Restart(n)
        PROVE  vCollected'[m] = <<>>
    <2>1. vCollected' = vCollected /\ phase[m] \in {"setup", "distribute"}
      BY Zenon, <1>3 DEF EvolveEnroll, EvolvePublish, OfferPublish, HandleDistribute,
                  GetNextConsensus, PrepareBlock, AddNewBlock, Restart, TypeOK
    <2> QED
      BY <2>1, Zenon DEF EmptyBeforePublish
  <1>4. ASSUME NEW n \in Node, Crash(n) PROVE vCollected'[m] = <<>>
    BY <1>4, Zenon DEF Crash, TypeOK, EmptyBeforePublish
  <1> QED
    BY <1>1, <1>2, <1>3, <1>4, Zenon DEF Next

\* Every step of every node keeps the inductive invariant.
LEMMA NextIInv == IInv /\ EmptyBeforePublish /\ [Next]_vars => IInv'
  <1> SUFFICES ASSUME IInv, EmptyBeforePublish, [Next]_vars PROVE IInv'
    BY Zenon
  <1>t. TypeOK
    BY Zenon DEF IInv
  <1>1. ASSUME NEW n \in Node, EvolveEnroll(n) PROVE IInv'
    <2> USE <1>1 DEF EvolveEnroll
    <2>1. Own(n) \subseteq Delegate
      BY ConstantsAssumption DEF Own, Range
    <2>2. TypeOK'
      BY Zenon, <1>t, <2>1 DEF TypeOK
    <2> QED
      BY Zenon, <2>2, CollectedStable DEF IInv
  <1>2. ASSUME NEW n \in Node, NEW e \in Delegate, HandleDistribute(n, e) PROVE IInv'
    <2> USE <1>2 DEF HandleDistribute
    <2>1. TypeOK'
      BY Zenon, <1>t DEF TypeOK
    <2> QED
      BY <2>1, CollectedStable, Zenon DEF IInv
  <1>3. ASSUME NEW n \in Node, EvolvePublish(n) PROVE IInv'
    <2> USE <1>3 DEF EvolvePublish
    <2>1. TypeOK'
      BY Zenon, <1>t, OwnPublicationsType DEF TypeOK
    <2>2. \A m \in Node : vCollected[m] = <<>> \/ mapPublishData'[m] = mapPublishData[m]
      BY <1>t, Zenon DEF EmptyBeforePublish, TypeOK
    <2> QED
      BY Zenon, <2>1, <2>2, CollectedStable DEF IInv
  <1>4. ASSUME NEW n \in Node, CollectOwn(n) PROVE IInv'
    <2> USE <1>4 DEF CollectOwn
    <2> DEFINE k == nCollected[n] + 1
               pub == mapPublishData[n][k]
    <2>1. k \in 1..Len(mapPublishData[n]) /\ mapPublishData[n] \in Seq(Publication)
      BY <1>t DEF TypeOK
    <2>2. pub \in Publication /\ pub \in Range(mapPublishData'[n])
      BY <2>1, SeqElement DEF Range
    <2>3. HandleCollect(n, pub)
      BY Zenon
    <2> HIDE DEF pub
    <2>4. /\ vCollected' \in [Node -> Seq(Publication)]
          /\ mapOpenedShare' \in [Node -> [Delegate -> SUBSET (1..nTotal)]]
          /\ OpenedFromCollected' /\ CollectedIsOpened' /\ CollectedIsPublished'
      BY Zenon, <2>2, <2>3, HandleCollectIInv
    <2>5. TypeOK'
      BY <1>t, <2>4 DEF TypeOK
    <2> QED
      BY Zenon, <2>4, <2>5 DEF IInv
  <1>5. ASSUME NEW n \in Node, OfferPublish(n) PROVE IInv'
    <2> USE <1>5 DEF OfferPublish
    <2>1. Range(mapPublishData[n]) \subseteq Publication
      BY <1>t, SeqElement DEF TypeOK, Range
    <2>2. TypeOK'
      BY Zenon, <1>t, <2>1 DEF TypeOK
    <2> QED
      BY Zenon, <2>2, CollectedStable DEF IInv
  <1>6. ASSUME NEW n \in Node, NEW pub \in netPublish, HandlePublish(n, pub) PROVE IInv'
    <2> USE <1>6 DEF HandlePublish
    <2>1. pub \in Publication
      BY <1>t, Zenon DEF TypeOK
    <2>2. /\ vCollected' \in [Node -> Seq(Publication)]
          /\ mapOpenedShare' \in [Node -> [Delegate -> SUBSET (1..nTotal)]]
          /\ OpenedFromCollected' /\ CollectedIsOpened' /\ CollectedIsPublished'
      BY <2>1, HandleCollectIInv, Zenon
    <2>3. TypeOK'
      BY Zenon, <1>t, <2>2 DEF TypeOK
    <2> QED
      BY <2>2, <2>3, Zenon DEF IInv
  <1>7. ASSUME NEW n \in Node, GetNextConsensus(n) PROVE IInv'
    <2> USE <1>7 DEF GetNextConsensus
    <2>1. /\ Reconstruct(mapOpenedShare[n]) \in SUBSET Delegate
          /\ IsCollectCompleted(mapOpenedShare[n]) \in BOOLEAN
      BY Zenon DEF Reconstruct, IsCollectCompleted
    <2>2. TypeOK'
      BY Zenon, <1>t, <2>1 DEF TypeOK
    <2> QED
      BY Zenon, <2>2, CollectedStable DEF IInv
  <1>8. ASSUME NEW n \in Node, PrepareBlock(n) PROVE IInv'
    <2> USE <1>8 DEF PrepareBlock
    <2>1. TypeOK'
      BY Zenon, <1>t DEF TypeOK
    <2> QED
      BY Zenon, <2>1, CollectedStable DEF IInv
  <1>9. ASSUME NEW n \in Node, AddNewBlock(n) PROVE IInv'
    <2> USE <1>9 DEF AddNewBlock
    <2>1. TypeOK'
      BY Zenon, <1>t DEF TypeOK
    <2> QED
      BY Zenon, <2>1, CollectedStable DEF IInv
  <1>10. ASSUME NEW n \in Node, Restart(n) PROVE IInv'
    <2> USE <1>10 DEF Restart
    <2>1. Range(OwnPublications(n)) \subseteq Publication
      BY <1>t, OwnPublicationsType, SeqElement DEF Range
    <2>2. TypeOK'
      BY <1>t, <2>1, ConstantsAssumption DEF TypeOK, NoAgreement
    <2> QED
      BY <2>2, CollectedStable, Zenon DEF IInv
  <1>11. ASSUME NEW n \in Node, Crash(n) PROVE IInv'
    <2> USE <1>11 DEF Crash
    <2>1. TypeOK'
      BY <1>t, ConstantsAssumption, SeqEmpty DEF TypeOK, NoAgreement, NothingOpened
    <2>2. /\ vCollected'[n] = <<>> /\ mapOpenedShare'[n] = NothingOpened
          /\ \A m \in Node \ {n} : /\ vCollected'[m] = vCollected[m]
                                   /\ mapOpenedShare'[m] = mapOpenedShare[m]
                                   /\ mapPublishData'[m] = mapPublishData[m]
      BY <1>t, Zenon DEF TypeOK
    <2>3. OpenedFromCollected' /\ CollectedIsOpened' /\ CollectedIsPublished'
      BY <2>2 DEF IInv, OpenedFromCollected, CollectedIsOpened, CollectedIsPublished,
                  NothingOpened
    <2> QED
      BY <2>1, <2>3, Zenon DEF IInv
  <1>12. CASE UNCHANGED vars
    <2>1. TypeOK'
      BY Zenon, <1>t, <1>12 DEF TypeOK, vars
    <2> QED
      BY <2>1, <1>12, CollectedStable, Zenon DEF IInv, vars
  <1> QED
    BY <1>1, <1>2, <1>3, <1>4, <1>5, <1>6, <1>7, <1>8, <1>9, <1>10, <1>11, <1>12, Zenon DEF Next

\* The inductive invariant holds throughout every round.
THEOREM InductiveInvariant == Spec => [](IInv /\ EmptyBeforePublish)
  <1>1. IInv => TypeOK
    BY Zenon DEF IInv
  <1> QED
    BY <1>1, InitIInv, NextIInv, NextEmpty, PTL DEF Spec

\* The variables of a round keep their types: in particular mapOpenedShare only
\* ever holds share indices that Enroll handed out.
THEOREM TypeCorrect == Spec => []TypeOK
  <1>1. IInv => TypeOK
    BY Zenon DEF IInv
  <1> QED
    BY <1>1, InductiveInvariant, PTL

-----------------------------------------------------------------------------
(* Complete collections.                                                   *)

\* The state-level core: in a state satisfying the invariant, two nodes, one of
\* them complete.
LEMMA IInvDominates == IInv => CompletedDominates
  <1> SUFFICES ASSUME IInv, PublishedOnce, NEW m \in Node, NEW n \in Node,
                      IsCollectCompleted(mapOpenedShare[m]),
                      NEW e \in Reconstruct(mapOpenedShare[n])
               PROVE  e \in Reconstruct(mapOpenedShare[m])
    BY Zenon DEF CompletedDominates
  <1>1. PICK f \in Delegate : f \in OpenedKeys(mapOpenedShare[m])
    BY Zenon DEF IsCollectCompleted, OpenedKeys
  <1>2. Cardinality(mapOpenedShare[m][f]) = nThresh
    BY <1>1, Zenon DEF IsCollectCompleted, Reconstruct
  <1>3. e \in Delegate /\ Cardinality(mapOpenedShare[n][e]) = nThresh
    BY Zenon DEF Reconstruct
  <1>4. PICK i : i \in mapOpenedShare[n][e] /\ i \in mapOpenedShare[m][f]
    <2>1. /\ mapOpenedShare[n][e] \in SUBSET (1..nTotal)
          /\ mapOpenedShare[m][f] \in SUBSET (1..nTotal)
      BY <1>1, <1>3 DEF IInv, TypeOK
    <2>2. mapOpenedShare[n][e] \cap mapOpenedShare[m][f] # {}
      BY Zenon, <1>2, <1>3, <2>1, QuorumsIntersect
    <2> QED
      BY <2>2, Zenon
  <1>5. PICK k \in DOMAIN vCollected[n] :
           i \in ShareRange[vCollected[n][k][1]] /\ e \in vCollected[n][k][2]
    BY Zenon, <1>3, <1>4 DEF IInv, OpenedFromCollected
  <1>6. PICK l \in DOMAIN vCollected[m] : i \in ShareRange[vCollected[m][l][1]]
    BY Zenon, <1>1, <1>4 DEF IInv, OpenedFromCollected
  <1>7. vCollected[n][k] \in Publication /\ vCollected[m][l] \in Publication
    BY SeqElement DEF IInv, TypeOK
  <1>8. vCollected[n][k][1] = vCollected[m][l][1]
    BY Zenon, <1>5, <1>6, <1>7, EnrollIndices DEF Publication
  <1>9. vCollected[n][k] \in Published /\ vCollected[m][l] \in Published
    BY Zenon DEF IInv, CollectedIsPublished, Published
  <1>10. vCollected[n][k] = vCollected[m][l]
    BY <1>8, <1>9, Zenon DEF PublishedOnce
  <1>11. mapOpenedShare[m][e] # {}
    BY Zenon, <1>5, <1>10 DEF IInv, CollectedIsOpened
  <1> QED
    BY Zenon, <1>3, <1>11 DEF IsCollectCompleted, OpenedKeys

\* A node whose collection IsCollectCompleted calls complete has reconstructed
\* every secret any node has, whatever was delayed, lost or delivered in another
\* order: complete nodes of one round never disagree.
THEOREM CompleteCollectionsAgree == Spec => []CompletedDominates
  BY InductiveInvariant, IInvDominates, PTL

-----------------------------------------------------------------------------
(* How many shares are open.                                               *)

\* Sets of share indices are finite.
LEMMA IndicesFinite ==
  ASSUME NEW A \in SUBSET (1..nTotal)
  PROVE  IsFiniteSet(A) /\ Cardinality(A) \in Nat /\ A \subseteq Int
  <1>1. IsFiniteSet(1..nTotal)
    BY FS_Interval, EnrollIndices
  <1>2. IsFiniteSet(A)
    BY <1>1, FS_Subset, Zenon
  <1> QED
    BY <1>2, FS_CardinalityType

\* The first r elements of a finite set of indices, or all of them.
LEMMA FirstElements ==
  ASSUME NEW F \in SUBSET (1..nTotal), NEW r \in Nat
  PROVE  LET G == {i \in F : Cardinality({j \in F : j < i}) < r}
         IN  /\ Cardinality(F) <= r => G = F
             /\ r < Cardinality(F) => Cardinality(G) = r
  <1> DEFINE Below(i) == {j \in F : j < i}
             Rank(i) == Cardinality(Below(i))
             G == {i \in F : Rank(i) < r}
             n == Cardinality(F)
  <1>1. IsFiniteSet(F) /\ n \in Nat /\ F \subseteq Int
    BY IndicesFinite, Zenon
  <1>2. \A i \in F : IsFiniteSet(Below(i)) /\ Rank(i) \in Nat /\ Rank(i) < n
    <2> SUFFICES ASSUME NEW i \in F
                 PROVE  IsFiniteSet(Below(i)) /\ Rank(i) \in Nat /\ Rank(i) < n
      BY Zenon
    <2>1. Below(i) \in SUBSET F /\ Below(i) # F
      BY <1>1
    <2> HIDE DEF Below
    <2> QED
      BY <1>1, <2>1, PartIsSmaller, Zenon
  <1>3. ASSUME NEW i \in F, NEW k \in F, i < k PROVE Rank(i) < Rank(k)
    <2>1. Below(i) \in SUBSET Below(k) /\ Below(i) # Below(k)
      <3>1. i \in Below(k) /\ i \notin Below(i)
        BY <1>1, <1>3
      <3>2. \A j \in Below(i) : j \in Below(k)
        BY <1>1, <1>3
      <3> HIDE DEF Below
      <3> QED
        BY <3>1, <3>2, Zenon
    <2>2. IsFiniteSet(Below(k))
      BY <1>2, Zenon
    <2> HIDE DEF Below
    <2> QED
      BY <2>1, <2>2, PartIsSmaller, Zenon
  <1>r. \A i \in F : Rank(i) \in Nat /\ Rank(i) < n
    BY <1>2, Zenon
  <1> HIDE DEF Rank, n
  <1>4. \A i, k \in F : Rank(i) = Rank(k) => i = k
    <2> SUFFICES ASSUME NEW i \in F, NEW k \in F, i # k PROVE Rank(i) # Rank(k)
      BY Zenon
    <2>1. i < k \/ k < i
      BY <1>1
    <2>2. Rank(i) < Rank(k) \/ Rank(k) < Rank(i)
      BY <1>3, <2>1, Zenon
    <2> QED
      BY <1>r, <2>2
  <1>5. n <= r => G = F
    <2>1. n <= r => \A i \in F : Rank(i) < r
      BY <1>1, <1>r
    <2> QED
      BY <2>1, Zenon
  <1>6. ASSUME r < n PROVE Cardinality(G) = r
    <2> DEFINE rk == [i \in F |-> Rank(i)]
               T == 0..n - 1
               g == [i \in G |-> Rank(i)]
               R == 0..r - 1
    <2>1. /\ IsFiniteSet(T) /\ Cardinality(T) = n /\ IsFiniteSet(R) /\ Cardinality(R) = r
      <3>1. /\ n \in Nat /\ 0 \in Int /\ n - 1 \in Int /\ r - 1 \in Int
        BY <1>1 DEF n
      <3>2. /\ IsFiniteSet(T) /\ Cardinality(T) = IF 0 > n - 1 THEN 0 ELSE n - 1 - 0 + 1
            /\ IsFiniteSet(R) /\ Cardinality(R) = IF 0 > r - 1 THEN 0 ELSE r - 1 - 0 + 1
        BY <3>1, FS_Interval, Zenon
      <3> HIDE DEF T, R
      <3> QED
        BY <3>1, <3>2
    <2>2. rk \in Injection(F, T)
      <3>1. \A i \in F : Rank(i) \in T
        BY <1>1, <1>r DEF n
      <3> HIDE DEF T
      <3> QED
        BY <1>4, <3>1, Zenon DEF Injection, IsInjective
    <2>3. rk \in Surjection(F, T)
      <3> HIDE DEF rk, T, n
      <3>1. Cardinality(F) = Cardinality(T)
        BY <2>1, Zenon DEF n
      <3> QED
        BY <2>1, <2>2, <3>1, FS_Injection, Zenon
    <2>4. \A v \in T : \E i \in F : Rank(i) = v
      BY <2>3, Zenon DEF Surjection
    <2>5. R \subseteq T
      BY <1>1, <1>6 DEF n
    <2>6. g \in Injection(G, R)
      <3>1. \A i \in G : Rank(i) \in R /\ i \in F
        BY <1>r
      <3> HIDE DEF G, R
      <3> QED
        BY <1>4, <3>1, Zenon DEF Injection, IsInjective
    <2>7. \A v \in R : \E i \in G : Rank(i) = v
      BY <2>4, <2>5
    <2>8. g \in Surjection(G, R)
      BY <2>6, <2>7, Zenon DEF Injection, Surjection
    <2> HIDE DEF g, G, R
    <2> QED
      BY <2>1, <2>6, <2>8, FS_Injection, Zenon
  <1> QED
    BY <1>5, <1>6, Zenon DEF Rank, n

\* Collect leaves a secret with nThresh shares open, or with all the shares of
\* the publisher, and never with more.
LEMMA CollectShareCounts ==
  ASSUME NEW opened \in [Delegate -> SUBSET (1..nTotal)],
         NEW from \in Delegate, NEW S \in SUBSET Delegate, NEW e \in S,
         Cardinality(opened[e]) <= nThresh
  PROVE  LET q == CollectShare(opened, from, S)[e]
         IN  /\ Cardinality(q) <= nThresh
             /\ Cardinality(q) = nThresh \/ ShareRange[from] \subseteq q
             /\ Cardinality(opened[e]) = nThresh => q = opened[e]
  <1> DEFINE o == opened[e]
             F == ShareRange[from] \ o
             r == nThresh - Cardinality(o)
             G == {i \in F : Cardinality({j \in F : j < i}) < r}
             q == CollectShare(opened, from, S)[e]
  <1>1. q = o \cup G
    BY Zenon DEF CollectShare
  <1>2. F \in SUBSET (1..nTotal) /\ o \in SUBSET (1..nTotal)
    BY EnrollIndices, Zenon
  <1>3. IsFiniteSet(o) /\ IsFiniteSet(F) /\ Cardinality(o) \in Nat /\ Cardinality(F) \in Nat
    <2> HIDE DEF F, o
    <2> QED
      BY <1>2, IndicesFinite, Zenon
  <1>4. r \in Nat
    BY <1>3, ThreshMajority
  <1>5. /\ Cardinality(F) <= r => G = F
        /\ r < Cardinality(F) => Cardinality(G) = r
    <2> HIDE DEF F, r
    <2> QED
      BY <1>2, <1>4, FirstElements, Zenon
  <1>6. G \in SUBSET F /\ o \cap G = {}
    BY Zenon
  <1> HIDE DEF G
  <1>7. IsFiniteSet(G) /\ Cardinality(G) \in Nat
    BY <1>3, <1>6, FS_Subset, FS_CardinalityType, Zenon
  <1>8. Cardinality(q) = Cardinality(o) + Cardinality(G)
    <2>1. Cardinality(o \cup G) = Cardinality(o) + Cardinality(G) - Cardinality(o \cap G)
      BY <1>3, <1>7, FS_Union, Zenon
    <2>2. Cardinality(o \cap G) = 0
      BY <1>6, FS_EmptySet, Zenon
    <2> HIDE DEF o, q
    <2> QED
      BY <1>1, <1>3, <1>7, <2>1, <2>2
  <1>9. CASE Cardinality(F) <= r
    <2>1. Cardinality(q) <= nThresh
      <3>1. Cardinality(G) = Cardinality(F)
        BY <1>5, <1>9, Zenon
      <3> HIDE DEF q, o, F
      <3> QED
        BY <1>3, <1>8, <1>9, <3>1, ThreshMajority
    <2>2. ShareRange[from] \subseteq q
      BY <1>1, <1>5, <1>9, Zenon
    <2>3. Cardinality(o) = nThresh => q = o
      <3> SUFFICES ASSUME Cardinality(o) = nThresh PROVE q = o
        BY Zenon
      <3>1. Cardinality(F) = 0
        BY <1>3, <1>9, ThreshMajority
      <3>2. F = {}
        BY <1>3, <3>1, FS_EmptySet, Zenon
      <3> QED
        BY <1>1, <1>6, <3>2, Zenon
    <2> QED
      BY <2>1, <2>2, <2>3, Zenon
  <1>10. CASE r < Cardinality(F)
    <2>1. Cardinality(q) = nThresh
      BY <1>3, <1>4, <1>5, <1>8, <1>10, ThreshMajority
    <2>2. Cardinality(o) = nThresh => q = o
      <3> SUFFICES ASSUME Cardinality(o) = nThresh PROVE q = o
        BY Zenon
      <3>1. Cardinality(G) = 0
        BY <1>3, <1>5, <1>10, ThreshMajority
      <3>2. G = {}
        BY <1>7, <3>1, FS_EmptySet, Zenon
      <3> QED
        BY <1>1, <3>2, Zenon
    <2> QED
      BY <2>1, <2>2, ThreshMajority
  <1> QED
    BY <1>3, <1>4, <1>9, <1>10


-----------------------------------------------------------------------------
(* What a step does to one node's collection, cache and block.             *)

\* The node keeps its collection
Keeps(m) == vCollected'[m] = vCollected[m] /\ mapOpenedShare'[m] = mapOpenedShare[m]

\* The node adds one publication to a collection that is not complete
Collects(m, pub) ==
  /\ ~IsCollectCompleted(mapOpenedShare[m])
  /\ vCollected'[m] = Append(vCollected[m], pub)
  /\ mapOpenedShare'[m] = CollectShare(mapOpenedShare[m], pub[1], pub[2])

\* The node starts over with an empty collection
Forgets(m) ==
  /\ vCollected'[m] = <<>> /\ mapOpenedShare'[m] = NothingOpened
  /\ cacheAgreement'[m] = NoAgreement

\* The cache keeps its agreement, loses it or takes the vote's.
Caches(m) ==
  \/ cacheAgreement'[m] = cacheAgreement[m]
  \/ cacheAgreement'[m] = NoAgreement
  \/ /\ Keeps(m)
     /\ cacheAgreement'[m].agreement = Reconstruct(mapOpenedShare[m])
     /\ cacheAgreement'[m].fCompleted = IsCollectCompleted(mapOpenedShare[m])

\* The block stays, or is made of the cached agreement and the collection.
Prepares(m) ==
  \/ block'[m] = block[m]
  \/ /\ block'[m].fCompleted = cacheAgreement[m].fCompleted
     /\ block'[m].agreement = cacheAgreement[m].agreement
     /\ block'[m].proof = vCollected[m]

\* HandleCollect adds at most one publication to the collection of its node,
\* and none to a complete one.
LEMMA HandleCollectEffect ==
  ASSUME TypeOK, NEW n \in Node, NEW pub \in Publication, HandleCollect(n, pub),
         NEW m \in Node
  PROVE  Keeps(m) \/ Collects(m, pub)
  <1>1. CASE Ignored(n, pub)
    BY <1>1, Zenon DEF HandleCollect, Keeps
  <1>2. CASE ~Ignored(n, pub)
    <2>1. /\ vCollected' = [vCollected EXCEPT ![n] = Append(@, pub)]
          /\ mapOpenedShare' = [mapOpenedShare EXCEPT ![n] = CollectShare(@, pub[1], pub[2])]
          /\ ~IsCollectCompleted(mapOpenedShare[n])
      BY <1>2, Zenon DEF HandleCollect, Ignored
    <2> QED
      BY Zenon, <2>1 DEF Keeps, Collects, TypeOK
  <1> QED
    BY <1>1, <1>2, Zenon

\* The effect of any step on a node's collection.
LEMMA CollectionEffect ==
  ASSUME TypeOK, [Next]_vars, NEW m \in Node
  PROVE  Keeps(m) \/ Forgets(m) \/ \E pub \in Publication : Collects(m, pub)
  <1>1. CASE UNCHANGED vars
    BY <1>1, Zenon DEF vars, Keeps
  <1>2. ASSUME NEW n \in Node, CollectOwn(n)
        PROVE  Keeps(m) \/ \E pub \in Publication : Collects(m, pub)
    <2> DEFINE pub == mapPublishData[n][nCollected[n] + 1]
    <2>1. pub \in Publication
      <3>1. /\ mapPublishData[n] \in Seq(Publication) /\ nCollected[n] \in Nat
            /\ nCollected[n] < Len(mapPublishData[n])
        BY <1>2, Zenon DEF CollectOwn, TypeOK
      <3>2. nCollected[n] + 1 \in 1..Len(mapPublishData[n])
        BY <3>1, SeqFunction
      <3> QED
        BY <3>1, <3>2, SeqElement, Zenon
    <2>2. HandleCollect(n, pub)
      BY <1>2, Zenon DEF CollectOwn
    <2> HIDE DEF pub
    <2> QED
      BY <2>1, <2>2, HandleCollectEffect, Zenon
  <1>3. ASSUME NEW n \in Node, NEW pub \in netPublish, HandlePublish(n, pub)
        PROVE  Keeps(m) \/ \E p \in Publication : Collects(m, p)
    <2>1. pub \in Publication /\ HandleCollect(n, pub)
      BY <1>3, Zenon DEF HandlePublish, TypeOK
    <2> QED
      BY <2>1, HandleCollectEffect, Zenon
  <1>4. ASSUME NEW n \in Node,
               \/ EvolveEnroll(n) \/ EvolvePublish(n) \/ OfferPublish(n)
               \/ \E e \in Delegate : HandleDistribute(n, e)
               \/ GetNextConsensus(n) \/ PrepareBlock(n) \/ AddNewBlock(n) \/ Restart(n)
        PROVE  Keeps(m)
    <2>1. vCollected' = vCollected /\ mapOpenedShare' = mapOpenedShare
      BY Zenon, <1>4 DEF EvolveEnroll, EvolvePublish, OfferPublish, HandleDistribute,
                  GetNextConsensus, PrepareBlock, AddNewBlock, Restart
    <2> QED
      BY <2>1, Zenon DEF Keeps
  <1>5. ASSUME NEW n \in Node, Crash(n) PROVE Keeps(m) \/ Forgets(m)
    BY Zenon, <1>5 DEF Crash, TypeOK, Keeps, Forgets
  <1> QED
    BY <1>1, <1>2, <1>3, <1>4, <1>5, Zenon DEF Next

-----------------------------------------------------------------------------
(* A majority of the weight completes a collection.                        *)

\* Every step keeps a secret at nThresh open shares or at all collected ones.
LEMMA NextOpened == TypeOK /\ OpenedUpToThresh /\ [Next]_vars => OpenedUpToThresh'
  <1> DEFINE Upto(o, c, e) ==
               /\ Cardinality(o[e]) <= nThresh
               /\ \/ Cardinality(o[e]) = nThresh
                  \/ \A k \in DOMAIN c : e \in c[k][2] => ShareRange[c[k][1]] \subseteq o[e]
  <1> SUFFICES ASSUME TypeOK, OpenedUpToThresh, [Next]_vars, NEW m \in Node, NEW e \in Delegate
               PROVE  Upto(mapOpenedShare'[m], vCollected'[m], e)
    BY Zenon DEF OpenedUpToThresh
  <1> DEFINE c == vCollected[m]
             o == mapOpenedShare[m]
  <1>1. Upto(o, c, e)
    BY Zenon DEF OpenedUpToThresh
  <1>2. CASE Keeps(m)
    BY Zenon, <1>1, <1>2 DEF Keeps
  <1>3. CASE Forgets(m)
    <2>1. vCollected'[m] = <<>> /\ mapOpenedShare'[m][e] = {}
      BY <1>3, Zenon DEF Forgets, NothingOpened
    <2>2. Cardinality({}) <= nThresh
      BY FS_EmptySet, ThreshMajority
    <2> QED
      BY <2>1, <2>2
  <1>4. ASSUME NEW pub \in Publication, Collects(m, pub)
        PROVE  Upto(mapOpenedShare'[m], vCollected'[m], e)
    <2> DEFINE d == Append(c, pub)
               q == CollectShare(o, pub[1], pub[2])
    <2>1. vCollected'[m] = d /\ mapOpenedShare'[m] = q
      BY <1>4, Zenon DEF Collects
    <2>2. /\ c \in Seq(Publication) /\ o \in [Delegate -> SUBSET (1..nTotal)]
          /\ pub[1] \in Delegate /\ pub[2] \in SUBSET Delegate
      BY Zenon DEF TypeOK, Publication
    <2>3. /\ Len(d) = Len(c) + 1 /\ Len(c) \in Nat
          /\ DOMAIN d = 1..Len(d) /\ DOMAIN c = 1..Len(c)
          /\ \A k \in 1..Len(c) : d[k] = c[k]
          /\ d[Len(c) + 1] = pub
      BY <2>2, SeqAppend, SeqFunction
    <2>4. o[e] \subseteq q[e] /\ (e \notin pub[2] => q[e] = o[e])
      BY <2>2, CollectShareBounds
    <2>5. e \in pub[2] => /\ Cardinality(q[e]) <= nThresh
                          /\ Cardinality(q[e]) = nThresh \/ ShareRange[pub[1]] \subseteq q[e]
                          /\ Cardinality(o[e]) = nThresh => q[e] = o[e]
      BY <1>1, <2>2, CollectShareCounts, Zenon
    <2> HIDE DEF c, o, d, q
    <2>6. CASE e \notin pub[2]
      <3>1. q[e] = o[e]
        BY <2>4, <2>6, Zenon
      <3>2. ASSUME NEW k \in DOMAIN d, e \in d[k][2] PROVE k \in DOMAIN c /\ d[k] = c[k]
        BY <2>3, <2>6, <3>2
      <3>3. Upto(q, d, e)
        BY <1>1, <3>1, <3>2, Zenon
      <3> QED
        BY Zenon, <2>1, <3>3
    <2>7. CASE e \in pub[2] /\ Cardinality(q[e]) = nThresh
      <3>1. Upto(q, d, e)
        BY <2>5, <2>7, Zenon
      <3> QED
        BY Zenon, <2>1, <3>1
    <2>8. CASE e \in pub[2] /\ Cardinality(q[e]) # nThresh
      <3>1. Cardinality(o[e]) # nThresh
        BY <2>5, <2>8, Zenon
      <3>2. \A k \in DOMAIN c : e \in c[k][2] => ShareRange[c[k][1]] \subseteq o[e]
        BY <1>1, <3>1, Zenon
      <3>3. ASSUME NEW k \in DOMAIN d, e \in d[k][2]
            PROVE  ShareRange[d[k][1]] \subseteq q[e]
        <4>1. CASE k \in DOMAIN c
          BY <2>3, <2>4, <3>2, <3>3, <4>1, Zenon
        <4>2. CASE k = Len(c) + 1
          BY <2>3, <2>5, <2>8, <4>2, Zenon
        <4> QED
          BY <2>3, <4>1, <4>2
      <3>4. Upto(q, d, e)
        BY <2>5, <2>8, <3>3, Zenon
      <3> QED
        BY Zenon, <2>1, <3>4
    <2> QED
      BY <2>6, <2>7, <2>8, Zenon
  <1> HIDE DEF Upto
  <1> QED
    BY <1>2, <1>3, <1>4, CollectionEffect, Zenon

\* With every secret in every publication, a collected majority opens nThresh
\* shares of each secret.
LEMMA OpenedCompletes ==
  TypeOK /\ CollectedIsPublished /\ OpenedUpToThresh => MajorityCompletes
  <1> SUFFICES ASSUME TypeOK, CollectedIsPublished, OpenedUpToThresh, NEW n \in Node,
                      \A p \in Published : p[2] = Delegate,
                      CollectedWeight(n) >= nThresh, NEW e \in Delegate
               PROVE  Cardinality(mapOpenedShare[n][e]) = nThresh
    BY Zenon DEF MajorityCompletes, Reconstruct
  <1> DEFINE c == vCollected[n]
             o == mapOpenedShare[n][e]
             U == UNION {ShareRange[c[k][1]] : k \in DOMAIN c}
  <1>1. \A k \in DOMAIN c : c[k][2] = Delegate
    BY Zenon DEF CollectedIsPublished, Published
  <1>2. o \in SUBSET (1..nTotal)
    BY DEF TypeOK
  <1>3. IsFiniteSet(o) /\ Cardinality(o) \in Nat
    <2> HIDE DEF o
    <2> QED
      BY <1>2, IndicesFinite, Zenon
  <1>4. CASE \A k \in DOMAIN c : e \in c[k][2] => ShareRange[c[k][1]] \subseteq o
    <2>1. U \in SUBSET o
      BY <1>1, <1>4, Zenon
    <2>2. Cardinality(U) <= Cardinality(o) /\ IsFiniteSet(U)
      <3> HIDE DEF U, o
      <3> QED
        BY Zenon, <1>3, <2>1, FS_Subset
    <2>3. Cardinality(U) >= nThresh
      BY Zenon DEF CollectedWeight
    <2>4. Cardinality(o) <= nThresh
      BY Zenon DEF OpenedUpToThresh
    <2> HIDE DEF U, o
    <2>5. Cardinality(U) \in Nat
      BY <2>2, FS_CardinalityType, Zenon
    <2>6. Cardinality(o) = nThresh
      BY <1>3, <2>2, <2>3, <2>4, <2>5, ThreshMajority
    <2> QED
      BY <2>6, Zenon DEF o
  <1> QED
    BY Zenon, <1>4 DEF OpenedUpToThresh

\* Whatever is lost or reordered, and whoever crashes or restarts: a node that
\* collected publications of a majority of the weight, when no publisher missed
\* a distribution, has reconstructed every secret.
THEOREM MajorityIsEnough == Spec => []MajorityCompletes
  <1>1. Init => OpenedUpToThresh
    <2> SUFFICES ASSUME Init, NEW n \in Node, NEW e \in Delegate
                 PROVE  vCollected[n] = <<>> /\ Cardinality(mapOpenedShare[n][e]) <= nThresh
      BY DEF OpenedUpToThresh
    <2>1. vCollected[n] = <<>> /\ mapOpenedShare[n][e] = {}
      BY Zenon DEF Init, NothingOpened
    <2> QED
      BY <2>1, FS_EmptySet, ThreshMajority
  <1>2. IInv => TypeOK /\ CollectedIsPublished
    BY Zenon DEF IInv
  <1> QED
    BY <1>1, <1>2, InductiveInvariant, NextOpened, OpenedCompletes, PTL DEF Spec

-----------------------------------------------------------------------------
(* The proof in a completed block.                                         *)

\* What a witness may have opened.
Opened == [Delegate -> SUBSET (1..nTotal)]

\* The witness collects publication k of the proof.
ReplayStep(proof) ==
  [k \in 1..Len(proof) |-> [v \in Opened |-> CollectShare(v, proof[k][1], proof[k][2])]]

\* Replay is the function its definition says.
LEMMA ReplayDef ==
  ASSUME NEW proof \in Seq(Publication)
  PROVE  /\ Replay(proof) \in [0..Len(proof) -> Opened]
         /\ Recursive(Replay(proof), Len(proof), NothingOpened, ReplayStep(proof))
  <1> DEFINE L == Len(proof)
             Share(k, v) == CollectShare(v, proof[k][1], proof[k][2])
             Defines(f) == f = [k \in 0..L |-> IF k = 0 THEN NothingOpened ELSE Share(k, f[k - 1])]
             step == ReplayStep(proof)
             h == Replay(proof)
  <1>1. L \in Nat /\ NothingOpened \in Opened
    BY SeqFunction, Zenon DEF NothingOpened, Opened
  <1>2. \A k \in 1..L, v \in Opened : Share(k, v) \in Opened
    <2> SUFFICES ASSUME NEW k \in 1..L, NEW v \in Opened PROVE Share(k, v) \in Opened
      BY Zenon
    <2>1. proof[k] \in Publication
      BY SeqElement, Zenon
    <2>2. proof[k][1] \in Delegate /\ proof[k][2] \in SUBSET Delegate
      BY <2>1, Zenon DEF Publication
    <2> QED
      BY <2>2, CollectShareBounds, Zenon DEF Opened
  <1>3. step = [k \in 1..L |-> [v \in Opened |-> Share(k, v)]]
    BY Zenon DEF ReplayStep
  <1>4. h = CHOOSE f : Defines(f)
    BY Zenon DEF Replay
  <1> HIDE DEF L, Share, h, step
  <1>5. step \in [1..L -> [Opened -> Opened]] /\ \A k \in 1..L, v \in Opened : step[k][v] = Share(k, v)
    BY <1>2, <1>3, Zenon
  <1>6. PICK g \in [0..L -> Opened] : Recursive(g, L, NothingOpened, step)
    BY <1>1, <1>5, RecursionExists, Zenon
  <1>7. g[0] = NothingOpened /\ \A k \in 1..L : g[k] = Share(k, g[k - 1])
    <2>1. \A k \in 1..L : k - 1 \in 0..L
      BY <1>1
    <2> QED
      BY <1>5, <1>6, <2>1, Zenon DEF Recursive
  <1>8. Defines(g)
    BY <1>1, <1>6, <1>7
  <1>9. Defines(h)
    <2> HIDE DEF Defines
    <2> QED
      BY <1>4, <1>8, Zenon
  <1>10. DOMAIN h = 0..L /\ h[0] = NothingOpened /\ \A k \in 1..L : h[k] = Share(k, h[k - 1])
    BY <1>1, <1>9
  <1>11. \A k \in 0..L : g[k] = h[k]
    <2>1. Follows(h, L, Opened, NothingOpened, step)
      BY <1>5, <1>10, Zenon DEF Follows
    <2> QED
      BY <1>1, <1>6, <2>1, RecursionUnique
  <1>12. h \in [0..L -> Opened]
    BY <1>9, <1>11, Zenon
  <1>13. Recursive(h, L, NothingOpened, step)
    <2>1. \A k \in 1..L : h[k - 1] \in Opened
      BY <1>1, <1>12
    <2> QED
      BY <1>5, <1>10, <2>1, Zenon DEF Recursive
  <1> QED
    BY <1>12, <1>13, Zenon DEF L, h, step

\* VerifyProof's witness starts with nothing open.
LEMMA ReplayEmpty == ReplayProof(<<>>) = NothingOpened
  <1>1. <<>> \in Seq(Publication) /\ Len(<<>>) = 0
    BY SeqEmpty, Zenon
  <1>2. Recursive(Replay(<<>>), Len(<<>>), NothingOpened, ReplayStep(<<>>))
    BY <1>1, ReplayDef, Zenon
  <1> QED
    BY <1>1, <1>2, Zenon DEF ReplayProof, Recursive

\* One more publication in the proof is one more Collect.
LEMMA ReplayAppend ==
  ASSUME NEW s \in Seq(Publication), NEW pub \in Publication
  PROVE  ReplayProof(Append(s, pub)) = CollectShare(ReplayProof(s), pub[1], pub[2])
  <1> DEFINE t == Append(s, pub)
             L == Len(s)
             g == Replay(s)
             h == Replay(t)
  <1>1. /\ t \in Seq(Publication) /\ Len(t) = L + 1 /\ L \in Nat
        /\ \A k \in 1..L : t[k] = s[k]
        /\ t[L + 1] = pub
    BY SeqAppend, SeqFunction
  <1>2. g \in [0..L -> Opened] /\ Recursive(g, L, NothingOpened, ReplayStep(s))
    BY ReplayDef, Zenon
  <1>3. h \in [0..L + 1 -> Opened] /\ Recursive(h, L + 1, NothingOpened, ReplayStep(t))
    <2> HIDE DEF t
    <2> QED
      BY <1>1, ReplayDef, Zenon
  <1>4. /\ \A k \in 1..L, v \in Opened : ReplayStep(s)[k][v] = CollectShare(v, s[k][1], s[k][2])
        /\ \A k \in 1..L + 1, v \in Opened : ReplayStep(t)[k][v] = CollectShare(v, t[k][1], t[k][2])
    BY <1>1, Zenon DEF ReplayStep
  <1> HIDE DEF t, g, h, L
  <1>5. \A k \in 1..L, v \in Opened : ReplayStep(t)[k][v] = ReplayStep(s)[k][v]
    BY <1>1, <1>4
  <1>6. Follows(h, L, Opened, NothingOpened, ReplayStep(s))
    <2>1. \A k \in 1..L : k \in 1..L + 1
      BY <1>1
    <2> QED
      BY <1>3, <1>5, <2>1, Zenon DEF Recursive, Follows
  <1>7. \A k \in 0..L : g[k] = h[k]
    BY <1>1, <1>2, <1>6, RecursionUnique
  <1>8. h[L + 1] = ReplayStep(t)[L + 1][h[L]] /\ h[L] \in Opened /\ g[L] = h[L]
    <2>1. L + 1 \in 1..L + 1 /\ (L + 1) - 1 = L /\ L \in 0..L + 1 /\ L \in 0..L
      BY <1>1
    <2>2. h[L + 1] = ReplayStep(t)[L + 1][h[(L + 1) - 1]]
      BY <1>3, <2>1, Zenon DEF Recursive
    <2> QED
      BY <1>3, <1>7, <2>1, <2>2, Zenon
  <1>9. h[L + 1] = CollectShare(g[L], pub[1], pub[2])
    <2>1. L + 1 \in 1..L + 1
      BY <1>1
    <2> QED
      BY <1>1, <1>4, <1>8, <2>1, Zenon
  <1> QED
    BY <1>1, <1>9, Zenon DEF ReplayProof, t, g, h, L

\* The effect of any step on a node's cached agreement and on its block.
LEMMA CacheEffect ==
  ASSUME TypeOK, [Next]_vars, NEW m \in Node
  PROVE  Caches(m) /\ Prepares(m)
  <1> USE DEF TypeOK
  <1>1. CASE UNCHANGED vars
    BY Zenon, <1>1 DEF vars, Caches, Prepares, Keeps
  <1>2. ASSUME NEW n \in Node, \/ CollectOwn(n) \/ EvolveEnroll(n) \/ EvolvePublish(n)
                               \/ OfferPublish(n) \/ AddNewBlock(n)
                               \/ \E e \in Delegate : HandleDistribute(n, e)
                               \/ \E pub \in netPublish : HandlePublish(n, pub)
        PROVE  Caches(m) /\ Prepares(m)
    <2>1. cacheAgreement' = cacheAgreement /\ block' = block
      BY Zenon, <1>2 DEF CollectOwn, EvolveEnroll, EvolvePublish, OfferPublish, AddNewBlock,
                  HandleDistribute, HandlePublish
    <2> QED
      BY Zenon, <2>1 DEF Caches, Prepares
  <1>3. ASSUME NEW n \in Node, GetNextConsensus(n) PROVE Caches(m) /\ Prepares(m)
    <2> DEFINE c == [cached |-> TRUE, agreement |-> Reconstruct(mapOpenedShare[n]),
                     fCompleted |-> IsCollectCompleted(mapOpenedShare[n])]
    <2>1. /\ cacheAgreement' = [cacheAgreement EXCEPT ![n] = c]
          /\ block' = block /\ vCollected' = vCollected /\ mapOpenedShare' = mapOpenedShare
      BY <1>3, Zenon DEF GetNextConsensus
    <2>2. /\ c.agreement = Reconstruct(mapOpenedShare[n])
          /\ c.fCompleted = IsCollectCompleted(mapOpenedShare[n])
      BY Zenon
    <2> HIDE DEF c
    <2>3. cacheAgreement'[m] = IF m = n THEN c ELSE cacheAgreement[m]
      BY <2>1, Zenon
    <2> QED
      BY Zenon, <2>1, <2>2, <2>3 DEF Caches, Prepares, Keeps
  <1>4. ASSUME NEW n \in Node, PrepareBlock(n) PROVE Caches(m) /\ Prepares(m)
    <2> DEFINE b == [agreement |-> cacheAgreement[n].agreement,
                     fCompleted |-> cacheAgreement[n].fCompleted, proof |-> vCollected[n]]
    <2>1. block' = [block EXCEPT ![n] = b] /\ cacheAgreement' = cacheAgreement
      BY <1>4, Zenon DEF PrepareBlock
    <2>2. /\ b.agreement = cacheAgreement[n].agreement
          /\ b.fCompleted = cacheAgreement[n].fCompleted /\ b.proof = vCollected[n]
      BY Zenon
    <2> HIDE DEF b
    <2>3. block'[m] = IF m = n THEN b ELSE block[m]
      BY <2>1, Zenon
    <2> QED
      BY Zenon, <2>1, <2>2, <2>3 DEF Caches, Prepares
  <1>5. ASSUME NEW n \in Node, Restart(n) \/ Crash(n) PROVE Caches(m) /\ Prepares(m)
    BY Zenon, <1>5 DEF Restart, Crash, Caches, Prepares
  <1> QED
    BY <1>1, <1>2, <1>3, <1>4, <1>5, Zenon DEF Next

\* Replaying what a node collected keeps giving what it opened.
LEMMA NextReplays == TypeOK /\ CollectedReplays /\ [Next]_vars => CollectedReplays'
  <1> SUFFICES ASSUME TypeOK, CollectedReplays, [Next]_vars, NEW m \in Node
               PROVE  ReplayProof(vCollected'[m]) = mapOpenedShare'[m]
    BY Zenon DEF CollectedReplays
  <1>1. ReplayProof(vCollected[m]) = mapOpenedShare[m]
    BY Zenon DEF CollectedReplays
  <1>2. CASE Keeps(m)
    BY Zenon, <1>1, <1>2 DEF Keeps
  <1>3. CASE Forgets(m)
    BY Zenon, <1>3, ReplayEmpty DEF Forgets
  <1>4. ASSUME NEW pub \in Publication, Collects(m, pub)
        PROVE  ReplayProof(vCollected'[m]) = mapOpenedShare'[m]
    <2>1. vCollected[m] \in Seq(Publication)
      BY Zenon DEF TypeOK
    <2> QED
      BY Zenon, <1>1, <1>4, <2>1, ReplayAppend DEF Collects
  <1> QED
    BY <1>2, <1>3, <1>4, CollectionEffect, Zenon

\* A complete agreement in the cache stays the vote's: nothing is collected
\* any more, and a crash or a restart empties the cache.
LEMMA NextCached == TypeOK /\ CachedIsCurrent /\ [Next]_vars => CachedIsCurrent'
  <1> SUFFICES ASSUME TypeOK, CachedIsCurrent, [Next]_vars, NEW m \in Node,
                      cacheAgreement'[m].fCompleted
               PROVE  /\ IsCollectCompleted(mapOpenedShare'[m])
                      /\ cacheAgreement'[m].agreement = Reconstruct(mapOpenedShare'[m])
    BY Zenon DEF CachedIsCurrent
  <1>1. cacheAgreement[m].fCompleted =>
           /\ IsCollectCompleted(mapOpenedShare[m])
           /\ cacheAgreement[m].agreement = Reconstruct(mapOpenedShare[m])
    BY Zenon DEF CachedIsCurrent
  <1>2. CASE cacheAgreement'[m] = cacheAgreement[m]
    <2>1. ~\E pub \in Publication : Collects(m, pub)
      BY Zenon, <1>1, <1>2 DEF Collects
    <2>2. ~Forgets(m)
      BY DEF Forgets, NoAgreement
    <2>3. Keeps(m)
      BY <2>1, <2>2, CollectionEffect, Zenon
    <2> QED
      BY Zenon, <1>1, <1>2, <2>3 DEF Keeps
  <1>3. CASE cacheAgreement'[m] = NoAgreement
    BY <1>3 DEF NoAgreement
  <1>4. CASE /\ Keeps(m)
             /\ cacheAgreement'[m].agreement = Reconstruct(mapOpenedShare[m])
             /\ cacheAgreement'[m].fCompleted = IsCollectCompleted(mapOpenedShare[m])
    BY Zenon, <1>4 DEF Keeps
  <1> QED
    BY <1>2, <1>3, <1>4, CacheEffect, Zenon DEF Caches

\* A block takes its agreement from the cache and its proof from the vote.
LEMMA NextVerifies ==
  /\ TypeOK /\ CollectedReplays /\ CachedIsCurrent
  /\ CompletedBlockVerifies /\ [Next]_vars
  => CompletedBlockVerifies'
  <1> SUFFICES ASSUME TypeOK, CollectedReplays, CachedIsCurrent, CompletedBlockVerifies,
                      [Next]_vars, NEW m \in Node, block'[m].fCompleted
               PROVE  Reconstruct(ReplayProof(block'[m].proof)) = block'[m].agreement
    BY Zenon DEF CompletedBlockVerifies, VerifyProof
  <1>1. CASE block'[m] = block[m]
    BY Zenon, <1>1 DEF CompletedBlockVerifies, VerifyProof
  <1>2. CASE /\ block'[m].fCompleted = cacheAgreement[m].fCompleted
             /\ block'[m].agreement = cacheAgreement[m].agreement
             /\ block'[m].proof = vCollected[m]
    BY Zenon, <1>2 DEF CachedIsCurrent, CollectedReplays
  <1> QED
    BY <1>1, <1>2, CacheEffect, Zenon DEF Prepares

\* A block whose agreement was cached when the collection was complete passes
\* VerifyProof everywhere, however long PrepareBlock waits and however often
\* nodes crash or restart in between.
THEOREM CompletedBlocksVerify == Spec => []CompletedBlockVerifies
  <1>1. Init => CollectedReplays /\ CachedIsCurrent /\ CompletedBlockVerifies
    <2> SUFFICES ASSUME Init, NEW n \in Node
                 PROVE  /\ ReplayProof(vCollected[n]) = mapOpenedShare[n]
                        /\ ~cacheAgreement[n].fCompleted /\ ~block[n].fCompleted
      BY Zenon DEF CollectedReplays, CachedIsCurrent, CompletedBlockVerifies
    <2>1. /\ vCollected[n] = <<>> /\ mapOpenedShare[n] = NothingOpened
          /\ cacheAgreement[n] = NoAgreement /\ block[n] = NoBlock
      BY Zenon DEF Init
    <2>2. ~NoAgreement.fCompleted /\ ~NoBlock.fCompleted
      BY Zenon DEF NoAgreement, NoBlock
    <2> QED
      BY Zenon, <2>1, <2>2, ReplayEmpty
  <1> QED
    BY <1>1, TypeCorrect, NextReplays, NextCached, NextVerifies, PTL DEF Spec

=============================================================================

---------------------------- MODULE DelegateVote ----------------------------
(***************************************************************************)
(* One round of the delegated consensus, for one target height, run by all *)
(* nodes: the publicly verifiable secret sharing of src/src/mpvss, the     *)
(* per-round vote of src/src/delegate/delegatevote.cpp, the calls          *)
(* CConsensus makes of it, and the block maker taking the agreement and    *)
(* its proof.                                                              *)
(*                                                                         *)
(* A secret is named by the delegate that dealt it.  Cryptography is       *)
(* ideal: a share is its index, an honest delegate's message verifies, and *)
(* a secret is reconstructed exactly when nThresh of its shares are open.  *)
(* An agreement, in the code the hash of the reconstructed secrets in the  *)
(* order of their identities, is the set of delegates whose secrets were   *)
(* reconstructed: the empty set is the code's nAgreement = 0.              *)
(***************************************************************************)
EXTENDS Integers, Sequences, FiniteSets, Functions

CONSTANTS
    Node,         \* the nodes
    vCandidate,   \* the candidates enrolled in the anchor block, in map order
    Weight,       \* Weight[d]: the number of shares candidate d weighs
    mapDelegate,  \* mapDelegate[n]: the candidates node n runs, in map order
    Miner,        \* the nodes whose block maker runs
    Ballot,       \* Ballot[S]: the delegate that agreement S elects
    MaxRestart,   \* MaxRestart[n]: bound on the clean restarts of node n
    MaxCrash      \* bound on the number of crashes

Delegate == Range(vCandidate)

(***************************************************************************)
(* Enroll gives each candidate, in order, the next Weight[d] indices from  *)
(* 1, and nThresh = (nLastIndex - 1) / 2 + 1.                              *)
(***************************************************************************)
nLastIndex[k \in 0..Len(vCandidate)] ==
    IF k = 0 THEN 1 ELSE nLastIndex[k - 1] + Weight[vCandidate[k]]

nIndex == [d \in Delegate |->
              nLastIndex[(CHOOSE k \in DOMAIN vCandidate : vCandidate[k] = d) - 1]]

ShareRange == [d \in Delegate |-> nIndex[d] .. nIndex[d] + Weight[d] - 1]

nTotal == nLastIndex[Len(vCandidate)] - 1

nThresh == nTotal \div 2 + 1

\* The delegates of node n.
Own(n) == Range(mapDelegate[n])

Publication == Delegate \X SUBSET Delegate

ASSUME ConstantsAssumption ==
    /\ vCandidate \in Seq(Delegate)
    /\ Weight \in [Delegate -> Nat \ {0}]
    /\ mapDelegate \in [Node -> Seq(Delegate)]
    /\ \A m, n \in Node : m # n => Own(m) \cap Own(n) = {}
    /\ Miner \subseteq Node
    /\ Ballot \in [SUBSET Delegate -> Delegate]
    /\ MaxRestart \in [Node -> Nat]
    /\ MaxCrash \in Nat

VARIABLES
    phase,          \* phase[n]: how far node n's chain is into the round
    accepted,       \* accepted[d]: dealers whose shares d holds (vShare not empty)
    netDistribute,  \* delegates whose distribute data is in the network
    netPublish,     \* publish data in the network: <<publisher, secrets it opens>>
    mapPublishData, \* mapPublishData[n]: what n's delegates publish, in map order
    nCollected,     \* nCollected[n]: how many of these n's own vote has been given
    vCollected,     \* vCollected[n]: publish data n's vote collected, in order
    mapOpenedShare, \* mapOpenedShare[n][e]: indices of e's shares open at n
    cacheAgreement, \* cacheAgreement[n]: agreement cached by GetNextConsensus
    block,          \* block[n]: the block n prepared last
    nRestart,       \* nRestart[n]: number of clean restarts of n so far
    nCrash          \* number of crashes so far

vars == <<phase, accepted, netDistribute, netPublish, mapPublishData, nCollected,
          vCollected, mapOpenedShare, cacheAgreement, block, nRestart, nCrash>>

NoAgreement == [cached |-> FALSE, agreement |-> {}, fCompleted |-> FALSE]

NoBlock == [agreement |-> {}, fCompleted |-> FALSE, proof |-> <<>>]

-----------------------------------------------------------------------------
(* CMPSecretShare: the witness share of a vote.                            *)

\* Mutant of CollectShare: indices counted from nIndexFrom + 1.
CollectShareShifted(opened, from, S) ==
    [e \in Delegate |->
        IF e \notin S THEN opened[e]
        ELSE opened[e] \cup {i + 1 : i \in ShareRange[from]}]

\* Mutant of CollectShare: stops one share short of nThresh.
CollectShareShort(opened, from, S) ==
    [e \in Delegate |->
        IF e \notin S THEN opened[e]
        ELSE LET fresh == ShareRange[from] \ opened[e]
                 room  == nThresh - 1 - Cardinality(opened[e])
             IN  opened[e] \cup
                 {i \in fresh : Cardinality({j \in fresh : j < i}) < room}]

\* Collect: of each secret in S, open the shares of from that are not open yet,
\* in the order of their indices, as long as fewer than nThresh are open.
CollectShare(opened, from, S) ==
    [e \in Delegate |->
        IF e \notin S THEN opened[e]
        ELSE LET fresh == ShareRange[from] \ opened[e]
                 room  == nThresh - Cardinality(opened[e])
             IN  opened[e] \cup
                 {i \in fresh : Cardinality({j \in fresh : j < i}) < room}]

\* mapOpenedShare's keys: the secrets some collected publication opens.
OpenedKeys(opened) == {e \in Delegate : opened[e] # {}}

\* Reconstruct: the secrets with exactly nThresh open shares.
Reconstruct(opened) == {e \in Delegate : Cardinality(opened[e]) = nThresh}

\* Mutant of IsCollectCompleted: one reconstructed secret is enough.
IsCollectCompletedEarly(opened) == Reconstruct(opened) # {}

\* IsCollectCompleted, of the witness (it accepts no shares of its own).
IsCollectCompleted(opened) ==
    /\ OpenedKeys(opened) # {}
    /\ OpenedKeys(opened) \subseteq Reconstruct(opened)

NothingOpened == [e \in Delegate |-> {}]

-----------------------------------------------------------------------------
(* CDelegateVote.                                                          *)

\* Collect: a publisher already collected is ignored, and so is everybody once
\* the collection is complete.
Ignored(n, pub) ==
    \/ \E k \in DOMAIN vCollected[n] : vCollected[n][k][1] = pub[1]
    \/ IsCollectCompleted(mapOpenedShare[n])

HandleCollect(n, pub) ==
    IF Ignored(n, pub)
    THEN UNCHANGED <<vCollected, mapOpenedShare>>
    ELSE /\ vCollected' = [vCollected EXCEPT ![n] = Append(@, pub)]
         /\ mapOpenedShare' = [mapOpenedShare EXCEPT ![n] = CollectShare(@, pub[1], pub[2])]

\* Publish: the shares delegate d accepted, and its own.
PublishData(d) == <<d, accepted[d] \cup {d}>>

\* The publications of node n's delegates, in map order.
OwnPublications(n) ==
    [k \in DOMAIN mapDelegate[n] |-> PublishData(mapDelegate[n][k])]

\* VerifyProof: a fresh witness collects the publications of the proof in order.
Replay(proof) ==
    LET opened[k \in 0..Len(proof)] ==
            IF k = 0 THEN NothingOpened
            ELSE CollectShare(opened[k - 1], proof[k][1], proof[k][2])
    IN  opened

ReplayProof(proof) == Replay(proof)[Len(proof)]

VerifyProof(b) == Reconstruct(ReplayProof(b.proof)) = b.agreement

-----------------------------------------------------------------------------
Init ==
    /\ phase = [n \in Node |-> "setup"]
    /\ accepted = [d \in Delegate |-> {}]
    /\ netDistribute = {}
    /\ netPublish = {}
    /\ mapPublishData = [n \in Node |-> <<>>]
    /\ nCollected = [n \in Node |-> 0]
    /\ vCollected = [n \in Node |-> <<>>]
    /\ mapOpenedShare = [n \in Node |-> NothingOpened]
    /\ cacheAgreement = [n \in Node |-> NoAgreement]
    /\ block = [n \in Node |-> NoBlock]
    /\ nRestart = [n \in Node |-> 0]
    /\ nCrash = 0

(***************************************************************************)
(* The anchor block reaches node n: Evolve enrolls the candidates and      *)
(* distributes, PrimaryUpdate hands the node's own distribute data back to *)
(* its own vote, and the delegated channel offers it to the peers.         *)
(***************************************************************************)
EvolveEnroll(n) ==
    /\ phase[n] = "setup"
    /\ phase' = [phase EXCEPT ![n] = "distribute"]
    /\ accepted' = [d \in Delegate |->
                       IF d \in Own(n) THEN accepted[d] \cup (Own(n) \ {d})
                       ELSE accepted[d]]
    /\ netDistribute' = netDistribute \cup Own(n)
    /\ UNCHANGED <<netPublish, mapPublishData, nCollected, vCollected, mapOpenedShare,
                   cacheAgreement, block, nRestart, nCrash>>

\* Distribute data of delegate e arrives at n: every delegate of n accepts its shares.
HandleDistribute(n, e) ==
    /\ phase[n] \in {"distribute", "publish"}
    /\ e \in netDistribute
    /\ accepted' = [d \in Delegate |->
                       IF d \in Own(n) \ {e} THEN accepted[d] \cup {e}
                       ELSE accepted[d]]
    /\ UNCHANGED <<phase, netDistribute, netPublish, mapPublishData, nCollected,
                   vCollected, mapOpenedShare, cacheAgreement, block, nRestart, nCrash>>

(***************************************************************************)
(* The block before the target reaches n: Evolve publishes for the node's  *)
(* delegates.  PrimaryUpdate then collects these publications one by one   *)
(* with CConsensus::mutex held, so that nothing else happens to n's vote   *)
(* in the phase "collect", and at the end the delegated channel offers     *)
(* them.                                                                   *)
(***************************************************************************)
EvolvePublish(n) ==
    /\ phase[n] = "distribute"
    /\ phase' = [phase EXCEPT ![n] = "collect"]
    /\ mapPublishData' = [mapPublishData EXCEPT ![n] = OwnPublications(n)]
    /\ UNCHANGED <<accepted, netDistribute, netPublish, nCollected, vCollected,
                   mapOpenedShare, cacheAgreement, block, nRestart, nCrash>>

CollectOwn(n) ==
    /\ phase[n] = "collect"
    /\ nCollected[n] < Len(mapPublishData[n])
    /\ nCollected' = [nCollected EXCEPT ![n] = @ + 1]
    /\ HandleCollect(n, mapPublishData[n][nCollected[n] + 1])
    /\ UNCHANGED <<phase, accepted, netDistribute, netPublish, mapPublishData,
                   cacheAgreement, block, nRestart, nCrash>>

OfferPublish(n) ==
    /\ phase[n] = "collect"
    /\ nCollected[n] = Len(mapPublishData[n])
    /\ phase' = [phase EXCEPT ![n] = "publish"]
    /\ netPublish' = netPublish \cup Range(mapPublishData[n])
    /\ UNCHANGED <<accepted, netDistribute, mapPublishData, nCollected, vCollected,
                   mapOpenedShare, cacheAgreement, block, nRestart, nCrash>>

\* Publish data arrives at n while the anchor is n's oldest block in range.
HandlePublish(n, pub) ==
    /\ phase[n] = "publish"
    /\ pub \in netPublish
    /\ HandleCollect(n, pub)
    /\ UNCHANGED <<phase, accepted, netDistribute, netPublish, mapPublishData,
                   nCollected, cacheAgreement, block, nRestart, nCrash>>

\* Mutant of GetNextConsensus: takes any agreement for a complete one.
GetNextConsensusEager(n) ==
    /\ n \in Miner
    /\ phase[n] = "publish"
    /\ \/ ~cacheAgreement[n].cached
       \/ cacheAgreement[n].agreement = {} /\ ~cacheAgreement[n].fCompleted
    /\ cacheAgreement' =
          [cacheAgreement EXCEPT
              ![n] = [cached     |-> TRUE,
                      agreement  |-> Reconstruct(mapOpenedShare[n]),
                      fCompleted |-> Reconstruct(mapOpenedShare[n]) # {}]]
    /\ UNCHANGED <<phase, accepted, netDistribute, netPublish, mapPublishData,
                   nCollected, vCollected, mapOpenedShare, block, nRestart, nCrash>>

(***************************************************************************)
(* GetNextConsensus: the agreement is computed once per tip and cached; it *)
(* is computed again only while the cached one is proof of work (no secret *)
(* reconstructed) and was not completed.                                   *)
(***************************************************************************)
GetNextConsensus(n) ==
    /\ n \in Miner
    /\ phase[n] = "publish"
    /\ \/ ~cacheAgreement[n].cached
       \/ cacheAgreement[n].agreement = {} /\ ~cacheAgreement[n].fCompleted
    /\ cacheAgreement' =
          [cacheAgreement EXCEPT
              ![n] = [cached     |-> TRUE,
                      agreement  |-> Reconstruct(mapOpenedShare[n]),
                      fCompleted |-> IsCollectCompleted(mapOpenedShare[n])]]
    /\ UNCHANGED <<phase, accepted, netDistribute, netPublish, mapPublishData,
                   nCollected, vCollected, mapOpenedShare, block, nRestart, nCrash>>

\* PrepareBlock, when the agreement elects a delegate of n: the agreement
\* comes from the cache, the proof is what the vote has collected by now.
PrepareBlock(n) ==
    /\ phase[n] = "publish"
    /\ cacheAgreement[n].agreement # {}
    /\ Ballot[cacheAgreement[n].agreement] \in Own(n)
    /\ block' = [block EXCEPT
                    ![n] = [agreement  |-> cacheAgreement[n].agreement,
                            fCompleted |-> cacheAgreement[n].fCompleted,
                            proof      |-> vCollected[n]]]
    /\ UNCHANGED <<phase, accepted, netDistribute, netPublish, mapPublishData,
                   nCollected, vCollected, mapOpenedShare, cacheAgreement, nRestart, nCrash>>

\* The target block reaches n: the anchor leaves the delegated channel's range.
AddNewBlock(n) ==
    /\ phase[n] = "publish"
    /\ phase' = [phase EXCEPT ![n] = "closed"]
    /\ UNCHANGED <<accepted, netDistribute, netPublish, mapPublishData, nCollected,
                   vCollected, mapOpenedShare, cacheAgreement, block, nRestart, nCrash>>

(***************************************************************************)
(* A clean restart of n while it is publishing: the votes are saved at     *)
(* HandleHalt and loaded again, the agreement cache starts empty, and      *)
(* LoadConsensusData publishes from the loaded vote, which may hold shares *)
(* accepted since the first publication.                                   *)
(***************************************************************************)
Restart(n) ==
    /\ phase[n] = "publish"
    /\ nRestart[n] < MaxRestart[n]
    /\ nRestart' = [nRestart EXCEPT ![n] = @ + 1]
    /\ cacheAgreement' = [cacheAgreement EXCEPT ![n] = NoAgreement]
    /\ netPublish' = netPublish \cup Range(OwnPublications(n))
    /\ UNCHANGED <<phase, accepted, netDistribute, mapPublishData, nCollected,
                   vCollected, mapOpenedShare, block, nCrash>>

(***************************************************************************)
(* Node n dies without HandleHalt: its votes of this round, secrets        *)
(* included, were only in memory.  With no vote of the target height every *)
(* handler of the round returns early.                                     *)
(***************************************************************************)
Crash(n) ==
    /\ phase[n] # "closed"
    /\ nCrash < MaxCrash
    /\ nCrash' = nCrash + 1
    /\ phase' = [phase EXCEPT ![n] = "closed"]
    /\ mapPublishData' = [mapPublishData EXCEPT ![n] = <<>>]
    /\ nCollected' = [nCollected EXCEPT ![n] = 0]
    /\ vCollected' = [vCollected EXCEPT ![n] = <<>>]
    /\ mapOpenedShare' = [mapOpenedShare EXCEPT ![n] = NothingOpened]
    /\ cacheAgreement' = [cacheAgreement EXCEPT ![n] = NoAgreement]
    /\ UNCHANGED <<accepted, netDistribute, netPublish, block, nRestart>>

Next ==
    \E n \in Node :
        \/ EvolveEnroll(n)
        \/ \E e \in Delegate : HandleDistribute(n, e)
        \/ EvolvePublish(n)
        \/ CollectOwn(n)
        \/ OfferPublish(n)
        \/ \E pub \in netPublish : HandlePublish(n, pub)
        \/ GetNextConsensus(n)
        \/ PrepareBlock(n)
        \/ AddNewBlock(n)
        \/ Restart(n)
        \/ Crash(n)

Spec == Init /\ [][Next]_vars

-----------------------------------------------------------------------------
\* The fields of the votes, of CConsensus' cache and of the blocks keep their
\* types; in particular an open share has an index that Enroll handed out.
TypeOK ==
    /\ phase \in [Node -> {"setup", "distribute", "collect", "publish", "closed"}]
    /\ accepted \in [Delegate -> SUBSET Delegate]
    /\ netDistribute \subseteq Delegate
    /\ netPublish \subseteq Publication
    /\ mapPublishData \in [Node -> Seq(Publication)]
    /\ nCollected \in [Node -> Nat]
    /\ vCollected \in [Node -> Seq(Publication)]
    /\ mapOpenedShare \in [Node -> [Delegate -> SUBSET (1..nTotal)]]
    /\ cacheAgreement \in [Node -> [cached : BOOLEAN, agreement : SUBSET Delegate,
                                     fCompleted : BOOLEAN]]
    /\ block \in [Node -> [agreement : SUBSET Delegate, fCompleted : BOOLEAN,
                            proof : Seq(Publication)]]
    /\ nRestart \in [Node -> Nat]
    /\ nCrash \in 0..MaxCrash

\* Everything published, whether it has been offered to the peers yet or not.
Published == netPublish \cup UNION {Range(mapPublishData[n]) : n \in Node}

\* No delegate has published two different sets of shares.
PublishedOnce == \A p, q \in Published : p[1] = q[1] => p = q

\* Whatever order publications reach the nodes in, and whichever of them are
\* lost: a node whose collection is complete (IsCollectCompleted) has
\* reconstructed every secret that any node has reconstructed.  So two complete
\* nodes hold the same agreement.  It needs PublishedOnce, which a restart of a
\* publishing node can break (LoadConsensusData publishes again).
CompletedDominates ==
    PublishedOnce =>
        \A m, n \in Node :
            IsCollectCompleted(mapOpenedShare[m]) =>
                Reconstruct(mapOpenedShare[n]) \subseteq Reconstruct(mapOpenedShare[m])

\* A block whose agreement was cached by GetNextConsensus when the collection
\* was complete passes VerifyProof on every node, although its proof is taken
\* from the vote later (PrepareBlock), after more publications arrived.
CompletedBlockVerifies == \A n \in Node : block[n].fCompleted => VerifyProof(block[n])

\* Weight of the delegates whose publications node n collected.
CollectedWeight(n) ==
    Cardinality(UNION {ShareRange[vCollected[n][k][1]] : k \in DOMAIN vCollected[n]})

\* When nobody missed a distribution before publishing, delegates that hold a
\* majority of the weight are enough: a node that collected theirs is complete
\* and knows every secret.
MajorityCompletes ==
    \A n \in Node :
        (/\ \A p \in Published : p[2] = Delegate
         /\ CollectedWeight(n) >= nThresh)
        => Reconstruct(mapOpenedShare[n]) = Delegate

-----------------------------------------------------------------------------
(* The invariants that make the properties above inductive.                *)

\* An open share was opened by a collected publication of its owner.
OpenedFromCollected ==
    \A n \in Node : \A e \in Delegate : \A i \in mapOpenedShare[n][e] :
        \E k \in DOMAIN vCollected[n] :
            i \in ShareRange[vCollected[n][k][1]] /\ e \in vCollected[n][k][2]

\* A collected publication has opened a share of each of its secrets.
CollectedIsOpened ==
    \A n \in Node : \A k \in DOMAIN vCollected[n] : \A e \in vCollected[n][k][2] :
        mapOpenedShare[n][e] # {}

\* What a node collected came from the network or from its own delegates.
CollectedIsPublished ==
    \A n \in Node : \A k \in DOMAIN vCollected[n] :
        vCollected[n][k] \in netPublish \cup Range(mapPublishData[n])

\* Before the node's own delegates publish, its vote has collected nothing.
EmptyBeforePublish ==
    \A n \in Node : phase[n] \in {"setup", "distribute"} => vCollected[n] = <<>>

IInv == TypeOK /\ OpenedFromCollected /\ CollectedIsOpened /\ CollectedIsPublished

\* Of a secret either nThresh shares are open or all that were collected.
OpenedUpToThresh ==
    \A n \in Node : \A e \in Delegate :
        /\ Cardinality(mapOpenedShare[n][e]) <= nThresh
        /\ \/ Cardinality(mapOpenedShare[n][e]) = nThresh
           \/ \A k \in DOMAIN vCollected[n] :
                 e \in vCollected[n][k][2] => ShareRange[vCollected[n][k][1]] \subseteq mapOpenedShare[n][e]

\* A witness that collects what a node did, in that order, opens the same shares.
CollectedReplays == \A n \in Node : ReplayProof(vCollected[n]) = mapOpenedShare[n]

\* An agreement cached as complete is the one the vote still holds.
CachedIsCurrent ==
    \A n \in Node : cacheAgreement[n].fCompleted =>
        /\ IsCollectCompleted(mapOpenedShare[n])
        /\ cacheAgreement[n].agreement = Reconstruct(mapOpenedShare[n])
=============================================================================

--------------------------- MODULE MCDelegateVote ---------------------------
(***************************************************************************)
(* Three delegates of weight 1: 3 shares, 2 of them needed.  Every node    *)
(* may be missing any distribution and any publication, so that the nodes' *)
(* collections really differ; one of them makes blocks.  The delegates run *)
(* on three nodes, one of which may crash, or on two that may both         *)
(* restart: a behaviour is one of either, chosen in the initial state.     *)
(***************************************************************************)
EXTENDS DelegateVote

CONSTANTS a, b, c, n1, n2, n3

VARIABLES part, phase2, accepted2, netDistribute2, netPublish2, mapPublishData2, nCollected2,
          vCollected2, mapOpenedShare2, cacheAgreement2, block2, nRestart2, nCrash2

vars2 == <<phase2, accepted2, netDistribute2, netPublish2, mapPublishData2, nCollected2,
           vCollected2, mapOpenedShare2, cacheAgreement2, block2, nRestart2, nCrash2>>

MCNode == {n1, n2, n3}

MCCandidate == <<a, b, c>>

MCWeight == [d \in {a, b, c} |-> 1]

MCDelegates == [n \in MCNode |->
                   CASE n = n1 -> <<a>> [] n = n2 -> <<b>> [] n = n3 -> <<c>>]

MCMiner == {n1}

\* The block maker's delegate wins whenever its secret is part of the agreement.
MCBallot == [S \in SUBSET {a, b, c} |-> IF a \in S THEN a ELSE b]

NoRestart == [n \in MCNode |-> 0]

Restarts == INSTANCE DelegateVote WITH
    Node <- {n1, n2}, mapDelegate <- [n \in {n1, n2} |-> IF n = n1 THEN <<a>> ELSE <<b, c>>],
    MaxRestart <- [n \in {n1, n2} |-> 1], MaxCrash <- 0,
    phase <- phase2, accepted <- accepted2, netDistribute <- netDistribute2, netPublish <- netPublish2,
    mapPublishData <- mapPublishData2, nCollected <- nCollected2, vCollected <- vCollected2,
    mapOpenedShare <- mapOpenedShare2, cacheAgreement <- cacheAgreement2, block <- block2,
    nRestart <- nRestart2, nCrash <- nCrash2

VoteInit == part \in {"three nodes", "restarts"} /\ Init /\ Restarts!Init

VoteNext ==
    /\ UNCHANGED part
    /\ \/ part = "three nodes" /\ Next /\ UNCHANGED vars2
       \/ part = "restarts" /\ Restarts!Next /\ UNCHANGED vars

VoteSpec == VoteInit /\ [][VoteNext]_<<part, vars, vars2>>

\* A block made from a complete collection passes VerifyProof on every node even
\* if nodes restart and publish again (LoadConsensusData), with more shares
BlockVerifiesAfterRestart == part = "restarts" => Restarts!CompletedBlockVerifies

(***************************************************************************)
(* Shares accepted after a node of three published play no role any more:  *)
(* states that differ in them have the same future.                        *)
(***************************************************************************)
AcceptedInUse ==
    [n \in Node |->
        IF phase[n] \in {"setup", "distribute"} THEN {<<d, accepted[d]>> : d \in Own(n)} ELSE {}]

MCView == <<part, phase, AcceptedInUse, netDistribute, netPublish, mapPublishData, nCollected,
            vCollected, mapOpenedShare, cacheAgreement, block, nCrash, vars2>>
=============================================================================

-------------------------- MODULE MCNetChannelCases --------------------------
(***************************************************************************)
(* Four instances of NetChannel, one of which is chosen in the initial     *)
(* state: a chain whose requests may time out, a sub-fork, a chain longer  *)
(* than a peer's list can hold, and blocks that cannot be stored.          *)
(***************************************************************************)
EXTENDS Integers

CONSTANTS NoPeer, NoBlock,
          g0, r1, r2, r3, r4, r5, s0, s1, s2, s3, p1, p2, primary, sub

VARIABLES instance,
  status, closing, listKnown, setAssigned, mapRepeat, mapState, nAssigned, received, setKnownPeer,
  nGetDataCount, fRepeatMint, orphan, refBlock, chain, pc, vInv, vBlockHash, vRefNextBlock,
  setSchedPeer, setMisbehave, minted, nGetFail, skipped

vars == <<instance,
  status, closing, listKnown, setAssigned, mapRepeat, mapState, nAssigned, received, setKnownPeer,
  nGetDataCount, fRepeatMint, orphan, refBlock, chain, pc, vInv, vBlockHash, vRefNextBlock,
  setSchedPeer, setMisbehave, minted, nGetFail, skipped>>

\* A chain of three blocks on the genesis block
ChainBlocks == {g0, r1, r2, r3}
ChainNew == {r1, r2, r3}
ChainForkOf == [b \in ChainBlocks |-> primary]
ChainPrev == [b \in ChainNew |-> CASE b = r1 -> g0 [] b = r2 -> r1 [] b = r3 -> r2]
ChainRef == [b \in ChainBlocks |-> NoBlock]
ChainHeight == [b \in ChainBlocks |-> CASE b = g0 -> 0 [] b = r1 -> 1 [] b = r2 -> 2 [] b = r3 -> 3]
ChainHas == [p \in {p1, p2} |-> ChainNew]

\* A sub-fork that starts at s0: s1 refers to the new primary block r1, s2 and
\* s3 follow s1, s2 repeats another block and s3 refers to r1 again
ForkedBlocks == {g0, r1, s0, s1, s2, s3}
ForkedNew == {r1, s1, s2, s3}
ForkedForkOf == [b \in ForkedBlocks |-> IF b \in {g0, r1} THEN primary ELSE sub]
ForkedPrev == [b \in ForkedNew |-> CASE b = r1 -> g0 [] b = s1 -> s0 [] OTHER -> s1]
ForkedRef == [b \in ForkedBlocks |-> CASE b \in {s1, s3} -> r1 [] b = s2 -> g0 [] OTHER -> NoBlock]
ForkedHeight == [b \in ForkedBlocks |-> CASE b = g0 -> 0 [] b \in {r1, s0} -> 1
                                           [] b = s1 -> 2 [] OTHER -> 3]
ForkedHas == [p \in {p1, p2} |-> IF p = p1 THEN ForkedNew ELSE {s1}]

\* One peer announces a chain of five blocks, longer than what fits in its list
LongBlocks == ChainBlocks \cup {r4, r5}
LongNew == ChainNew \cup {r4, r5}
LongForkOf == [b \in LongBlocks |-> primary]
LongPrev == [b \in LongNew |-> CASE b = r4 -> r3 [] b = r5 -> r4 [] OTHER -> ChainPrev[b]]
LongRef == [b \in LongBlocks |-> NoBlock]
LongHeight == [b \in LongBlocks |-> CASE b = r4 -> 4 [] b = r5 -> 5 [] OTHER -> ChainHeight[b]]
LongHas == [p \in {p1} |-> LongNew]

\* Blocks that cannot be stored: s1 claims a previous block of the primary
\* fork and s2 follows it, s3 is premature, r1 is invalid and r2 follows it, the
\* proof of r3 cannot be read and r4 is off the checkpoint
OddBlocks == {g0, s0, s1, s2, s3, r1, r2, r3, r4}
OddNew == {s1, s2, s3, r1, r2, r3, r4}
OddForkOf == [b \in OddBlocks |-> IF b = g0 THEN primary ELSE sub]
OddPrev == [b \in OddNew |-> CASE b = s1 -> g0 [] b = s2 -> s1 [] b = r2 -> r1 [] OTHER -> s0]
OddRef == [b \in OddBlocks |-> IF b \in OddNew THEN g0 ELSE NoBlock]
OddHeight == [b \in OddBlocks |-> CASE b = g0 -> 0 [] b \in {s2, r2} -> 3 [] b = s0 -> 1 [] OTHER -> 2]
OddHas == [p \in {p1, p2} |-> IF p = p1 THEN OddNew \ {r2} ELSE {r2}]

Chain == INSTANCE NetChannel WITH
  Peer <- {p1, p2}, Block <- ChainBlocks, Fork <- {primary}, Genesis <- {g0}, ForkOf <- ChainForkOf,
  Prev <- ChainPrev, Ref <- ChainRef, Height <- ChainHeight, Valid <- ChainNew, Repeat <- {},
  Premature <- {}, OffCheckPoint <- {}, NoProof <- {}, Has <- ChainHas, Steady <- {p1},
  MayExpire <- {r1, r2}, MayMint <- {r1}, MaxGetFail <- 2, MAX_INV_COUNT <- 4,
  MAX_PEER_BLOCK_INV_COUNT <- 4, MAX_REGETDATA_COUNT <- 2, MAX_REPEAT_BLOCK_COUNT <- 2, nMaxCount <- 2

Forked == INSTANCE NetChannel WITH
  Peer <- {p1, p2}, Block <- ForkedBlocks, Fork <- {primary, sub}, Genesis <- {g0, s0}, ForkOf <- ForkedForkOf,
  Prev <- ForkedPrev, Ref <- ForkedRef, Height <- ForkedHeight, Valid <- ForkedNew, Repeat <- {s2},
  Premature <- {}, OffCheckPoint <- {}, NoProof <- {}, Has <- ForkedHas, Steady <- {p1},
  MayExpire <- {}, MayMint <- {r1}, MaxGetFail <- 2, MAX_INV_COUNT <- 4,
  MAX_PEER_BLOCK_INV_COUNT <- 4, MAX_REGETDATA_COUNT <- 2, MAX_REPEAT_BLOCK_COUNT <- 2, nMaxCount <- 2

Long == INSTANCE NetChannel WITH
  Peer <- {p1}, Block <- LongBlocks, Fork <- {primary}, Genesis <- {g0}, ForkOf <- LongForkOf,
  Prev <- LongPrev, Ref <- LongRef, Height <- LongHeight, Valid <- LongNew, Repeat <- {},
  Premature <- {}, OffCheckPoint <- {}, NoProof <- {}, Has <- LongHas, Steady <- {p1},
  MayExpire <- {}, MayMint <- {r1}, MaxGetFail <- 2, MAX_INV_COUNT <- 8,
  MAX_PEER_BLOCK_INV_COUNT <- 4, MAX_REGETDATA_COUNT <- 2, MAX_REPEAT_BLOCK_COUNT <- 2, nMaxCount <- 2

Odd == INSTANCE NetChannel WITH
  Peer <- {p1, p2}, Block <- OddBlocks, Fork <- {primary, sub}, Genesis <- {g0, s0}, ForkOf <- OddForkOf,
  Prev <- OddPrev, Ref <- OddRef, Height <- OddHeight, Valid <- OddNew \ {r1}, Repeat <- {},
  Premature <- {s3}, OffCheckPoint <- {r4}, NoProof <- {r3}, Has <- OddHas, Steady <- {p2},
  MayExpire <- {s3}, MayMint <- {}, MaxGetFail <- 0, MAX_INV_COUNT <- 4,
  MAX_PEER_BLOCK_INV_COUNT <- 4, MAX_REGETDATA_COUNT <- 2, MAX_REPEAT_BLOCK_COUNT <- 2, nMaxCount <- 2

Init ==
  \/ instance = "chain" /\ Chain!Init
  \/ instance = "forked" /\ Forked!Init
  \/ instance = "long" /\ Long!Init
  \/ instance = "odd" /\ Odd!Init

Next ==
  /\ UNCHANGED instance
  /\ \/ instance = "chain" /\ Chain!Next
     \/ instance = "forked" /\ Forked!Next
     \/ instance = "long" /\ Long!Next
     \/ instance = "odd" /\ Odd!Next

Spec == Init /\ [][Next]_vars

\* When requests time out, and when blocks wait for the block they refer to, no
\* block stays requested from a peer that does not owe it and a received block
\* that can be stored is submitted; the scheduler's indexes agree (NetChannel)
DownloadsSafely ==
  CASE instance = "chain" -> Chain!NotWedged /\ Chain!IndexConsistent /\ Chain!ReceivedIsSubmitted
    [] instance = "forked" -> Forked!NotWedged /\ Forked!ReceivedIsSubmitted
    [] OTHER -> TRUE

\* A peer that announces only what is valid is not reported (NetChannel): not
\* for blocks beyond the height window, and not for a block above an invalid
\* one that another peer sent
SteadyNotReported ==
  CASE instance = "long" -> Long!SteadyNotReported [] instance = "odd" -> Odd!SteadyNotReported
    [] OTHER -> TRUE
=============================================================================

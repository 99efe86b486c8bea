-------------------------- MODULE NetChannelProofs --------------------------
(***************************************************************************)
(* Proofs about NetChannel, for any peers, forks, blocks and bounds: the   *)
(* scheduler's indexes agree, no block is wedged, and no received block    *)
(* that could be stored is forgotten.                                      *)
(***************************************************************************)
EXTENDS NetChannel, TLAPS

\* Only connected peers are known to have a block, and the peer whose
\* announcement is being read is connected
KnownActive ==
  /\ \A b \in Block : \A p \in setKnownPeer[b] : status[p] = "active"
  /\ pc = "inv" => \A f \in Fork, p \in Peer : <<f, p>> \in setSchedPeer => status[p] = "active"

\* What the loops of AddNewBlock work on: there is nothing to add outside of
\* them, and only blocks of the sub-forks are added by AddRefNextBlock
TaskInv ==
  /\ chain \subseteq Genesis \cup Valid
  /\ pc \in {"idle", "inv", "post", "ref"} => vBlockHash = {}
  /\ pc \in {"idle", "inv", "post", "invalid"} => vRefNextBlock = {}
  /\ pc = "invalid" => \A c \in vBlockHash : ForkOf[Prev[c]] # ForkOf[c]
  /\ \A c \in refBlock \cup vRefNextBlock : Ref[c] # NoBlock
  /\ pc = "addref" => \A c \in vBlockHash \cap Valid : Ref[c] # NoBlock

\* The blocks whose turn in AddNewBlock is still to come
Pending == vBlockHash \cup vRefNextBlock

\* A received block whose previous block is missing is among the orphans; one
\* whose previous block is there but whose referenced block is missing is among
\* those that wait for it; and one that misses nothing will have its turn
WaitInv ==
  \A b \in received \ (OffCheckPoint \cup Premature) :
    /\ Prev[b] \in chain \/ b \in orphan
    /\ /\ b \in Valid \ NoProof
       /\ Prev[b] \in chain /\ ForkOf[Prev[b]] = ForkOf[b] /\ RefMissing(b)
       => b \in refBlock \/ Waits(b) \/ b \in Pending
    /\ Connectable(b) => Waits(b) \/ b \in Pending

\* The inductive invariant
IInv == TypeOK /\ IndexConsistent /\ KnownActive /\ TaskInv /\ WaitInv

\* Init establishes the invariant
LEMMA InitIInv == Init => IInv
BY ConstantsAssumption
   DEF Init, IInv, TypeOK, IndexConsistent, KnownActive, TaskInv, WaitInv, NewBlock

\* The effect of scheduling p: the blocks of remove are dropped, those of assign
\* are requested from p
Scheduled(p, remove, assign) ==
  /\ remove \cap assign = {}
  /\ \A b \in assign : /\ b \in listKnown[p] /\ nAssigned[b] = NoPeer
                       /\ nGetDataCount[b] < MAX_REGETDATA_COUNT
  /\ listKnown' = Forget(listKnown, remove)
  /\ setAssigned' = [Forget(setAssigned, remove) EXCEPT ![p] = @ \cup assign]
  /\ mapRepeat' = Forget(mapRepeat, remove)
  /\ RemoveInvState(remove, Reset(nAssigned, assign, p), received, setKnownPeer,
       [b \in Block |-> nGetDataCount[b] + (IF b \in assign THEN 1 ELSE 0)])
  /\ closing' \subseteq closing \cup {p}

\* CNetChannel::SchedulePeerInv changes nothing or has that effect: no block of
\* a peer's list is without a state
LEMMA SchedulePeerInvEffect ==
  ASSUME TypeOK, IndexConsistent, NEW p \in Peer, NEW f \in Fork, PostSchedule(p, f)
  PROVE  \/ UNCHANGED <<invVars, knownVars, waitVars, skipped, closing>>
         \/ \E remove, assign \in SUBSET listKnown[p] : Scheduled(p, remove, assign)
<1>1. CASE UNCHANGED <<invVars, knownVars, waitVars, skipped, closing>>
  BY <1>1, Zenon
<1>2. CASE ~UNCHANGED <<invVars, knownVars, waitVars, skipped, closing>>
  <2> DEFINE known == listKnown[p] \cap ForkBlocks(f)
             free(scanned) == {b \in scanned \cap mapState : nAssigned[b] = NoPeer}
             timeout(scanned, late) == {b \in free(scanned) : TimedOut(b, late)}
             assign(scanned, late) == free(scanned) \ timeout(scanned, late)
             held(scanned) == {b \in scanned \cap received : nAssigned[b] # NoPeer}
             remove(scanned, late) == timeout(scanned, late) \cup (held(scanned) \cap late)
             ghost(scanned) == scanned \ mapState
  <2>1. PICK scanned \in SUBSET known, late \in SUBSET (known \cap MayExpire) :
          /\ listKnown' = [Forget(listKnown, remove(scanned, late)) EXCEPT ![p] = @ \ ghost(scanned)]
          /\ setAssigned' = [Forget(setAssigned, remove(scanned, late))
                              EXCEPT ![p] = (@ \cup assign(scanned, late)) \ ghost(scanned)]
          /\ mapRepeat' = [Forget(mapRepeat, remove(scanned, late)) EXCEPT ![p] = @ \ ghost(scanned)]
          /\ RemoveInvState(remove(scanned, late), Reset(nAssigned, assign(scanned, late), p),
               received, setKnownPeer,
               [b \in Block |-> nGetDataCount[b] + (IF b \in assign(scanned, late) THEN 1 ELSE 0)])
          /\ closing' \subseteq closing \cup {p}
    BY <1>2, ZenonT(30) DEF PostSchedule, SchedulePeerInv
  <2>2. PICK R, A : R = remove(scanned, late) /\ A = assign(scanned, late)
    BY Zenon
  <2>3. ghost(scanned) = {}
    BY Zenon DEF IndexConsistent, TypeOK, NewBlock
  <2>4. R \in SUBSET listKnown[p] /\ A \in SUBSET listKnown[p] /\ R \cap A = {}
    BY <2>2, Zenon
  <2>5. \A b \in A : b \in listKnown[p] /\ nAssigned[b] = NoPeer /\ nGetDataCount[b] < MAX_REGETDATA_COUNT
    BY <2>2, ConstantsAssumption DEF TimedOut, TypeOK, NewBlock
  <2>6. /\ listKnown' = Forget(listKnown, R)
        /\ setAssigned' = [Forget(setAssigned, R) EXCEPT ![p] = @ \cup A]
        /\ mapRepeat' = Forget(mapRepeat, R)
    <3> HIDE DEF remove, assign, ghost
    <3> QED  BY Zenon, <2>1, <2>2, <2>3 DEF Forget
  <2>7. /\ RemoveInvState(R, Reset(nAssigned, A, p), received, setKnownPeer,
               [b \in Block |-> nGetDataCount[b] + (IF b \in A THEN 1 ELSE 0)])
        /\ closing' \subseteq closing \cup {p}
    <3> HIDE DEF remove, assign, ghost
    <3> QED  BY <2>1, <2>2, Zenon
  <2> QED  BY Zenon, <2>4, <2>5, <2>6, <2>7 DEF Scheduled
<1> QED  BY <1>1, <1>2, Zenon

\* Every step keeps the types.  The count of requests stays within its bound
\* because a block that was requested too often is dropped, not requested.
LEMMA NextTypeOK == TypeOK /\ IndexConsistent /\ [Next]_vars => TypeOK'
<1> SUFFICES ASSUME TypeOK, IndexConsistent, [Next]_vars PROVE TypeOK'
  BY Zenon
<1> USE ConstantsAssumption
<1>1. ASSUME NEW p \in Peer, PeerActive(p) PROVE TypeOK'
  BY <1>1, Zenon DEF PeerActive, TypeOK, invVars, knownVars, waitVars, taskVars, historyVars
<1>2. ASSUME NEW p \in Peer, PeerDeactive(p) PROVE TypeOK'
  <2>1. setSchedPeer' \subseteq Fork \X Peer
    <3>1. \A b \in listKnown[p] : ForkOf[b] \in Fork /\ setKnownPeer[b] \subseteq Peer
      BY Zenon DEF TypeOK, NewBlock
    <3> QED  BY <1>2, <3>1 DEF PeerDeactive
  <2>2. TypeOK!6' /\ TypeOK!7' /\ TypeOK!8' /\ TypeOK!9' /\ TypeOK!10' /\ TypeOK!11'
        /\ TypeOK!12' /\ TypeOK!13' /\ TypeOK!23'
    BY <1>2 DEF PeerDeactive, TypeOK, RemoveKnownPeer, RemoveInvState, Reset
  <2> QED
    BY <1>2, <2>1, <2>2, Zenon DEF PeerDeactive, TypeOK
<1>3. ASSUME NEW p \in Peer, NEW f \in Fork, PeerGetBlocks(p, f) PROVE TypeOK'
  BY <1>3 DEF PeerGetBlocks, TypeOK, peerVars, invVars, knownVars, waitVars, historyVars
<1>4. ASSUME NEW p \in Peer, NEW f \in Fork, PeerInv(p, f) PROVE TypeOK'
  BY <1>4 DEF PeerInv, InWindow, TypeOK, peerVars, invVars, knownVars, waitVars, historyVars
<1>5. ASSUME NEW p \in Peer, NEW f \in Fork, PeerGetFail(p, f) PROVE TypeOK'
  <2>1. PICK cancel :
          /\ RemoveKnownPeer(cancel, p)
          /\ listKnown' = [listKnown EXCEPT ![p] = @ \ cancel]
          /\ setAssigned' = [setAssigned EXCEPT ![p] = @ \ cancel]
          /\ mapRepeat' = [mapRepeat EXCEPT ![p] = @ \ cancel]
    BY <1>5, Zenon DEF PeerGetFail
  <2>2. TypeOK!6' /\ TypeOK!7' /\ TypeOK!8' /\ TypeOK!9' /\ TypeOK!10' /\ TypeOK!11'
        /\ TypeOK!12' /\ TypeOK!13' /\ TypeOK!23'
    BY <2>1 DEF TypeOK, RemoveKnownPeer, RemoveInvState, Reset
  <2> QED
    BY <1>5, <2>1, <2>2 DEF PeerGetFail, TypeOK, peerVars
<1>6. ASSUME NEW p \in Peer, NEW b \in Block, PeerBlock(p, b) PROVE TypeOK'
  BY <1>6 DEF PeerBlock, ReceiveBlock, CheckPrevBlock, Submit, TypeOK, historyVars
<1>7. ASSUME NEW b \in Block, MintBlock(b) PROVE TypeOK'
  BY <1>7, Zenon DEF MintBlock, TypeOK, peerVars, invVars, knownVars, waitVars, taskVars
<1>8. ASSUME NEW p \in Peer, NEW f \in Fork, AddNewInv(p, f) PROVE TypeOK'
  BY <1>8 DEF AddNewInv, TypeOK, peerVars, waitVars, historyVars
<1>9. ASSUME NEW p \in Peer, NEW f \in Fork, PostSchedule(p, f) PROVE TypeOK'
  <2>1. CASE UNCHANGED <<invVars, knownVars, waitVars, skipped, closing>>
    BY <1>9, <2>1, Zenon DEF PostSchedule, TypeOK, invVars, knownVars, waitVars
  <2>2. ASSUME NEW remove, NEW assign \in SUBSET listKnown[p], Scheduled(p, remove, assign)
        PROVE  TypeOK'
    <3>1. listKnown' \in [Peer -> SUBSET NewBlock] /\ setAssigned' \in [Peer -> SUBSET NewBlock]
          /\ mapRepeat' \in [Peer -> SUBSET NewBlock]
      BY <2>2, Zenon DEF Scheduled, Forget, TypeOK
    <3>2. nGetDataCount' \in [Block -> 0 .. MAX_REGETDATA_COUNT]
      BY <2>2 DEF Scheduled, RemoveInvState, Reset, TypeOK
    <3>3. nAssigned' \in [Block -> Peer \cup {NoPeer}] /\ setKnownPeer' \in [Block -> SUBSET Peer]
      BY Zenon, <2>2 DEF Scheduled, RemoveInvState, Reset, TypeOK
    <3> QED
      BY <1>9, <2>2, <3>1, <3>2, <3>3, Zenon DEF Scheduled, PostSchedule, RemoveInvState, TypeOK
  <2> QED
    BY Zenon, <1>9, <2>1, <2>2, SchedulePeerInvEffect
<1>10. ASSUME NEW b \in Block, InvalidateBlock(b) PROVE TypeOK'
  <2>1. setMisbehave' \subseteq Peer
    <3>1. \A c \in {b} \cup Branch(b) : setKnownPeer[c] \subseteq Peer
      BY Zenon DEF TypeOK, NewBlock, Branch
    <3> QED  BY <1>10, <3>1 DEF InvalidateBlock
  <2> QED
    BY <1>10, <2>1 DEF InvalidateBlock, RemoveInv, Forget, RemoveInvState, Reset, TypeOK, peerVars
<1>11. ASSUME NEW b \in Block, AddNotFound(b) PROVE TypeOK'
  BY <1>11, Zenon
     DEF AddNotFound, Turn, AfterLoop, TypeOK, peerVars, invVars, knownVars, waitVars, historyVars
<1>12. ASSUME NEW b \in Block, AddExisting(b) PROVE TypeOK'
  BY <1>12 DEF AddExisting, Turn, Continue, AfterLoop, GetNextBlock, GetNextRefBlock, RemoveInv,
     Forget, RemoveInvState, Reset, TypeOK, peerVars
<1>13. ASSUME NEW b \in Block, AddRefBlock(b) PROVE TypeOK'
  BY Zenon, <1>13 DEF AddRefBlock, Turn, Return, AfterLoop, TypeOK, peerVars, invVars, knownVars
<1>14. ASSUME NEW b \in Block, SetRepeatBlock(b) PROVE TypeOK'
  BY <1>14 DEF SetRepeatBlock, Turn, Return, AfterLoop, IndexConsistent, TypeOK, peerVars, waitVars
<1>15. ASSUME NEW b \in Block, AddToDispatcher(b) PROVE TypeOK'
  BY <1>15 DEF AddToDispatcher, Turn, Continue, AfterLoop, GetNextBlock, GetNextRefBlock, RemoveInv,
     Forget, RemoveInvState, Reset, TypeOK, peerVars
<1>16. CASE AddRefNextBlock
  BY Zenon, <1>16 DEF AddRefNextBlock, TypeOK, peerVars, invVars, knownVars, waitVars, historyVars
<1>17. CASE PostDone
  BY <1>17, Zenon DEF PostDone, TypeOK, invVars, knownVars, waitVars, historyVars
<1>18. CASE UNCHANGED vars
  BY <1>18, Zenon DEF vars, TypeOK, peerVars, invVars, knownVars, waitVars, taskVars, historyVars
<1> QED
  BY <1>1, <1>2, <1>3, <1>4, <1>5, <1>6, <1>7, <1>8, <1>9, <1>10, <1>11, <1>12, <1>13, <1>14, <1>15,
     <1>16, <1>17, <1>18, Zenon
     DEF Next, Step

\* CSchedule::RemoveInv takes a block out of every index
LEMMA RemoveInvIndex ==
  ASSUME TypeOK, IndexConsistent, NEW S, RemoveInv(S)
  PROVE  IndexConsistent'
<1> SUFFICES ASSUME NEW b \in Block
             PROVE  /\ \A p \in Peer : b \in listKnown'[p] <=> p \in setKnownPeer'[b]
                    /\ \A p \in Peer : b \in setAssigned'[p] <=> nAssigned'[b] = p /\ b \notin received'
                    /\ b \in mapState' <=> setKnownPeer'[b] # {}
                    /\ nAssigned'[b] # NoPeer => nAssigned'[b] \in setKnownPeer'[b]
                    /\ b \in received' => nAssigned'[b] # NoPeer
  BY Zenon DEF IndexConsistent
<1> USE ConstantsAssumption DEF RemoveInv, RemoveInvState, Forget, Reset, TypeOK, IndexConsistent
<1>1. CASE b \in S
  BY <1>1
<1>2. CASE b \notin S
  BY Zenon, <1>2
<1> QED  BY Zenon, <1>1, <1>2

\* When p stops offering the blocks of S the indexes still agree
LEMMA RemoveKnownPeerIndex ==
  ASSUME TypeOK, IndexConsistent, NEW p \in Peer, NEW S \in SUBSET listKnown[p],
         RemoveKnownPeer(S, p),
         listKnown' = [listKnown EXCEPT ![p] = @ \ S],
         setAssigned' = [setAssigned EXCEPT ![p] = @ \ S]
  PROVE  IndexConsistent'
<1> SUFFICES ASSUME NEW b \in Block
             PROVE  /\ \A q \in Peer : b \in listKnown'[q] <=> q \in setKnownPeer'[b]
                    /\ \A q \in Peer : b \in setAssigned'[q] <=> nAssigned'[b] = q /\ b \notin received'
                    /\ b \in mapState' <=> setKnownPeer'[b] # {}
                    /\ nAssigned'[b] # NoPeer => nAssigned'[b] \in setKnownPeer'[b]
                    /\ b \in received' => nAssigned'[b] # NoPeer
  BY Zenon DEF IndexConsistent
<1> USE ConstantsAssumption DEF RemoveKnownPeer, RemoveInvState, Reset, TypeOK, IndexConsistent
<1>1. CASE b \notin S
  BY <1>1
<1>2. CASE b \in S /\ setKnownPeer[b] \ {p} = {}
  BY <1>2
<1>3. CASE b \in S /\ setKnownPeer[b] \ {p} # {} /\ nAssigned[b] = p
  BY <1>3
<1>4. CASE b \in S /\ setKnownPeer[b] \ {p} # {} /\ nAssigned[b] # p
  BY <1>4
<1> QED  BY Zenon, <1>1, <1>2, <1>3, <1>4

\* Scheduling a peer keeps the indexes in agreement
LEMMA ScheduledIndex ==
  ASSUME TypeOK, IndexConsistent, NEW p \in Peer, NEW remove, NEW assign,
         Scheduled(p, remove, assign)
  PROVE  IndexConsistent'
<1> SUFFICES ASSUME NEW b \in Block
             PROVE  /\ \A q \in Peer : b \in listKnown'[q] <=> q \in setKnownPeer'[b]
                    /\ \A q \in Peer : b \in setAssigned'[q] <=> nAssigned'[b] = q /\ b \notin received'
                    /\ b \in mapState' <=> setKnownPeer'[b] # {}
                    /\ nAssigned'[b] # NoPeer => nAssigned'[b] \in setKnownPeer'[b]
                    /\ b \in received' => nAssigned'[b] # NoPeer
  BY Zenon DEF IndexConsistent
<1> USE ConstantsAssumption DEF Scheduled, RemoveInvState, Forget, Reset, TypeOK, IndexConsistent
<1>1. CASE b \in remove
  BY <1>1
<1>2. CASE b \in assign
  BY <1>2
<1>3. CASE b \notin remove \cup assign
  BY Zenon, <1>3
<1> QED  BY Zenon, <1>1, <1>2, <1>3

\* Every step keeps the indexes in agreement, and only connected peers in them
LEMMA NextIndex ==
  TypeOK /\ IndexConsistent /\ KnownActive /\ [Next]_vars => IndexConsistent' /\ KnownActive'
<1> SUFFICES ASSUME TypeOK, IndexConsistent, KnownActive, [Next]_vars
             PROVE  IndexConsistent' /\ KnownActive'
  BY Zenon
<1> USE ConstantsAssumption
<1>1. ASSUME UNCHANGED <<status, mapState, nAssigned, received, setKnownPeer, listKnown, setAssigned>>,
             pc' # "inv"
      PROVE  IndexConsistent' /\ KnownActive'
  BY Zenon, <1>1 DEF IndexConsistent, KnownActive
<1>2. ASSUME UNCHANGED status, pc' # "inv", \A b \in Block : setKnownPeer'[b] \subseteq setKnownPeer[b]
      PROVE  KnownActive'
  BY <1>2, Zenon DEF KnownActive
<1>3. ASSUME NEW S, RemoveInv(S), UNCHANGED status, pc' # "inv"
      PROVE  IndexConsistent' /\ KnownActive'
  <2>1. IndexConsistent'
    BY <1>3, RemoveInvIndex, Zenon
  <2>2. \A b \in Block : setKnownPeer'[b] \subseteq setKnownPeer[b]
    BY Zenon, <1>3 DEF RemoveInv, RemoveInvState, Reset
  <2> QED  BY <1>2, <1>3, <2>1, <2>2, Zenon
<1>4. ASSUME NEW p \in Peer, PeerActive(p) PROVE IndexConsistent' /\ KnownActive'
  BY <1>4 DEF PeerActive, TypeOK, IndexConsistent, KnownActive, invVars, knownVars, taskVars
<1>5. ASSUME NEW p \in Peer, PeerDeactive(p) PROVE IndexConsistent' /\ KnownActive'
  <2>1. PICK S : S = listKnown[p] \cap mapState
    BY Zenon
  <2>2. S = listKnown[p] /\ setAssigned[p] \subseteq S
    BY <2>1 DEF TypeOK, NewBlock, IndexConsistent
  <2>3. RemoveKnownPeer(S, p)
    BY Zenon, <1>5, <2>1 DEF PeerDeactive
  <2>4. /\ listKnown' = [listKnown EXCEPT ![p] = @ \ S]
        /\ setAssigned' = [setAssigned EXCEPT ![p] = @ \ S]
    BY Zenon, <1>5, <2>2 DEF PeerDeactive, TypeOK
  <2>5. IndexConsistent'
    BY Zenon, <2>2, <2>3, <2>4, RemoveKnownPeerIndex
  <2>6. \A b \in Block : setKnownPeer'[b] \subseteq setKnownPeer[b] \ {p}
    BY <2>2, <2>3, ZenonT(30) DEF RemoveKnownPeer, RemoveInvState, Reset, TypeOK, IndexConsistent
  <2> QED  BY Zenon, <1>5, <2>5, <2>6 DEF PeerDeactive, KnownActive, TypeOK
<1>6. ASSUME NEW p \in Peer, NEW f \in Fork, PeerGetBlocks(p, f)
      PROVE  IndexConsistent' /\ KnownActive'
  BY <1>1, <1>6, Zenon DEF PeerGetBlocks, peerVars, invVars, knownVars
<1>7. ASSUME NEW p \in Peer, NEW f \in Fork, PeerInv(p, f)
      PROVE  IndexConsistent' /\ KnownActive'
  BY Zenon, <1>7 DEF PeerInv, Takes, TypeOK, IndexConsistent, KnownActive, peerVars, invVars, knownVars
<1>8. ASSUME NEW p \in Peer, NEW f \in Fork, PeerGetFail(p, f)
      PROVE  IndexConsistent' /\ KnownActive'
  <2>1. PICK S \in SUBSET setAssigned[p] :
          /\ RemoveKnownPeer(S, p)
          /\ listKnown' = [listKnown EXCEPT ![p] = @ \ S]
          /\ setAssigned' = [setAssigned EXCEPT ![p] = @ \ S]
    BY Zenon, <1>8 DEF PeerGetFail
  <2>2. S \subseteq listKnown[p]
    BY DEF TypeOK, NewBlock, IndexConsistent
  <2>3. IndexConsistent'
    BY Zenon, <2>1, <2>2, RemoveKnownPeerIndex
  <2>4. \A b \in Block : setKnownPeer'[b] \subseteq setKnownPeer[b]
    BY Zenon, <2>1 DEF RemoveKnownPeer, RemoveInvState, Reset
  <2> QED  BY Zenon, <1>2, <1>8, <2>3, <2>4 DEF PeerGetFail, peerVars
<1>9. ASSUME NEW p \in Peer, NEW b \in Block, PeerBlock(p, b)
      PROVE  IndexConsistent' /\ KnownActive'
  <2>1. KnownActive'
    BY Zenon, <1>9 DEF PeerBlock, Takes, Submit, KnownActive
  <2>2. IndexConsistent'
    BY <1>9 DEF PeerBlock, ReceiveBlock, TypeOK, IndexConsistent
  <2> QED  BY <2>1, <2>2, Zenon
<1>10. ASSUME NEW b \in Block, MintBlock(b) PROVE IndexConsistent' /\ KnownActive'
  BY Zenon, <1>10 DEF MintBlock, TypeOK, IndexConsistent, KnownActive, peerVars, invVars, knownVars, taskVars
<1>11. ASSUME NEW p \in Peer, NEW f \in Fork, AddNewInv(p, f)
       PROVE  IndexConsistent' /\ KnownActive'
  <2>1. PICK b \in vInv :
          \/ /\ mapState' = mapState \cup {b}
             /\ setKnownPeer' = [setKnownPeer EXCEPT ![b] = @ \cup {p}]
             /\ listKnown' = [listKnown EXCEPT ![p] = @ \cup {b}]
          \/ UNCHANGED <<mapState, setKnownPeer, listKnown>>
    BY <1>11, Zenon DEF AddNewInv
  <2>2. status' = status /\ status[p] = "active"
    BY Zenon, <1>11 DEF AddNewInv, KnownActive, peerVars
  <2>3. IndexConsistent'
    BY <1>11, <2>1 DEF AddNewInv, TypeOK, NewBlock, IndexConsistent
  <2>4. \A c \in Block : setKnownPeer'[c] \subseteq setKnownPeer[c] \cup {p}
    BY <2>1 DEF TypeOK
  <2>5. KnownActive'
    BY <1>11, <2>2, <2>4 DEF AddNewInv, KnownActive, TypeOK
  <2> QED  BY <2>3, <2>5, Zenon
<1>12. ASSUME NEW p \in Peer, NEW f \in Fork, PostSchedule(p, f)
       PROVE  IndexConsistent' /\ KnownActive'
  <2>1. CASE UNCHANGED <<invVars, knownVars, waitVars, skipped, closing>>
    BY Zenon, <1>1, <1>12, <2>1 DEF PostSchedule, invVars, knownVars
  <2>2. ASSUME NEW remove, NEW assign, Scheduled(p, remove, assign)
        PROVE  IndexConsistent' /\ KnownActive'
    <3>1. \A b \in Block : setKnownPeer'[b] \subseteq setKnownPeer[b]
      BY Zenon, <2>2 DEF Scheduled, RemoveInvState, Reset
    <3> QED  BY Zenon, <1>2, <1>12, <2>2, <3>1, ScheduledIndex DEF PostSchedule
  <2> QED  BY Zenon, <1>12, <2>1, <2>2, SchedulePeerInvEffect
<1>13. ASSUME NEW b \in Block, InvalidateBlock(b) PROVE IndexConsistent' /\ KnownActive'
  <2>1. PICK S : S = {b} \cup Branch(b)
    BY Zenon
  <2> QED  BY Zenon, <1>3, <1>13, <2>1 DEF InvalidateBlock, peerVars
<1>14. ASSUME NEW b \in Block, AddNotFound(b) PROVE IndexConsistent' /\ KnownActive'
  BY Zenon, <1>1, <1>14 DEF AddNotFound, Turn, AfterLoop, peerVars, invVars, knownVars
<1>15. ASSUME NEW b \in Block, AddExisting(b) PROVE IndexConsistent' /\ KnownActive'
  BY Zenon, <1>3, <1>15 DEF AddExisting, Turn, Continue, AfterLoop, peerVars
<1>16. ASSUME NEW b \in Block, AddRefBlock(b) PROVE IndexConsistent' /\ KnownActive'
  BY Zenon, <1>1, <1>16 DEF AddRefBlock, Return, AfterLoop, peerVars, invVars, knownVars
<1>17. ASSUME NEW b \in Block, SetRepeatBlock(b) PROVE IndexConsistent' /\ KnownActive'
  BY Zenon, <1>1, <1>17 DEF SetRepeatBlock, Return, AfterLoop, peerVars
<1>18. ASSUME NEW b \in Block, AddToDispatcher(b) PROVE IndexConsistent' /\ KnownActive'
  BY Zenon, <1>3, <1>18 DEF AddToDispatcher, Turn, Continue, AfterLoop, peerVars
<1>19. CASE AddRefNextBlock
  BY <1>1, <1>19, Zenon DEF AddRefNextBlock, peerVars, invVars, knownVars
<1>20. CASE PostDone
  BY Zenon, <1>1, <1>20 DEF PostDone, invVars, knownVars
<1>21. CASE UNCHANGED vars
  BY Zenon, <1>21 DEF vars, IndexConsistent, KnownActive, peerVars, invVars, knownVars, taskVars
<1> QED
  BY Zenon, <1>4, <1>5, <1>6, <1>7, <1>8, <1>9, <1>10, <1>11, <1>12, <1>13, <1>14, <1>15, <1>16,
     <1>17, <1>18, <1>19, <1>20, <1>21 DEF Next, Step

\* Every step keeps the lists of AddNewBlock as its loops expect them
LEMMA NextTask == TypeOK /\ IndexConsistent /\ TaskInv /\ [Next]_vars => TaskInv'
<1> SUFFICES ASSUME TypeOK, IndexConsistent, TaskInv, [Next]_vars PROVE TaskInv'
  BY Zenon
<1>1. ASSUME chain' = chain, refBlock' \subseteq refBlock,
             UNCHANGED <<vBlockHash, vRefNextBlock>>,
             pc \in {"idle", "inv", "post"}, pc' \in {"idle", "inv", "post"}
      PROVE  TaskInv'
  BY Zenon, <1>1 DEF TaskInv
<1>2. ASSUME NEW p \in Peer, PeerActive(p) PROVE TaskInv'
  BY Zenon, <1>2 DEF PeerActive, TaskInv, waitVars, taskVars
<1>3. ASSUME NEW p \in Peer, PeerDeactive(p) PROVE TaskInv'
  BY Zenon, <1>1, <1>3 DEF PeerDeactive, Takes, RemoveKnownPeer, RemoveInvState
<1>4. ASSUME NEW p \in Peer, NEW f \in Fork, PeerGetBlocks(p, f) PROVE TaskInv'
  BY <1>1, <1>4, Zenon DEF PeerGetBlocks, Takes, waitVars
<1>5. ASSUME NEW p \in Peer, NEW f \in Fork, PeerInv(p, f) PROVE TaskInv'
  BY Zenon, <1>1, <1>5 DEF PeerInv, Takes, waitVars
<1>6. ASSUME NEW p \in Peer, NEW f \in Fork, PeerGetFail(p, f) PROVE TaskInv'
  BY Zenon, <1>1, <1>6 DEF PeerGetFail, Takes, RemoveKnownPeer, RemoveInvState
<1>7. ASSUME NEW p \in Peer, NEW b \in Block, PeerBlock(p, b) PROVE TaskInv'
  BY Zenon, <1>7 DEF PeerBlock, Takes, Submit, TaskInv
<1>8. ASSUME NEW b \in Block, MintBlock(b) PROVE TaskInv'
  BY Zenon, <1>8 DEF MintBlock, TaskInv, waitVars, taskVars
<1>9. ASSUME NEW p \in Peer, NEW f \in Fork, AddNewInv(p, f) PROVE TaskInv'
  BY <1>1, <1>9, Zenon DEF AddNewInv, waitVars
<1>10. ASSUME NEW p \in Peer, NEW f \in Fork, PostSchedule(p, f) PROVE TaskInv'
  <2>1. refBlock' \subseteq refBlock
    BY Zenon, <1>10, SchedulePeerInvEffect DEF Scheduled, RemoveInvState, waitVars
  <2> QED  BY <1>1, <1>10, <2>1, Zenon DEF PostSchedule
<1>11. ASSUME NEW b \in Block, InvalidateBlock(b) PROVE TaskInv'
  BY Zenon, <1>11 DEF InvalidateBlock, RemoveInv, RemoveInvState, TaskInv
<1>12. ASSUME NEW b \in Block, AddNotFound(b) PROVE TaskInv'
  BY Zenon, <1>12 DEF AddNotFound, Turn, AfterLoop, TaskInv, waitVars
<1>13. ASSUME NEW b \in Block, Turn(b), RemoveInv({b}), NEW next \in SUBSET GetNextBlock(b),
              chain' \in {chain, chain \cup ({b} \cap Valid)}, next = {} \/ b \in chain',
              Continue(b, next)
       PROVE  TaskInv'
  <2>1. chain' \subseteq Genesis \cup Valid
    BY Zenon, <1>13 DEF TaskInv
  <2>2. \A c \in refBlock' \cup vRefNextBlock' : Ref[c] # NoBlock
    BY Zenon, <1>13 DEF Continue, RemoveInv, RemoveInvState, GetNextRefBlock, TaskInv
  <2>3. ASSUME pc = "addref", NEW c \in next, c \in Valid PROVE Ref[c] # NoBlock
    <3>1. c \in Valid /\ Prev[c] = b /\ b \in chain'
      BY Zenon, <1>13, <2>3 DEF GetNextBlock
    <3>2. b \in Valid /\ b \in NewBlock
      BY Zenon, <1>13, <2>1, <3>1 DEF Turn, TypeOK, NewBlock
    <3>3. Ref[b] # NoBlock
      BY Zenon, <1>13, <2>3, <3>2 DEF Turn, TaskInv
    <3> QED  BY Zenon, <3>1, <3>2, <3>3, ConstantsAssumption
  <2>4. pc' = "addref" => \A c \in vBlockHash' \cap Valid : Ref[c] # NoBlock
    BY Zenon, <1>13, <2>3 DEF Continue, AfterLoop, Turn, TaskInv
  <2> QED
    BY Zenon, <1>13, <2>1, <2>2, <2>4 DEF Continue, AfterLoop, Turn, TaskInv
<1>14. ASSUME NEW b \in Block, AddExisting(b) PROVE TaskInv'
  <2>1. PICK next : next = GetNextBlock(b)
    BY Zenon
  <2> QED  BY <1>13, <1>14, <2>1, Zenon DEF AddExisting
<1>15. ASSUME NEW b \in Block, AddRefBlock(b) PROVE TaskInv'
  BY Zenon, <1>15 DEF AddRefBlock, Return, AfterLoop, RefMissing, Turn, TaskInv
<1>16. ASSUME NEW b \in Block, SetRepeatBlock(b) PROVE TaskInv'
  BY Zenon, <1>16 DEF SetRepeatBlock, Return, AfterLoop, Turn, TaskInv, waitVars
<1>17. ASSUME NEW b \in Block, AddToDispatcher(b) PROVE TaskInv'
  <2>1. PICK next : next = IF b \in chain' THEN GetNextBlock(b) ELSE {}
    BY Zenon
  <2>2. Turn(b) /\ RemoveInv({b}) /\ Continue(b, next)
    BY Zenon, <1>17, <2>1 DEF AddToDispatcher
  <2>3. chain' \in {chain, chain \cup ({b} \cap Valid)}
    BY Zenon, <1>17 DEF AddToDispatcher
  <2> QED  BY <1>13, <2>1, <2>2, <2>3, Zenon
<1>18. CASE AddRefNextBlock
  BY Zenon, <1>18 DEF AddRefNextBlock, TaskInv, waitVars
<1>19. CASE PostDone
  BY <1>1, <1>19, Zenon DEF PostDone, waitVars
<1>20. CASE UNCHANGED vars
  BY Zenon, <1>20 DEF vars, TaskInv, waitVars, taskVars
<1> QED
  BY <1>2, <1>3, <1>4, <1>5, <1>6, <1>7, <1>8, <1>9, <1>10, <1>11, <1>12, <1>14, <1>15, <1>16, <1>17,
     <1>18, <1>19, <1>20, Zenon
     DEF Next, Step

\* Every step keeps track of every received block that waits.  Storing a block
\* gives the orphans above it, and the blocks that refer to it, their turn.
LEMMA NextWait ==
  TypeOK /\ IndexConsistent /\ TaskInv /\ WaitInv /\ [Next]_vars => WaitInv'
<1> SUFFICES ASSUME TypeOK, IndexConsistent, TaskInv, WaitInv, [Next]_vars PROVE WaitInv'
  BY Zenon
<1>1. ASSUME chain' = chain, minted' = minted,
             \A b \in received' : /\ b \in received
                                  /\ b \in orphan => b \in orphan'
                                  /\ b \in refBlock => b \in refBlock' \/ b \in Pending'
                                  /\ b \in fRepeatMint => b \in fRepeatMint'
                                  /\ b \in skipped => b \in skipped'
                                  /\ b \in Pending => b \in Pending' \/ Waits(b)'
      PROVE  WaitInv'
  BY Zenon, <1>1 DEF WaitInv, Waits, Connectable, RefMissing
<1>2. ASSUME NEW p \in Peer, PeerActive(p) PROVE WaitInv'
  BY <1>1, <1>2, Zenon DEF PeerActive, Pending, invVars, waitVars, taskVars, historyVars
<1>3. ASSUME NEW p \in Peer, PeerDeactive(p) PROVE WaitInv'
  BY Zenon, <1>1, <1>3 DEF PeerDeactive, RemoveKnownPeer, RemoveInvState, Pending
<1>4. ASSUME NEW p \in Peer, NEW f \in Fork, PeerGetBlocks(p, f) PROVE WaitInv'
  BY Zenon, <1>1, <1>4 DEF PeerGetBlocks, Pending, invVars, waitVars, historyVars
<1>5. ASSUME NEW p \in Peer, NEW f \in Fork, PeerInv(p, f) PROVE WaitInv'
  BY Zenon, <1>1, <1>5 DEF PeerInv, Pending, invVars, waitVars, historyVars
<1>6. ASSUME NEW p \in Peer, NEW f \in Fork, PeerGetFail(p, f) PROVE WaitInv'
  BY Zenon, <1>1, <1>6 DEF PeerGetFail, RemoveKnownPeer, RemoveInvState, Pending
<1>7. ASSUME NEW p \in Peer, NEW b \in Block, PeerBlock(p, b) PROVE WaitInv'
  <2>1. /\ received' = received \cup {b} /\ chain' = chain /\ refBlock' = refBlock
        /\ fRepeatMint' = fRepeatMint /\ minted' = minted /\ skipped' = skipped
        /\ orphan \subseteq orphan'
    BY Zenon, <1>7 DEF PeerBlock, ReceiveBlock, historyVars
  <2>2. Pending = {}
    BY Zenon, <1>7 DEF PeerBlock, Takes, TaskInv, Pending
  <2>3. b \in OffCheckPoint \cup Premature \/ (Prev[b] \in chain /\ b \in Pending')
        \/ (Prev[b] \notin chain /\ b \in orphan')
    BY Zenon, <1>7 DEF PeerBlock, Submit, Pending
  <2> QED
    BY Zenon, <2>1, <2>2, <2>3 DEF WaitInv, Waits, Connectable, RefMissing
<1>8. ASSUME NEW b \in Block, MintBlock(b) PROVE WaitInv'
  <2>1. chain' = chain \cup {b} /\ minted' = minted \cup {b}
    BY Zenon, <1>8 DEF MintBlock
  <2>2. /\ UNCHANGED <<received, orphan, refBlock, fRepeatMint, skipped>>
        /\ Pending' = Pending
    BY Zenon, <1>8 DEF MintBlock, Pending, invVars, waitVars, taskVars
  <2> QED
    BY Zenon, <2>1, <2>2 DEF WaitInv, Waits, Connectable, RefMissing
<1>9. ASSUME NEW p \in Peer, NEW f \in Fork, AddNewInv(p, f) PROVE WaitInv'
  BY Zenon, <1>1, <1>9 DEF AddNewInv, Pending, waitVars, historyVars
<1>10. ASSUME NEW p \in Peer, NEW f \in Fork, PostSchedule(p, f) PROVE WaitInv'
  <2>1. CASE UNCHANGED <<invVars, knownVars, waitVars, skipped, closing>>
    BY Zenon, <1>1, <1>10, <2>1 DEF PostSchedule, Pending, invVars, waitVars
  <2>2. ASSUME NEW remove, NEW assign, Scheduled(p, remove, assign)
        PROVE  WaitInv'
    BY Zenon, <1>1, <1>10, <2>2 DEF Scheduled, RemoveInvState, PostSchedule, Pending
  <2> QED  BY Zenon, <1>10, <2>1, <2>2, SchedulePeerInvEffect
<1>11. ASSUME NEW b \in Block, InvalidateBlock(b) PROVE WaitInv'
  <2>1. \A c \in Pending : ForkOf[Prev[c]] # ForkOf[c]
    BY Zenon, <1>11 DEF InvalidateBlock, TaskInv, Pending
  <2>2. PICK S : RemoveInv(S)
    BY Zenon, <1>11 DEF InvalidateBlock
  <2>3. /\ received' = received \ S /\ orphan' = orphan \ S /\ refBlock' = refBlock \ S
        /\ fRepeatMint' = fRepeatMint \ S /\ skipped' = skipped \ S
    BY Zenon, <2>2 DEF RemoveInv, RemoveInvState
  <2>4. chain' = chain /\ minted' = minted
    BY <1>11, Zenon DEF InvalidateBlock
  <2> QED
    BY Zenon, <2>1, <2>3, <2>4 DEF WaitInv, Waits, Connectable, RefMissing
<1>12. ASSUME NEW b \in Block, AddNotFound(b) PROVE WaitInv'
  BY <1>1, <1>12, Zenon DEF AddNotFound, Pending, invVars, waitVars, historyVars
<1>13. ASSUME NEW b \in Block, AddExisting(b) PROVE WaitInv'
  <2>1. chain' = chain /\ minted' = minted /\ Pending \ {b} \subseteq Pending'
    BY Zenon, <1>13 DEF AddExisting, Continue, Pending
  <2>2. /\ received' = received \ {b} /\ orphan' = orphan \ {b} /\ refBlock' = refBlock \ {b}
        /\ fRepeatMint' = fRepeatMint \ {b} /\ skipped' = skipped \ {b}
    BY Zenon, <1>13 DEF AddExisting, RemoveInv, RemoveInvState
  <2> QED  BY <1>1, <2>1, <2>2, Zenon
<1>14. ASSUME NEW b \in Block, vBlockHash' = {},
              UNCHANGED <<chain, minted, received, orphan, vRefNextBlock>>,
              refBlock \subseteq refBlock', fRepeatMint \subseteq fRepeatMint',
              skipped' = skipped \cup (vBlockHash \ {b}),
              \/ b \in refBlock' \cup NoProof /\ RefMissing(b)
              \/ b \in fRepeatMint'
       PROVE  WaitInv'
  BY Zenon, <1>14 DEF WaitInv, Waits, Connectable, RefMissing, Pending
<1>15. ASSUME NEW b \in Block, AddRefBlock(b) PROVE WaitInv'
  BY <1>14, <1>15, Zenon DEF AddRefBlock, Return, invVars
<1>16. ASSUME NEW b \in Block, SetRepeatBlock(b) PROVE WaitInv'
  BY Zenon, <1>14, <1>16 DEF SetRepeatBlock, Return, waitVars
<1>17. ASSUME NEW b \in Block, AddToDispatcher(b) PROVE WaitInv'
  <2>1. /\ received' = received \ {b} /\ orphan' = orphan \ {b} /\ refBlock' = refBlock \ {b}
        /\ fRepeatMint' = fRepeatMint \ {b} /\ skipped' = skipped \ {b}
    BY Zenon, <1>17 DEF AddToDispatcher, RemoveInv, RemoveInvState
  <2>2. minted' = minted /\ Pending \ {b} \subseteq Pending'
    BY Zenon, <1>17 DEF AddToDispatcher, Continue, Pending
  <2>3. CASE chain' = chain
    BY <1>1, <2>1, <2>2, <2>3, Zenon
  <2>4. CASE chain' # chain
    <3>1. b \notin chain /\ chain' = chain \cup {b} /\ b \in Valid /\ b \in vBlockHash
      BY Zenon, <1>17, <2>4 DEF AddToDispatcher, Turn
    <3>2. GetNextBlock(b) \subseteq Pending'
      BY Zenon, <1>17, <3>1 DEF AddToDispatcher, Continue, Pending
    <3>3. ASSUME NEW c \in Valid, Ref[c] = b, c \in refBlock PROVE c \in Pending'
      <4>1. Ref[b] = NoBlock
        BY Zenon, <3>1, <3>3, ConstantsAssumption DEF NewBlock
      <4>2. pc = "add"
        BY Zenon, <1>17, <3>1, <4>1 DEF AddToDispatcher, Turn, TaskInv
      <4>3. GetNextRefBlock(b) \subseteq vRefNextBlock'
        BY Zenon, <1>17, <3>1, <4>1, <4>2 DEF AddToDispatcher, Continue, IsPrimary
      <4> QED  BY <3>3, <4>3, Zenon DEF GetNextRefBlock, Pending
    <3>4. SUFFICES ASSUME NEW c \in received' \ (OffCheckPoint \cup Premature)
                   PROVE  /\ Prev[c] \in chain' \/ c \in orphan'
                          /\ /\ c \in Valid \ NoProof
                             /\ Prev[c] \in chain' /\ ForkOf[Prev[c]] = ForkOf[c] /\ RefMissing(c)'
                             => c \in refBlock' \/ Waits(c)' \/ c \in Pending'
                          /\ Connectable(c)' => Waits(c)' \/ c \in Pending'
      BY Zenon DEF WaitInv
    <3>5. c \in received /\ c # b /\ (Waits(c) => Waits(c)')
      BY Zenon, <2>1, <2>2 DEF Waits
    <3>6. CASE Prev[c] = b
      BY Zenon, <2>1, <3>1, <3>2, <3>5, <3>6 DEF WaitInv, Connectable, GetNextBlock
    <3>7. CASE Prev[c] # b
      BY Zenon, <2>1, <2>2, <3>1, <3>3, <3>5, <3>7 DEF WaitInv, Connectable, RefMissing
    <3> QED  BY Zenon, <3>6, <3>7
  <2> QED  BY <2>3, <2>4, Zenon
<1>18. CASE AddRefNextBlock
  <2>1. Pending' = Pending
    BY Zenon, <1>18 DEF AddRefNextBlock, TaskInv, Pending
  <2> QED  BY Zenon, <1>1, <1>18, <2>1 DEF AddRefNextBlock, invVars, waitVars, historyVars
<1>19. CASE PostDone
  BY <1>1, <1>19, Zenon DEF PostDone, Pending, invVars, waitVars, historyVars
<1>20. CASE UNCHANGED vars
  BY Zenon, <1>1, <1>20 DEF vars, Pending, invVars, waitVars, taskVars, historyVars
<1> QED
  BY Zenon, <1>2, <1>3, <1>4, <1>5, <1>6, <1>7, <1>8, <1>9, <1>10, <1>11, <1>12, <1>13, <1>15,
     <1>16, <1>17, <1>18, <1>19, <1>20 DEF Next, Step

\* The inductive invariant of the block download
THEOREM InductiveInvariant == Spec => []IInv
<1>1. IInv /\ [Next]_vars => IInv'
  BY NextTypeOK, NextIndex, NextTask, NextWait, Zenon DEF IInv
<1> QED  BY InitIInv, <1>1, PTL DEF Spec

\* The fields of CSchedule and CNetChannel keep their types, and no block is
\* requested more than MAX_REGETDATA_COUNT times
THEOREM TypeCorrect == Spec => []TypeOK
BY InductiveInvariant, PTL DEF IInv

\* The lists of the peers and the states of the blocks always tell the same story
THEOREM IndexesAgree == Spec => []IndexConsistent
BY InductiveInvariant, PTL DEF IInv

\* No block counts as requested from a peer that is gone or owes nothing
THEOREM NoBlockWedged == Spec => []NotWedged
<1>1. IInv => NotWedged
  BY ConstantsAssumption DEF IInv, TypeOK, NewBlock, IndexConsistent, KnownActive, NotWedged
<1> QED  BY InductiveInvariant, <1>1, PTL

\* No received block that could be stored is forgotten when the mutex is free
THEOREM ReceivedSubmitted == Spec => []ReceivedIsSubmitted
<1>1. IInv => ReceivedIsSubmitted
  BY Zenon DEF IInv, TaskInv, WaitInv, Pending, Connectable, ReceivedIsSubmitted
<1> QED  BY InductiveInvariant, <1>1, PTL

=============================================================================

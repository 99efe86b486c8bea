----------------------------- MODULE NetChannel -----------------------------
(***************************************************************************)
(* How a node downloads blocks from its peers: the block inventory of      *)
(* CSchedule and the handlers of CNetChannel that drive it.                *)
(*                                                                         *)
(* Every handler runs under CNetChannel::mtxSched.  A handler that loops   *)
(* is a sequence of steps here: `pc` says where the holder of the mutex    *)
(* is, no other handler starts until it is "idle" again, and the only      *)
(* thing that can happen meanwhile is what needs no mutex, a block that    *)
(* another thread (block maker, block channel) hands to the dispatcher.    *)
(*                                                                         *)
(* Hashes identify blocks, so what a block says of itself (fork, previous  *)
(* block, referenced primary block, height) is a constant.  The elapsed    *)
(* times the scheduler compares with GetTime() are a choice: any entry of  *)
(* MayExpire may be found late.  A peer is a connection (its nonce), so it *)
(* is activated and deactivated once.  Primary blocks with a proof of work *)
(* (the PoA cache) and transactions are not in this module.                *)
(***************************************************************************)
EXTENDS Integers, FiniteSets, FiniteSetsExt

CONSTANTS Peer, Block, Fork,
          Genesis,       \* the blocks stored when the node starts
          ForkOf,        \* the fork whose inventory a block is announced in
          Prev,          \* CBlock::hashPrev
          Ref,           \* CProofOfPiggyback::hashRefBlock, or NoBlock
          Height,        \* CBlock::GetBlockHeightByHash
          Valid,         \* the blocks that CBlockChain::AddNewBlock accepts
          Repeat,        \* the blocks that fail CBlockChain::VerifyRepeatBlock
          Premature,     \* not vacant although below the fork's creation height
          OffCheckPoint, \* the blocks that fail CBlockChain::VerifyCheckPoint
          NoProof,       \* the blocks whose piggyback proof cannot be read
          Has,           \* the blocks a peer announces
          Steady,        \* the peers that answer every request and stay
          MayExpire,     \* the blocks whose timers may run out
          MayMint,       \* the blocks that another thread may store
          MaxGetFail,    \* how often peers cannot deliver what they announced
          NoPeer, NoBlock,
          MAX_INV_COUNT, MAX_PEER_BLOCK_INV_COUNT, MAX_REGETDATA_COUNT,
          MAX_REPEAT_BLOCK_COUNT, nMaxCount

\* The blocks of a fork, and the new ones among all blocks
ForkBlocks(f) == {b \in Block : ForkOf[b] = f}
NewBlock == Block \ Genesis

ASSUME ConstantsAssumption ==
  /\ NoPeer \notin Peer
  /\ NoBlock \notin Block
  /\ Genesis \subseteq Block
  /\ ForkOf \in [Block -> Fork]
  /\ Prev \in [NewBlock -> Block]
  /\ Ref \in [Block -> Block \cup {NoBlock}]
  /\ Height \in [Block -> Nat]
  /\ \A b \in NewBlock : Height[Prev[b]] < Height[b]
  /\ Valid \subseteq NewBlock
  \* CBlockChain::VerifyBlock: a block follows one of its own kind, and refers to
  \* a primary block if it refers to one
  /\ \A b \in Valid : /\ Prev[b] \in NewBlock => (Ref[b] = NoBlock <=> Ref[Prev[b]] = NoBlock)
                      /\ Ref[b] # NoBlock => Ref[Ref[b]] = NoBlock
  /\ Repeat \subseteq NewBlock
  /\ Premature \subseteq NewBlock
  /\ OffCheckPoint \subseteq NewBlock
  /\ NoProof \subseteq NewBlock
  /\ Has \in [Peer -> SUBSET NewBlock]
  /\ Steady \subseteq Peer
  /\ MAX_INV_COUNT \in Nat
  /\ MAX_PEER_BLOCK_INV_COUNT \in Nat
  /\ MAX_REGETDATA_COUNT \in Nat
  /\ MAX_REPEAT_BLOCK_COUNT \in Nat
  /\ nMaxCount \in Nat \ {0}
  /\ MaxGetFail \in Nat

VARIABLES status,        \* CNetChannel::mapPeer: a peer is "new", "active" or "gone"
          closing,       \* the peers reported to CPeerNet with DispatchMisbehaveEvent
          listKnown,     \* CInvPeer::listKnown
          setAssigned,   \* CInvPeer::setAssigned
          mapRepeat,     \* CInvPeer::mapRepeat, all heights together
          mapState,      \* the keys of CSchedule::mapState
          nAssigned,     \* CInvState: the peer the block is requested from
          received,      \* CInvState: objReceived holds the block
          setKnownPeer,  \* CInvState: the peers that announced the block
          nGetDataCount, \* CInvState
          fRepeatMint,   \* CInvState::fRepeatMintBlock
          orphan,        \* COrphan: b stands for the pair (Prev[b], b)
          refBlock,      \* CSchedule::mapRefBlock: b stands for (Ref[b], b)
          chain,         \* the blocks in storage
          pc,            \* where the holder of mtxSched is
          vInv,          \* PeerInv: the inventories not looked at yet
          vBlockHash,    \* AddNewBlock: the blocks not looked at yet
          vRefNextBlock, \* AddNewBlock: the blocks for AddRefNextBlock
          setSchedPeer,  \* the peers to schedule, with the fork
          setMisbehave,  \* the peers to report
          minted,        \* history: the blocks stored by another thread
          nGetFail,      \* history: the requests that peers could not serve
          skipped        \* history: the blocks an early return left behind

peerVars == <<status, closing>>
invVars == <<mapState, nAssigned, received, setKnownPeer, nGetDataCount, fRepeatMint>>
knownVars == <<listKnown, setAssigned, mapRepeat>>
waitVars == <<orphan, refBlock>>
taskVars == <<pc, vInv, vBlockHash, vRefNextBlock, setSchedPeer, setMisbehave>>
historyVars == <<minted, skipped, nGetFail>>
vars == <<peerVars, invVars, knownVars, waitVars, chain, taskVars, historyVars>>

(***************************************************************************)
(* Reading the schedule                                                    *)
(***************************************************************************)

\* Mutant: only the orphans that the sender of b sent
GetNextBlockOfSender(b) ==
  {c \in orphan : Prev[c] = b /\ nAssigned[c] = nAssigned[b]}

\* COrphan::GetNext: the received blocks that wait for b, in b's own fork
GetNextBlock(b) ==
  {c \in orphan : Prev[c] = b /\ ForkOf[c] = ForkOf[b]}

\* Mutant: only the schedule of the fork of b is searched
GetNextRefBlockOfFork(b) == {c \in refBlock : Ref[c] = b /\ ForkOf[c] = ForkOf[b]}

\* CNetChannel::GetNextRefBlock: the blocks of the other forks that wait for b
GetNextRefBlock(b) == {c \in refBlock : Ref[c] = b}

IsPrimary(b) == Ref[b] = NoBlock

\* The blocks below b
Ancestors[b \in Block] ==
  IF b \in Genesis THEN {} ELSE {Prev[b]} \cup Ancestors[Prev[b]]

\* COrphan::RemoveBranch: the orphans that descend from root through orphans
Branch(root) ==
  {c \in orphan : /\ root \in Ancestors[c]
                  /\ \A d \in Ancestors[c] : root \in Ancestors[d] => d \in orphan}

\* CNetChannel::CheckPrevBlock: the lowest block that is reached from b by
\* going down through received orphans, unless that is b itself
CheckPrevBlock(b, fReceived, mapOrphanByPrev) ==
  LET line == {b} \cup Ancestors[b]
      reached == {x \in fReceived \cap line : \A y \in line :
                    /\ Height[y] >= Height[x] => y \in fReceived /\ ForkOf[y] = ForkOf[b]
                    /\ Height[y] > Height[x] => y \in mapOrphanByPrev}
  IN  {x \in reached \ {b} : \A y \in reached : Height[x] <= Height[y]}

\* CBlockChain::GetForkStorageMaxHeight
ForkMaxHeight(f) == Max({Height[b] : b \in chain \cap ForkBlocks(f)})

\* The inventories that PeerInv does not find too high
InWindow(f, S) ==
  {b \in S : Height[b] <= ForkMaxHeight(f) + MAX_PEER_BLOCK_INV_COUNT \div 2}

(***************************************************************************)
(* Changing the schedule                                                   *)
(***************************************************************************)

Reset(fn, S, value) == [b \in Block |-> IF b \in S THEN value ELSE fn[b]]

\* CSchedule::RemoveInvState, for every block of S, after the fields of
\* CInvState have got the given values
RemoveInvState(S, assignedTo, objReceived, knownPeer, getDataCount) ==
  /\ mapState' = mapState \ S
  /\ nAssigned' = Reset(assignedTo, S, NoPeer)
  /\ received' = objReceived \ S
  /\ setKnownPeer' = Reset(knownPeer, S, {})
  /\ nGetDataCount' = Reset(getDataCount, S, 0)
  /\ fRepeatMint' = fRepeatMint \ S
  /\ orphan' = orphan \ S
  /\ refBlock' = refBlock \ S
  /\ skipped' = skipped \ S

\* Mutant: the peer that left stays the one the blocks are requested from
RemoveKnownPeerOnly(S, p) ==
  LET knownPeer == [b \in Block |-> setKnownPeer[b] \ (IF b \in S THEN {p} ELSE {})]
      lost == {b \in S : nAssigned[b] = p}
  IN  RemoveInvState({b \in S : knownPeer[b] = {}}, nAssigned, received \ lost,
                     knownPeer, nGetDataCount)

\* The common part of CSchedule::RemovePeer and CancelAssignedInv: p no longer
\* offers the blocks of S.  Nobody is asked any more for the ones it owed or had
\* delivered, and the ones that nobody else offers go.
RemoveKnownPeer(S, p) ==
  LET knownPeer == [b \in Block |-> setKnownPeer[b] \ (IF b \in S THEN {p} ELSE {})]
      lost == {b \in S : nAssigned[b] = p}
  IN  RemoveInvState({b \in S : knownPeer[b] = {}}, Reset(nAssigned, lost, NoPeer),
                     received \ lost, knownPeer, nGetDataCount)

\* Mutant: only the index of the peer that sent the block
ForgetSender(index, S) ==
  [p \in Peer |-> index[p] \ {b \in S : nAssigned[b] = p}]

\* What CSchedule::RemoveInv leaves of an index of the peers
Forget(index, S) ==
  [p \in Peer |-> index[p] \ {b \in S : p \in setKnownPeer[b]}]

\* CSchedule::RemoveInv, for every block of S
RemoveInv(S) ==
  /\ listKnown' = Forget(listKnown, S)
  /\ setAssigned' = Forget(setAssigned, S)
  /\ mapRepeat' = Forget(mapRepeat, S)
  /\ RemoveInvState(S, nAssigned, received, setKnownPeer, nGetDataCount)

\* Mutant: one request too many
TimedOutLate(b, late) == nGetDataCount[b] > MAX_REGETDATA_COUNT \/ b \in late

\* A block that nobody delivered in time, or that was requested too often
TimedOut(b, late) == nGetDataCount[b] >= MAX_REGETDATA_COUNT \/ b \in late

\* CNetChannel::SchedulePeerInv with CSchedule::ScheduleBlockInv and
\* ScheduleKnownInv: unless p already owes an answer, request up to nMaxCount
\* of the blocks it announced that nobody is asked for, drop the ones that are
\* late, and report p when its list is full of blocks that lead nowhere.  The
\* scan stops at request number nMaxCount; its order is left open.
SchedulePeerInv(f, p) ==
  LET known == listKnown[p] \cap ForkBlocks(f) IN
  \/ /\ setAssigned[p] \cap ForkBlocks(f) # {}
     /\ UNCHANGED <<invVars, knownVars, waitVars, skipped, closing>>
  \/ /\ setAssigned[p] \cap ForkBlocks(f) = {}
     /\ \E scanned \in SUBSET known, late \in SUBSET (known \cap MayExpire) :
        LET free == {b \in scanned \cap mapState : nAssigned[b] = NoPeer}
            timeout == {b \in free : TimedOut(b, late)}
            assign == free \ timeout
            held == {b \in scanned \cap received : nAssigned[b] # NoPeer}
            remove == timeout \cup (held \cap late)
            ghost == scanned \ mapState
            rest == known \ (remove \cup ghost)
            receivedAll == held \ late = rest /\ rest # {}
        IN
        /\ Cardinality(assign) <= nMaxCount
        /\ Cardinality(assign) < nMaxCount => scanned = known
        /\ listKnown' = [Forget(listKnown, remove) EXCEPT ![p] = @ \ ghost]
        /\ setAssigned' = [Forget(setAssigned, remove) EXCEPT ![p] = (@ \cup assign) \ ghost]
        /\ mapRepeat' = [Forget(mapRepeat, remove) EXCEPT ![p] = @ \ ghost]
        /\ RemoveInvState(remove, Reset(nAssigned, assign, p), received, setKnownPeer,
             [b \in Block |-> nGetDataCount[b] + (IF b \in assign THEN 1 ELSE 0)])
        /\ closing' = IF /\ assign = {} /\ receivedAll
                         /\ Cardinality(rest) >= MAX_PEER_BLOCK_INV_COUNT
                      THEN closing \cup {p} ELSE closing

(***************************************************************************)
(* The handlers of peer events                                             *)
(***************************************************************************)

Init ==
  /\ status = [p \in Peer |-> "new"]
  /\ closing = {}
  /\ listKnown = [p \in Peer |-> {}]
  /\ setAssigned = [p \in Peer |-> {}]
  /\ mapRepeat = [p \in Peer |-> {}]
  /\ mapState = {}
  /\ nAssigned = [b \in Block |-> NoPeer]
  /\ received = {}
  /\ setKnownPeer = [b \in Block |-> {}]
  /\ nGetDataCount = [b \in Block |-> 0]
  /\ fRepeatMint = {}
  /\ orphan = {}
  /\ refBlock = {}
  /\ chain = Genesis
  /\ pc = "idle"
  /\ vInv = {}
  /\ vBlockHash = {}
  /\ vRefNextBlock = {}
  /\ setSchedPeer = {}
  /\ setMisbehave = {}
  /\ minted = {}
  /\ nGetFail = 0
  /\ skipped = {}

\* HandleEvent(CEventPeerActive)
PeerActive(p) ==
  /\ status[p] = "new"
  /\ status' = [status EXCEPT ![p] = "active"]
  /\ UNCHANGED <<closing, invVars, knownVars, waitVars, chain, taskVars, historyVars>>

\* A handler of an event from p takes the mutex
Takes(p) == pc = "idle" /\ status[p] = "active"

\* HandleEvent(CEventPeerGetBlocks), and the handlers of GetData and of a
\* GetBlocks response: the reply goes out and p is scheduled
PeerGetBlocks(p, f) ==
  /\ Takes(p)
  /\ pc' = "post"
  /\ setSchedPeer' = {<<f, p>>}
  /\ UNCHANGED <<peerVars, invVars, knownVars, waitVars, chain, vInv, vBlockHash,
                 vRefNextBlock, setMisbehave, historyVars>>

\* HandleEvent(CEventPeerInv): the loop over the inventories starts
PeerInv(p, f) ==
  /\ Takes(p)
  /\ \E S \in SUBSET (Has[p] \cap ForkBlocks(f)) : S # {} /\ vInv' = InWindow(f, S)
  /\ pc' = IF vInv' = {} THEN "post" ELSE "inv"
  /\ setSchedPeer' = {<<f, p>>}
  /\ UNCHANGED <<peerVars, invVars, knownVars, waitVars, chain, vBlockHash,
                 vRefNextBlock, setMisbehave, historyVars>>

\* CSchedule::CheckAddInvIdleLocation
CheckAddInvIdleLocation(f, p) ==
  /\ Cardinality(mapState \cap ForkBlocks(f)) < MAX_INV_COUNT
  /\ Cardinality(listKnown[p] \cap ForkBlocks(f)) < MAX_PEER_BLOCK_INV_COUNT

\* One turn of that loop, with CSchedule::AddNewInv
AddNewInv(p, f) ==
  /\ pc = "inv" /\ <<f, p>> \in setSchedPeer
  /\ \E b \in vInv :
       /\ vInv' = vInv \ {b}
       /\ IF b \notin chain /\ CheckAddInvIdleLocation(f, p)
          THEN /\ mapState' = mapState \cup {b}
               /\ setKnownPeer' = [setKnownPeer EXCEPT ![b] = @ \cup {p}]
               /\ listKnown' = [listKnown EXCEPT ![p] = @ \cup {b}]
          ELSE UNCHANGED <<mapState, setKnownPeer, listKnown>>
       /\ pc' = IF vInv = {b} THEN "post" ELSE "inv"
  /\ UNCHANGED <<peerVars, nAssigned, received, nGetDataCount, fRepeatMint, setAssigned,
                 mapRepeat, waitVars, chain, vBlockHash, vRefNextBlock, setSchedPeer,
                 setMisbehave, historyVars>>

\* HandleEvent(CEventPeerGetFail) with CSchedule::CancelAssignedInv: p cannot
\* deliver the blocks of S.  Only p itself is scheduled again.
PeerGetFail(p, f) ==
  /\ Takes(p) /\ p \notin Steady /\ nGetFail < MaxGetFail
  /\ \E S \in SUBSET (setAssigned[p] \cap ForkBlocks(f)) :
       LET cancel == {b \in S \cap mapState : nAssigned[b] = p /\ b \notin received} IN
       /\ S # {}
       /\ RemoveKnownPeer(cancel, p)
       /\ listKnown' = [listKnown EXCEPT ![p] = @ \ cancel]
       /\ setAssigned' = [setAssigned EXCEPT ![p] = @ \ cancel]
       /\ mapRepeat' = [mapRepeat EXCEPT ![p] = @ \ cancel]
  /\ pc' = "post"
  /\ setSchedPeer' = {<<f, p>>}
  /\ nGetFail' = nGetFail + 1
  /\ UNCHANGED <<peerVars, chain, vInv, vBlockHash, vRefNextBlock, setMisbehave, minted>>

\* HandleEvent(CEventPeerDeactive) with CSchedule::RemovePeer in every fork:
\* what p was asked for, and what it had delivered, is to be asked of the
\* other peers that announced it
PeerDeactive(p) ==
  /\ Takes(p) /\ (p \in closing \/ p \notin Steady)
  /\ status' = [status EXCEPT ![p] = "gone"]
  /\ LET known == listKnown[p] \cap mapState
         lost == {b \in known : nAssigned[b] = p}
     IN
     /\ RemoveKnownPeer(known, p)
     /\ setSchedPeer' = UNION {{ForkOf[b]} \X (setKnownPeer[b] \ {p}) : b \in lost}
  /\ listKnown' = [listKnown EXCEPT ![p] = {}]
  /\ setAssigned' = [setAssigned EXCEPT ![p] = {}]
  /\ mapRepeat' = [mapRepeat EXCEPT ![p] = {}]
  /\ pc' = "post"
  /\ UNCHANGED <<closing, chain, vInv, vBlockHash, vRefNextBlock, setMisbehave, minted, nGetFail>>

\* CSchedule::ReceiveBlock: a block that was not requested from p is ignored
ReceiveBlock(p, b) ==
  /\ b \in mapState /\ nAssigned[b] = p /\ b \notin received
  /\ received' = received \cup {b}
  /\ setAssigned' = [setAssigned EXCEPT ![p] = @ \ {b}]

\* Mutant: a block that cannot be accepted is invalidated with its branch
SubmitValid(b) ==
  /\ pc' = IF ForkOf[Prev[b]] = ForkOf[b] /\ b \in Valid THEN "add" ELSE "invalid"
  /\ vBlockHash' = {b}

\* The block to submit, or nothing: a block whose previous block is of another
\* fork is invalidated
Submit(b) ==
  /\ pc' = IF ForkOf[Prev[b]] = ForkOf[b] THEN "add" ELSE "invalid"
  /\ vBlockHash' = {b}

\* HandleEvent(CEventPeerBlock) up to AddNewBlock.  A block off the checkpoint
\* gets its sender reported, a premature block waits for its timer, and nobody is
\* scheduled.  An orphan makes the handler look for the lowest received block
\* below it.
PeerBlock(p, b) ==
  /\ Takes(p)
  /\ ReceiveBlock(p, b)
  /\ closing' = IF b \in OffCheckPoint THEN closing \cup {p} ELSE closing
  /\ \/ /\ b \in OffCheckPoint \cup Premature
        /\ UNCHANGED <<orphan, pc, vBlockHash, setSchedPeer>>
     \/ /\ b \notin OffCheckPoint \cup Premature /\ Prev[b] \in chain
        /\ Submit(b)
        /\ setSchedPeer' = {ForkOf[b]} \X setKnownPeer[b]
        /\ UNCHANGED orphan
     \/ /\ b \notin OffCheckPoint \cup Premature /\ Prev[b] \notin chain
        /\ orphan' = orphan \cup {b}
        /\ LET first == {x \in CheckPrevBlock(b, received', orphan') : Prev[x] \in chain} IN
           \/ \E x \in first : Submit(x)
           \/ first = {} /\ pc' = "post" /\ UNCHANGED vBlockHash
        /\ setSchedPeer' = {ForkOf[b]} \X setKnownPeer[b]
  /\ UNCHANGED <<status, mapState, nAssigned, setKnownPeer, nGetDataCount, fRepeatMint,
                 listKnown, mapRepeat, refBlock, chain, vInv, vRefNextBlock, setMisbehave,
                 historyVars>>

\* CSchedule::InvalidateBlock: the block and every orphan above it go, and
\* every peer that announced one of them is reported
InvalidateBlock(b) ==
  /\ pc = "invalid" /\ b \in vBlockHash
  /\ LET invalid == {b} \cup Branch(b) IN
     /\ RemoveInv(invalid)
     /\ setMisbehave' = UNION {setKnownPeer[c] : c \in invalid}
  /\ pc' = "post"
  /\ vBlockHash' = {}
  /\ UNCHANGED <<peerVars, chain, vInv, vRefNextBlock, setSchedPeer, minted, nGetFail>>

(***************************************************************************)
(* CNetChannel::AddNewBlock, one action for each outcome of a turn of its  *)
(* loop.  pc is "add" in the call of the handler and "addref" in the calls *)
(* that AddRefNextBlock makes, whose results are thrown away.              *)
(***************************************************************************)

Turn(b) == pc \in {"add", "addref"} /\ b \in vBlockHash

\* Where AddNewBlock returns to
AfterLoop(refNext) == IF refNext = {} THEN "post" ELSE "ref"

\* The loop goes on, with the orphans that waited for b when next is theirs
Continue(b, next) ==
  LET rest == (vBlockHash \ {b}) \cup next
      refNext == IF pc = "add" /\ b \in chain' \ chain /\ IsPrimary(b)
                 THEN vRefNextBlock \cup GetNextRefBlock(b) ELSE vRefNextBlock
  IN
  /\ vBlockHash' = rest
  /\ vRefNextBlock' = refNext
  /\ pc' = IF rest = {} THEN AfterLoop(refNext) ELSE pc
  /\ setSchedPeer' = IF pc = "add"
                     THEN setSchedPeer \cup ({ForkOf[b]} \X setKnownPeer[b])
                     ELSE setSchedPeer
  /\ UNCHANGED setMisbehave

\* An early return, which leaves the rest of the list where it is
Return(b, misbehave) ==
  /\ vBlockHash' = {}
  /\ pc' = AfterLoop(vRefNextBlock)
  /\ setMisbehave' = IF pc = "add" THEN setMisbehave \cup misbehave ELSE setMisbehave
  /\ skipped' = skipped \cup (vBlockHash \ {b})
  /\ UNCHANGED <<vRefNextBlock, setSchedPeer>>

\* The block is no longer there
AddNotFound(b) ==
  /\ Turn(b) /\ b \notin received
  /\ vBlockHash' = vBlockHash \ {b}
  /\ pc' = IF vBlockHash = {b} THEN AfterLoop(vRefNextBlock) ELSE pc
  /\ UNCHANGED <<peerVars, invVars, knownVars, waitVars, chain, vInv, vRefNextBlock,
                 setSchedPeer, setMisbehave, historyVars>>

\* The block is stored already (Exists, or ERR_ALREADY_HAVE when another thread
\* is faster)
AddExisting(b) ==
  /\ Turn(b) /\ b \in received /\ b \in chain
  /\ UNCHANGED <<peerVars, chain, vInv, minted, nGetFail>>
  /\ Continue(b, GetNextBlock(b))
  /\ RemoveInv({b})

RefMissing(b) == b \in NoProof \/ (Ref[b] # NoBlock /\ Ref[b] \notin chain)

\* The block refers to a primary block that is not stored, CSchedule::AddRefBlock,
\* or its proof cannot be read
AddRefBlock(b) ==
  /\ Turn(b) /\ b \in received /\ b \notin chain /\ RefMissing(b)
  /\ refBlock' = refBlock \cup ({b} \ NoProof)
  /\ Return(b, {})
  /\ UNCHANGED <<peerVars, invVars, knownVars, orphan, chain, vInv, minted, nGetFail>>

\* The block repeats another one: CSchedule::SetRepeatBlock, and the peer that
\* sent too many of them at one height is reported
SetRepeatBlock(b) ==
  /\ Turn(b) /\ b \in received /\ b \notin chain /\ ~RefMissing(b)
  /\ b \in Repeat \ fRepeatMint
  /\ fRepeatMint' = fRepeatMint \cup {b}
  /\ LET sender == nAssigned[b]
         repeat == mapRepeat[sender] \cup ({b} \cap listKnown[sender])
         same == {c \in repeat : ForkOf[c] = ForkOf[b] /\ Height[c] = Height[b]}
     IN
     /\ mapRepeat' = [mapRepeat EXCEPT ![sender] = repeat]
     /\ Return(b, IF Cardinality(same) >= MAX_REPEAT_BLOCK_COUNT THEN {sender} ELSE {})
  /\ UNCHANGED <<peerVars, mapState, nAssigned, received, setKnownPeer, nGetDataCount,
                 listKnown, setAssigned, waitVars, chain, vInv, minted, nGetFail>>

\* CDispatcher::AddNewBlock is called.  When it fails the block goes and the
\* orphans above it stay.
AddToDispatcher(b) ==
  /\ Turn(b) /\ b \in received /\ b \notin chain /\ ~RefMissing(b)
  /\ b \notin Repeat \ fRepeatMint
  /\ chain' = IF b \in Valid /\ Prev[b] \in chain THEN chain \cup {b} ELSE chain
  /\ Continue(b, IF b \in chain' THEN GetNextBlock(b) ELSE {})
  /\ RemoveInv({b})
  /\ UNCHANGED <<peerVars, vInv, minted, nGetFail>>

\* CNetChannel::AddRefNextBlock: the next call of AddNewBlock
AddRefNextBlock ==
  /\ pc = "ref"
  /\ \E c \in vRefNextBlock : /\ vBlockHash' = {c}
                              /\ vRefNextBlock' = vRefNextBlock \ {c}
  /\ pc' = "addref"
  /\ UNCHANGED <<peerVars, invVars, knownVars, waitVars, chain, vInv, setSchedPeer,
                 setMisbehave, historyVars>>

\* CNetChannel::PostAddNew: the peers are scheduled, then the others reported
PostSchedule(p, f) ==
  /\ pc = "post" /\ <<f, p>> \in setSchedPeer
  /\ setSchedPeer' = setSchedPeer \ {<<f, p>>}
  /\ \/ p \notin setMisbehave /\ SchedulePeerInv(f, p)
     \/ p \in setMisbehave /\ UNCHANGED <<invVars, knownVars, waitVars, skipped, closing>>
  /\ UNCHANGED <<status, chain, pc, vInv, vBlockHash, vRefNextBlock, setMisbehave, minted, nGetFail>>

PostDone ==
  /\ pc = "post" /\ setSchedPeer = {}
  /\ pc' = "idle"
  /\ closing' = closing \cup setMisbehave
  /\ setMisbehave' = {}
  /\ UNCHANGED <<status, invVars, knownVars, waitVars, chain, vInv, vBlockHash, vRefNextBlock,
                 setSchedPeer, historyVars>>

\* Another thread stores a block: CBlockMaker::DispatchBlock, CBlockChannel.
\* It does not hold mtxSched.
MintBlock(b) ==
  /\ b \in MayMint \ chain
  /\ b \in Valid /\ Prev[b] \in chain /\ ~RefMissing(b)
  /\ chain' = chain \cup {b}
  /\ minted' = minted \cup {b}
  /\ UNCHANGED <<peerVars, invVars, knownVars, waitVars, taskVars, skipped, nGetFail>>

Step == \/ \E p \in Peer, f \in Fork : AddNewInv(p, f) \/ PostSchedule(p, f)
        \/ \E b \in Block : \/ InvalidateBlock(b) \/ AddNotFound(b) \/ AddExisting(b)
                            \/ AddRefBlock(b) \/ SetRepeatBlock(b) \/ AddToDispatcher(b)
        \/ AddRefNextBlock
        \/ PostDone

Next == \/ Step
        \/ \E p \in Peer : PeerActive(p) \/ PeerDeactive(p)
        \/ \E p \in Peer, f \in Fork : PeerGetBlocks(p, f) \/ PeerInv(p, f) \/ PeerGetFail(p, f)
        \/ \E p \in Peer, b \in Block : PeerBlock(p, b)
        \/ \E b \in Block : MintBlock(b)

Spec == Init /\ [][Next]_vars

\* p tells about every block that is missing here: its answer to GetBlocks
\* (CNetChannel::HandleEvent(CEventPeerGetBlocks) on the other side)
PeerInvAll(p, f) ==
  PeerInv(p, f) /\ vInv' = InWindow(f, (Has[p] \cap ForkBlocks(f)) \ chain)

\* p deals with the request for b: it sends the block or a failure, or the
\* response timer of CBbPeerNet closes the connection
PeerAnswer(p, b) ==
  /\ b \in setAssigned[p]
  /\ \/ PeerBlock(p, b)
     \/ PeerGetFail(p, ForkOf[b]) /\ b \notin setAssigned'[p]
     \/ PeerDeactive(p)

\* The holder of the mutex goes on.  Events are handled in the order in which
\* they were queued, so each is handled although the mutex is often taken.
\* Every request is answered or times out; a steady peer connects, polls this
\* node with GetBlocks (ForkUpdateTimerFunc) and answers its GetBlocks.
Fairness ==
  /\ WF_vars(Step)
  /\ \A p \in Peer, b \in NewBlock : SF_vars(PeerAnswer(p, b))
  /\ \A p \in Steady : WF_vars(PeerActive(p))
  /\ \A p \in Steady, f \in Fork : /\ SF_vars(PeerInvAll(p, f))
                                  /\ SF_vars(PeerGetBlocks(p, f))

FairSpec == Spec /\ Fairness

(***************************************************************************)
(* Properties                                                              *)
(***************************************************************************)

\* The fields of CSchedule and CNetChannel keep their types, and a block is
\* requested at most MAX_REGETDATA_COUNT times before it is dropped
TypeOK ==
  /\ status \in [Peer -> {"new", "active", "gone"}]
  /\ closing \subseteq Peer
  /\ listKnown \in [Peer -> SUBSET NewBlock]
  /\ setAssigned \in [Peer -> SUBSET NewBlock]
  /\ mapRepeat \in [Peer -> SUBSET NewBlock]
  /\ mapState \subseteq NewBlock
  /\ nAssigned \in [Block -> Peer \cup {NoPeer}]
  /\ received \subseteq NewBlock
  /\ setKnownPeer \in [Block -> SUBSET Peer]
  /\ nGetDataCount \in [Block -> 0 .. MAX_REGETDATA_COUNT]
  /\ fRepeatMint \subseteq NewBlock
  /\ orphan \subseteq NewBlock
  /\ refBlock \subseteq NewBlock
  /\ chain \subseteq Block
  /\ pc \in {"idle", "inv", "invalid", "add", "addref", "ref", "post"}
  /\ vInv \subseteq NewBlock
  /\ vBlockHash \subseteq NewBlock
  /\ vRefNextBlock \subseteq NewBlock
  /\ setSchedPeer \subseteq Fork \X Peer
  /\ setMisbehave \subseteq Peer
  /\ minted \subseteq NewBlock
  /\ nGetFail \in 0 .. MaxGetFail
  /\ skipped \subseteq NewBlock

\* No block is wedged: a block that counts as requested (nAssigned, which stops
\* every other peer from being asked) is requested from a connected peer that
\* announced it and still owes it, or has been received from that peer
NotWedged ==
  \A b \in mapState : nAssigned[b] # NoPeer =>
    /\ status[nAssigned[b]] = "active"
    /\ b \in listKnown[nAssigned[b]]
    /\ b \in setAssigned[nAssigned[b]] \/ b \in received

\* The lists of the peers and the states of the blocks tell the same story
IndexConsistent ==
  \A b \in Block :
    /\ \A p \in Peer : b \in listKnown[p] <=> p \in setKnownPeer[b]
    /\ \A p \in Peer : b \in setAssigned[p] <=> nAssigned[b] = p /\ b \notin received
    /\ b \in mapState <=> setKnownPeer[b] # {}
    /\ nAssigned[b] # NoPeer => nAssigned[b] \in setKnownPeer[b]
    /\ b \in received => nAssigned[b] # NoPeer

\* The block would be stored if it were submitted now
Connectable(b) ==
  /\ b \in Valid
  /\ Prev[b] \in chain /\ ForkOf[Prev[b]] = ForkOf[b]
  /\ ~RefMissing(b)
  /\ b \notin OffCheckPoint \cup Premature

\* The ways in which a block may wait although it could be stored: it repeats
\* another one, AddNewBlock returned before it came to it, or another thread
\* stored the block it waited for
Waits(b) == \/ b \in fRepeatMint
            \/ b \in skipped
            \/ Prev[b] \in minted
            \/ Ref[b] \in minted

\* When the mutex is free no received block could be stored and is not: none
\* waits for a previous or a referenced block that is there,
\* whatever the order of arrival of blocks, announcements and disconnections,
\* unless it is in one of those three situations
ReceivedIsSubmitted ==
  pc = "idle" => \A b \in received : Connectable(b) => Waits(b)

\* A peer that only announces valid blocks that are not repeats, and delivers
\* them, is never reported as misbehaving
SteadyNotReported == \A p \in Steady : p \notin closing

\* Every block that a steady peer announces is stored in the end, although
\* another peer may be asked for it first and fail, leave, or send it too late
Synchronises == \A p \in Steady : \A b \in Has[p] : <>(b \in chain)
=============================================================================

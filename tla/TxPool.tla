------------------------------- MODULE TxPool -------------------------------
(***************************************************************************)
(* The transaction pool of the primary fork (CForkTxPool under CTxPool)    *)
(* and the part of the node that feeds it: storage moves the tip of the    *)
(* fork, and the dispatcher thread that stored the block brings the update *)
(* to the pool afterwards.  Nothing orders these threads between the two   *)
(* calls, so several updates may be under way and arrive in any order.     *)
(*                                                                         *)
(* CTxPool::rwAccess is held by every operation that changes the pool; the *)
(* loops of SynchronizeBlockChain and LoadData are sequences of steps here *)
(* (`pc` is not "idle"), and only storage moves meanwhile.                 *)
(*                                                                         *)
(* A transaction is its hash: sender, recipient and nonce are constants.   *)
(* Balances, signatures and the other rules of VerifyTransaction are a     *)
(* choice: they may refuse any transaction.  mapMissTx and mapMissNonce    *)
(* always change together and are one set of transactions.                 *)
(***************************************************************************)
EXTENDS Integers, Sequences, FiniteSets

CONSTANTS Tx, Address, Block,
          NoAddress,   \* the recipient of a transaction that creates a contract
          From, To,
          Nonce,       \* CTransaction::GetNonce; of an enrolment, its height
          Cert,        \* the transactions of type TX_CERT: delegates enrolling
          LowPrice,    \* the transactions that pay less than nMintMinGasPrice
          Genesis, Prev, Height,
          Trust,       \* CBlockIndex::nChainTrust
          BlockTx,     \* CBlock::vtx, without TX_VOTE_REWARD
          MaxPush,     \* bound on nTxSequenceNumber for new transactions
          INIT_TX_SEQUENCE_NUMBER, MAX_TX_SEQUENCE_NUMBER,
          MAX_CACHE_MISSING_PREV_TX_COUNT, CONSENSUS_ENROLL_INTERVAL

NewBlock == Block \ {Genesis}

ASSUME ConstantsAssumption ==
  /\ NoAddress \notin Address
  /\ From \in [Tx -> Address]
  /\ To \in [Tx -> Address \cup {NoAddress}]
  /\ Nonce \in [Tx -> Nat]
  /\ IsFiniteSet(Tx)
  /\ Cert \subseteq Tx
  /\ \A t \in Cert : To[t] = From[t]   \* CCoreProtocol::VerifyCertTx
  /\ Genesis \in Block
  /\ Prev \in [NewBlock -> Block]
  /\ Height \in [Block -> Nat]
  /\ \A b \in NewBlock : Height[Prev[b]] < Height[b]
  /\ Trust \in [Block -> Nat]
  /\ BlockTx \in [Block -> SUBSET Tx]
  /\ INIT_TX_SEQUENCE_NUMBER \in Nat
  /\ MAX_TX_SEQUENCE_NUMBER \in Nat
  /\ MAX_CACHE_MISSING_PREV_TX_COUNT \in Nat \ {0}
  /\ CONSENSUS_ENROLL_INTERVAL \in Nat

\* A block and the blocks below it
Chain[b \in Block] == IF b = Genesis THEN {b} ELSE {b} \cup Chain[Prev[b]]

\* The transactions stored in the chain of b
ChainTx(b) == {t \in Tx : \E c \in Chain[b] : t \in BlockTx[c]}

\* The nonce of a in the state of block b (CBlockChain::RetrieveDestState)
ChainNonce(b, a) == Cardinality({t \in ChainTx(b) \ Cert : From[t] = a})

\* What CBlockChain::VerifyBlockTx has made sure of: the transactions of a
\* sender follow each other, from nonce 1
ASSUME StoredAssumption ==
  \A b \in Block, a \in Address :
    {Nonce[t] : t \in {x \in ChainTx(b) \ Cert : From[x] = a}} = 1 .. ChainNonce(b, a)

VARIABLES stored,             \* the blocks in storage
          last,               \* the tip of the fork in storage
          updates,            \* the updates that dispatcher threads hold
          mapTx,              \* the keys of CForkTxPool::mapTx and setTxLinkIndex
          nSequenceNumber,    \* CPooledTx::nSequenceNumber
          nTxSequenceNumber,
          entry,              \* the keys of mapAddressTxState
          mapDestTx,          \* CAddressTxState::mapDestTx
          nonce,              \* CAddressTxState::stateAddress, its nonce
          mapMissTx,          \* CAddressTxState::mapMissTx and mapMissNonce
          hashLastBlock,
          pc,                 \* where the holder of rwAccess is
          update,             \* SynchronizeBlockChain: the update it applies,
          todo,               \* what is left to add of the blocks it removes,
          setAddAddress,      \* and the senders left to refresh
          dest,               \* the address whose missing transactions are fetched
          vLoad,              \* LoadData: the saved transactions not yet loaded
          drifted,            \* history: addresses whose state may not be the chain's
          reordered           \* history: an update overtook another one

poolVars == <<mapTx, nSequenceNumber, nTxSequenceNumber, entry, mapDestTx, nonce, mapMissTx>>
chainVars == <<stored, last, updates>>
syncVars == <<pc, update, todo, setAddAddress, dest, vLoad>>
historyVars == <<drifted, reordered>>
vars == <<chainVars, poolVars, hashLastBlock, syncVars, historyVars>>

Update == [hashLastBlock : Block, hashPrev : Block,
           vBlockAddNew : SUBSET Tx, vBlockRemove : SUBSET Tx]

(***************************************************************************)
(* Reading the pool                                                        *)
(***************************************************************************)

Ends(t) == {From[t], To[t]} \ {NoAddress}

Senders(S) == {From[t] : t \in S}

\* GetDestState: the state of the pool if there is one, else that of the chain
StateNonce(a) == IF a \in entry THEN nonce[a] ELSE ChainNonce(hashLastBlock, a)

\* Mutant: the chain is not asked
ExistsPooled(t) == t \in mapTx

\* The pool holds the transaction or CBlockChain::ExistsTx finds it
Exists(t) == t \in mapTx \/ t \in ChainTx(last)

\* VerifyRepeatCertTx
VerifyRepeatCertTx(t) ==
  /\ Nonce[t] + CONSENSUS_ENROLL_INTERVAL >= Height[hashLastBlock]
  /\ Nonce[t] <= Height[hashLastBlock] + 2
  /\ \A c \in mapDestTx[To[t]] \cap Cert : Nonce[c] # Nonce[t]

\* FetchArrangeBlockTx, for a block on hashLastBlock with room for n of the
\* transactions that are not enrolments
FetchArrangeBlockTx(n) ==
  LET Before(x, t) == nSequenceNumber[x] <= nSequenceNumber[t]
      allowed == {t \in mapTx \ Cert :
                    \A x \in (mapTx \cap LowPrice) \ Cert : From[x] = From[t] => ~Before(x, t)}
  IN  {t \in allowed : Cardinality({x \in allowed : Before(x, t)}) <= n}

(***************************************************************************)
(* Changing the pool                                                       *)
(***************************************************************************)

\* SetAddressState: what is left of the missing transactions S at nonce n
SetAddressState(a, S, n) == {m \in S : Nonce[m] > n}

\* AddMissTx
AddMissTx(S, t, n) ==
  LET full == Cardinality(S) >= MAX_CACHE_MISSING_PREV_TX_COUNT
      lowest == {x \in S : \A y \in S : Nonce[x] <= Nonce[y]}
      kept == IF full THEN S \ lowest ELSE S
  IN  IF Nonce[t] <= n THEN S
      ELSE IF t \in kept THEN kept
      ELSE {x \in kept : Nonce[x] # Nonce[t]} \cup {t}

\* AddTx when the transaction is accepted, with AddPooledTx and SetDestState
AddTx(t) ==
  /\ ~Exists(t)
  /\ IF t \in Cert THEN VerifyRepeatCertTx(t) ELSE Nonce[t] = StateNonce(From[t]) + 1
  /\ mapTx' = mapTx \cup {t}
  /\ nSequenceNumber' = [nSequenceNumber EXCEPT ![t] = nTxSequenceNumber]
  /\ nTxSequenceNumber' = nTxSequenceNumber + 1
  /\ entry' = entry \cup Ends(t)
  /\ mapDestTx' = [a \in Address |-> mapDestTx[a] \cup (IF a \in Ends(t) THEN {t} ELSE {})]
  /\ nonce' = [a \in Address |->
                 IF a \notin Ends(t) THEN nonce[a]
                 ELSE StateNonce(a) + (IF a = From[t] /\ t \notin Cert THEN 1 ELSE 0)]
  /\ mapMissTx' = [a \in Address |->
                     IF a \notin Ends(t) THEN mapMissTx[a]
                     ELSE SetAddressState(a, mapMissTx[a] \ {t}, nonce'[a])]

\* AddTx when the nonce is not the next one (ERR_MISSING_PREV): the address gets
\* an entry even when the nonce is an old one and nothing is kept
AddTxMissing(t) ==
  LET from == From[t] IN
  /\ ~Exists(t)
  /\ t \notin Cert /\ Nonce[t] # StateNonce(from) + 1
  /\ entry' = entry \cup {from}
  /\ nonce' = [nonce EXCEPT ![from] = StateNonce(from)]
  /\ mapMissTx' = [mapMissTx EXCEPT ![from] = AddMissTx(@, t, StateNonce(from))]
  /\ UNCHANGED <<mapTx, nSequenceNumber, nTxSequenceNumber, mapDestTx>>

\* AddTx in a loop that does not look at the result
TryAddTx(t) == AddTx(t) \/ AddTxMissing(t) \/ UNCHANGED poolVars

\* Mutant: the numbers start again although transactions are left
NextSequenceNumberSoon(S) ==
  IF S # {} /\ nTxSequenceNumber > MAX_TX_SEQUENCE_NUMBER
  THEN INIT_TX_SEQUENCE_NUMBER ELSE nTxSequenceNumber

\* The sequence number after the transactions of S have gone
NextSequenceNumber(S) ==
  IF S # {} /\ mapTx \subseteq S /\ nTxSequenceNumber > MAX_TX_SEQUENCE_NUMBER
  THEN INIT_TX_SEQUENCE_NUMBER ELSE nTxSequenceNumber

\* The addresses whose entry goes with the transactions of S
Emptied(S) ==
  {a \in UNION {Ends(t) : t \in S} : mapDestTx[a] \subseteq S /\ mapMissTx[a] = {}}

\* Mutant: the transactions stay in the list of the recipient
RemovePooledTxsOfSender(S) ==
  /\ mapTx' = mapTx \ S
  /\ nSequenceNumber' = [t \in Tx |-> IF t \in S THEN 0 ELSE nSequenceNumber[t]]
  /\ nTxSequenceNumber' = NextSequenceNumber(S)
  /\ entry' = entry \ Emptied(S)
  /\ mapDestTx' = [a \in Address |-> mapDestTx[a] \ {t \in S : From[t] = a}]
  /\ nonce' = [a \in Address |-> IF a \in Emptied(S) THEN 0 ELSE nonce[a]]
  /\ UNCHANGED mapMissTx

\* RemovePooledTx for pooled transactions S
RemovePooledTxs(S) ==
  /\ mapTx' = mapTx \ S
  /\ nSequenceNumber' = [t \in Tx |-> IF t \in S THEN 0 ELSE nSequenceNumber[t]]
  /\ nTxSequenceNumber' = NextSequenceNumber(S)
  /\ entry' = entry \ Emptied(S)
  /\ mapDestTx' = [a \in Address |-> mapDestTx[a] \ S]
  /\ nonce' = [a \in Address |-> IF a \in Emptied(S) THEN 0 ELSE nonce[a]]
  /\ UNCHANGED mapMissTx

\* Mutant: an unknown transaction of a block does not matter
RemovedByKnown(S) == S \cap mapTx

\* RemovePooledTx: what goes when the added blocks have the transactions S.  When
\* the pool does not know one of them, everything from the same sender goes.
RemovedBy(S) ==
  {x \in mapTx : x \in S \/ \E t \in S \ mapTx : x \in mapDestTx[From[t]] /\ From[x] = From[t]}

\* CForkTxPool::ClearTxPool
EmptyPool ==
  /\ mapTx' = {}
  /\ nSequenceNumber' = [t \in Tx |-> 0]
  /\ nTxSequenceNumber' = INIT_TX_SEQUENCE_NUMBER
  /\ entry' = {}
  /\ mapDestTx' = [a \in Address |-> {}]
  /\ nonce' = [a \in Address |-> 0]
  /\ mapMissTx' = [a \in Address |-> {}]

(***************************************************************************)
(* The steps                                                               *)
(***************************************************************************)

NoUpdate == [hashLastBlock |-> Genesis, hashPrev |-> Genesis,
             vBlockAddNew |-> {}, vBlockRemove |-> {}]

Init ==
  /\ stored = {Genesis} /\ last = Genesis /\ updates = {}
  /\ mapTx = {}
  /\ nSequenceNumber = [t \in Tx |-> 0]
  /\ nTxSequenceNumber = INIT_TX_SEQUENCE_NUMBER
  /\ entry = {}
  /\ mapDestTx = [a \in Address |-> {}]
  /\ nonce = [a \in Address |-> 0]
  /\ mapMissTx = [a \in Address |-> {}]
  /\ hashLastBlock = Genesis
  /\ pc = "idle" /\ update = NoUpdate /\ todo = {} /\ setAddAddress = {}
  /\ dest = NoAddress /\ vLoad = <<>>
  /\ drifted = {} /\ reordered = FALSE

\* The transactions of the blocks of chain b that chain c has not
Branch(b, c) == {t \in Tx : \E x \in Chain[b] \ Chain[c] : t \in BlockTx[x]}

\* CDispatcher::AddNewBlock up to the call of the pool: StorageNewBlock stores the
\* block and makes it the tip if its chain is the better one.  When the trust is
\* equal, CBlockIndex::IsEquivalent decides.
StorageNewBlock(b) ==
  /\ b \notin stored /\ Prev[b] \in stored
  /\ stored' = stored \cup {b}
  /\ \/ /\ Trust[b] >= Trust[last]
        /\ last' = b
        /\ updates' = updates \cup {[hashLastBlock |-> b, hashPrev |-> last,
                                     vBlockAddNew |-> Branch(b, last),
                                     vBlockRemove |-> Branch(last, b)]}
     \/ /\ Trust[b] <= Trust[last]
        /\ UNCHANGED <<last, updates>>
  /\ UNCHANGED <<poolVars, hashLastBlock, syncVars, historyVars>>

\* CTxPool::Push, PushUserTx and PushCertTx, for one transaction
Push(t) ==
  /\ pc = "idle" /\ nTxSequenceNumber <= MaxPush
  /\ AddTx(t) \/ AddTxMissing(t)
  /\ UNCHANGED <<chainVars, hashLastBlock, syncVars, historyVars>>

\* SynchronizeBlockChain, the first loop: the transactions of the new blocks go
SyncStart(u) ==
  LET gone == RemovedBy(u.vBlockAddNew) IN
  /\ pc = "idle"
  /\ updates' = updates \ {u}
  /\ RemovePooledTxs(gone)
  /\ pc' = "sync"
  /\ update' = u
  /\ todo' = u.vBlockRemove \ Cert
  /\ setAddAddress' = Senders(u.vBlockAddNew)
  /\ drifted' = (drifted \cup Senders(gone \ (u.vBlockAddNew \cup Cert))) \cap entry'
  /\ reordered' = (reordered \/ u.hashPrev # hashLastBlock)
  /\ UNCHANGED <<stored, last, hashLastBlock, dest, vLoad>>

\* ... the second loop: the transactions of the removed blocks come back, the
\* oldest block first
SyncAddBack(t) ==
  /\ pc = "sync" /\ t \in todo
  /\ \A x \in todo : From[x] = From[t] => Nonce[x] >= Nonce[t]
  /\ TryAddTx(t)
  /\ todo' = todo \ {t}
  /\ UNCHANGED <<chainVars, hashLastBlock, pc, update, setAddAddress, dest, vLoad, historyVars>>

\* Mutant: the state of the chain always replaces that of the pool
RefreshedNonceAlways(a) == ChainNonce(update.hashLastBlock, a)

\* The state of a sender after the blocks: the pool keeps its own unless the chain
\* is ahead
RefreshedNonce(a) ==
  IF nonce[a] < ChainNonce(update.hashLastBlock, a)
  THEN ChainNonce(update.hashLastBlock, a) ELSE nonce[a]

\* ... the third loop, for one sender of the new blocks
SyncRefresh(a) ==
  /\ pc = "sync" /\ todo = {} /\ a \in setAddAddress
  /\ setAddAddress' = setAddAddress \ {a}
  /\ IF a \in entry
     THEN /\ nonce' = [nonce EXCEPT ![a] = RefreshedNonce(a)]
          /\ mapMissTx' = [mapMissTx EXCEPT ![a] = SetAddressState(a, @, RefreshedNonce(a))]
          /\ dest' = a /\ pc' = "miss"
     ELSE UNCHANGED <<nonce, mapMissTx, dest, pc>>
  /\ UNCHANGED <<chainVars, mapTx, nSequenceNumber, nTxSequenceNumber, entry, mapDestTx,
                 hashLastBlock, update, todo, vLoad, historyVars>>

\* ... and the missing transactions of that sender whose turn it now is
FetchNextMissTx(t) ==
  /\ pc = "miss" /\ t \in mapMissTx[dest] /\ Nonce[t] = nonce[dest] + 1
  /\ AddTx(t)
  /\ drifted' = drifted \cup ((entry' \ entry) \cap (Senders(update.vBlockAddNew) \ setAddAddress))
  /\ UNCHANGED <<chainVars, hashLastBlock, syncVars, reordered>>

\* ... until there is none, or AddTx refuses it
SyncNextDest ==
  /\ pc = "miss"
  /\ pc' = "sync" /\ dest' = NoAddress
  /\ UNCHANGED <<chainVars, poolVars, hashLastBlock, update, todo, setAddAddress, vLoad,
                 historyVars>>

\* ... and its end: RemoveObsoletedCertTx, at the height of the old last block,
\* then hashLastBlock
SyncDone ==
  /\ pc = "sync" /\ todo = {} /\ setAddAddress = {}
  /\ RemovePooledTxs({t \in mapTx \cap Cert :
                        Nonce[t] + CONSENSUS_ENROLL_INTERVAL < Height[hashLastBlock]})
  /\ hashLastBlock' = update.hashLastBlock
  /\ pc' = "idle" /\ update' = NoUpdate
  /\ drifted' = (drifted \cup Senders(update.vBlockRemove \ Cert)) \cap entry'
  /\ UNCHANGED <<chainVars, todo, setAddAddress, dest, vLoad, reordered>>

\* CTxPool::ClearTxPool: a block made from the pool was refused
ClearTxPool ==
  /\ pc = "idle"
  /\ EmptyPool
  /\ drifted' = {}
  /\ UNCHANGED <<chainVars, hashLastBlock, syncVars, reordered>>

\* The node starts, with the transactions v in the file of the pool
Start(v) ==
  /\ EmptyPool
  /\ hashLastBlock' = last
  /\ updates' = {}
  /\ vLoad' = v
  /\ pc' = IF v = <<>> THEN "idle" ELSE "load"
  /\ update' = NoUpdate /\ todo' = {} /\ setAddAddress' = {} /\ dest' = NoAddress
  /\ drifted' = {} /\ reordered' = FALSE
  /\ UNCHANGED <<stored, last>>

\* HandleHalt saves the pool in the order of the sequence numbers (GetSaveTxList)
Restart ==
  /\ pc = "idle"
  /\ \E v \in [1 .. Cardinality(mapTx) -> mapTx] :
       /\ \A i, j \in DOMAIN v : i < j => nSequenceNumber[v[i]] < nSequenceNumber[v[j]]
       /\ Start(v)

\* The node stops without HandleHalt: CTxPoolData::Load removed the file
Crash == Start(<<>>)

\* CTxPool::LoadData, for one transaction
LoadData ==
  /\ pc = "load"
  /\ TryAddTx(Head(vLoad))
  /\ vLoad' = Tail(vLoad)
  /\ pc' = IF Len(vLoad) = 1 THEN "idle" ELSE "load"
  /\ UNCHANGED <<chainVars, hashLastBlock, update, todo, setAddAddress, dest, historyVars>>

Next ==
  \/ \E b \in NewBlock : StorageNewBlock(b)
  \/ \E t \in Tx : Push(t)
  \/ \E u \in updates : SyncStart(u)
  \/ \E t \in Tx : SyncAddBack(t)
  \/ \E a \in Address : SyncRefresh(a)
  \/ \E t \in Tx : FetchNextMissTx(t)
  \/ SyncNextDest
  \/ SyncDone
  \/ ClearTxPool
  \/ Restart
  \/ Crash
  \/ LoadData

Spec == Init /\ [][Next]_vars

(***************************************************************************)
(* Properties                                                              *)
(***************************************************************************)

\* Types; a pooled transaction has a sequence number that was handed out since
\* the numbers last started (nTxSequenceNumber of CForkTxPool)
TypeOK ==
  /\ stored \subseteq Block /\ last \in Block /\ hashLastBlock \in Block
  /\ updates \subseteq Update /\ update \in Update
  /\ mapTx \subseteq Tx
  /\ nSequenceNumber \in [Tx -> Nat]
  /\ nTxSequenceNumber \in Nat
  /\ \A t \in mapTx : nSequenceNumber[t] < nTxSequenceNumber
  /\ entry \subseteq Address
  /\ mapDestTx \in [Address -> SUBSET Tx]
  /\ nonce \in [Address -> Nat]
  /\ mapMissTx \in [Address -> SUBSET Tx]
  /\ pc \in {"idle", "sync", "miss", "load"}
  /\ todo \subseteq Tx /\ setAddAddress \subseteq Address
  /\ dest \in Address \cup {NoAddress}
  /\ vLoad \in Seq(Tx)
  /\ drifted \subseteq Address /\ reordered \in BOOLEAN

\* A transaction is pooled exactly when the entries of its sender and recipient
\* list it, and an address that lists something or waits for something has an entry.
\* RemovePooledTx gives up when an entry is missing, and SynchronizeBlockChain then
\* leaves the pool half way, at the old last block.
PoolIndexed ==
  \A a \in Address :
    /\ mapDestTx[a] = {t \in mapTx : a \in Ends(t)}
    /\ mapDestTx[a] # {} \/ mapMissTx[a] # {} => a \in entry

\* The order in which FetchArrangeBlockTx and GetSaveTxList take the transactions
\* of a sender is that of their nonces, two of them never have the same nonce, and
\* the state the pool keeps for the sender is past all of them
NonceOrder ==
  \A t \in mapTx \ Cert :
    /\ Nonce[t] <= nonce[From[t]]
    /\ \A x \in mapTx \ Cert :
         From[x] = From[t] /\ x # t =>
           /\ Nonce[x] # Nonce[t]
           /\ nSequenceNumber[x] < nSequenceNumber[t] <=> Nonce[x] < Nonce[t]

\* The transactions that wait for a previous one (CAddressTxState::mapMissTx) are
\* their sender's own, are not in the pool, are past the state the pool keeps for
\* the sender, and are one to a nonce
MissingAhead ==
  \A a \in Address : \A t \in mapMissTx[a] :
    /\ From[t] = a /\ t \notin mapTx /\ Nonce[t] > nonce[a]
    /\ \A x \in mapMissTx[a] : x # t => Nonce[x] # Nonce[t]

\* A pooled transaction that the chain already has is in an update that is on its
\* way to the pool: when none is, the pool has nothing that is stored, however the
\* updates, new transactions, reorganisations and restarts were interleaved
\* (AddTx, SynchronizeBlockChain)
PooledNotStored ==
  \A t \in mapTx \cap ChainTx(last) : \E u \in updates : t \in u.vBlockAddNew

\* Of each sender, the block that FetchArrangeBlockTx puts together on
\* hashLastBlock has the next nonces of the chain without a gap, so that the block
\* is not refused for them.  This needs that no update overtook another one since
\* the start, and leaves out the senders whose state in the pool may differ from
\* that of the chain for as long as they have an entry: a block brought a
\* transaction that displaced pooled ones of the sender, a reorganisation undid one,
\* or the entry was made, at the old last block, by a transaction that came out of
\* mapMissTx when the sender itself had been refreshed.
BlockFollowsChain ==
  pc = "idle" /\ ~reordered =>
    \A a \in Address \ drifted, n \in 1 .. Cardinality(mapTx) :
      LET taken == {t \in FetchArrangeBlockTx(n) : From[t] = a} IN
        {Nonce[t] : t \in taken} =
          (ChainNonce(hashLastBlock, a) + 1) .. (ChainNonce(hashLastBlock, a) + Cardinality(taken))

-----------------------------------------------------------------------------
(* The invariants that make BlockFollowsChain inductive.                   *)

\* The pooled transactions of a that take a nonce
Pooled(a) == {t \in mapTx \ Cert : From[t] = a}

Nonces(S) == {Nonce[t] : t \in S}

\* An update has the transactions of the two branches between its blocks
IsBranch(u) ==
  /\ u.vBlockAddNew = Branch(u.hashLastBlock, u.hashPrev)
  /\ u.vBlockRemove = Branch(u.hashPrev, u.hashLastBlock)

\* What SynchronizeBlockChain works on: an update from hashLastBlock unless one
\* was overtaken, and the parts of it that are left
SyncFromLast ==
  /\ \A u \in updates : IsBranch(u)
  /\ pc \in {"idle", "load"} => update = NoUpdate /\ todo = {} /\ setAddAddress = {}
  /\ pc \in {"sync", "miss"} =>
       /\ IsBranch(update)
       /\ reordered \/ update.hashPrev = hashLastBlock
       /\ todo \subseteq update.vBlockRemove \ Cert
       /\ setAddAddress \subseteq Senders(update.vBlockAddNew)
       /\ todo = {} \/ setAddAddress = Senders(update.vBlockAddNew)
  /\ pc = "miss" => todo = {} /\ dest \in entry \ setAddAddress

\* The block that the pool follows: while it synchronizes, the new one
Target == IF pc \in {"sync", "miss"} THEN update.hashLastBlock ELSE hashLastBlock

\* The pooled transactions of a sender have the nonces from the chain's to the
\* pool's, which is not behind once SynchronizeBlockChain has refreshed it
PoolFollows ==
  ~reordered =>
    \A a \in entry \ (drifted \cup Senders(update.vBlockRemove \ Cert)) :
      /\ Nonces(Pooled(a)) = (ChainNonce(Target, a) + 1) .. nonce[a]
      /\ a \in setAddAddress \/ nonce[a] >= ChainNonce(Target, a)
=============================================================================

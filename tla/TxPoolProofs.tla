---------------------------- MODULE TxPoolProofs ----------------------------
(***************************************************************************)
(* Proofs about TxPool, for any transactions, addresses, blocks and bounds:*)
(* the entries of the pool list exactly what is pooled, a sender's         *)
(* transactions leave in the order of their nonces, the pool keeps nothing *)
(* that is stored unless an update is on its way, and the blocks made from *)
(* the pool follow the nonces of the chain.                                *)
(***************************************************************************)
EXTENDS TxPool, CountingFacts

\* The types of the pool itself
PoolType ==
  /\ mapTx \subseteq Tx
  /\ nSequenceNumber \in [Tx -> Nat]
  /\ nTxSequenceNumber \in Nat
  /\ \A t \in mapTx : nSequenceNumber[t] < nTxSequenceNumber
  /\ entry \subseteq Address
  /\ mapDestTx \in [Address -> SUBSET Tx]
  /\ nonce \in [Address -> Nat]
  /\ mapMissTx \in [Address -> SUBSET Tx]

\* What holds of the pool between any two steps
PoolInv == PoolType /\ PoolIndexed /\ NonceOrder /\ MissingAhead

\* The types of the rest; LoadData has something to load
ControlInv ==
  /\ stored \subseteq Block /\ last \in Block /\ hashLastBlock \in Block
  /\ updates \subseteq Update /\ update \in Update
  /\ pc \in {"idle", "sync", "miss", "load"}
  /\ todo \subseteq Tx /\ setAddAddress \subseteq Address
  /\ dest \in Address \cup {NoAddress}
  /\ vLoad \in Seq(Tx)
  /\ pc = "load" => vLoad # <<>>
  /\ drifted \subseteq Address /\ reordered \in BOOLEAN

\* The inductive invariant of the pool and its synchronisation
IInv == PoolInv /\ ControlInv /\ PooledNotStored

\* The nonce of an address in a state of the chain is a number
LEMMA ChainNonceNat == \A b, a : ChainNonce(b, a) \in Nat
<1> TAKE b, a
<1> DEFINE S == {t \in ChainTx(b) \ Cert : From[t] = a}
<1>1. S \subseteq Tx
  BY Zenon DEF ChainTx
<1>2. IsFiniteSet(S)
  BY <1>1, FS_Subset, ConstantsAssumption, Zenon
<1> QED BY <1>2, FS_CardinalityType, Zenon DEF ChainNonce

\* So is the one that GetDestState finds
LEMMA StateNonceNat ==
  ASSUME PoolType
  PROVE  \A a \in Address : StateNonce(a) \in Nat
BY ChainNonceNat, Zenon DEF PoolType, StateNonce

\* The sender of a transaction is an address; so are its ends
LEMMA EndsAddress ==
  \A t \in Tx : From[t] \in Address /\ From[t] \in Ends(t) /\ Ends(t) \subseteq Address
BY ConstantsAssumption DEF Ends

\* AddTx of an accepted transaction keeps the pool in order
LEMMA AddTxPool ==
  ASSUME PoolInv, NEW t \in Tx, AddTx(t)
  PROVE  PoolInv'
<1> DEFINE N(a) == StateNonce(a) + (IF a = From[t] /\ t \notin Cert THEN 1 ELSE 0)
<1>1. /\ From[t] \in Address /\ From[t] \in Ends(t) /\ Ends(t) \subseteq Address
      /\ t \notin mapTx
      /\ Nonce \in [Tx -> Nat] /\ From \in [Tx -> Address]
  BY EndsAddress, ConstantsAssumption, Zenon DEF AddTx, Exists
<1>2. \A a \in Address : StateNonce(a) \in Nat /\ N(a) \in Nat /\ N(a) >= StateNonce(a)
  BY StateNonceNat DEF PoolInv
<1>3. \A a \in entry : StateNonce(a) = nonce[a]
  BY Zenon DEF StateNonce
<1>4. \A a \in Address : nonce'[a] = IF a \in Ends(t) THEN N(a) ELSE nonce[a]
  BY Zenon DEF AddTx
<1>5. \A a \in Address :
        mapMissTx'[a] = IF a \in Ends(t)
                        THEN {m \in mapMissTx[a] : m # t /\ Nonce[m] > N(a)} ELSE mapMissTx[a]
  BY Zenon, <1>4 DEF AddTx, SetAddressState
<1>6. PoolType'
  <2>1. nonce' \in [Address -> Nat]
    BY <1>2, Zenon DEF AddTx, PoolInv, PoolType
  <2>2. mapMissTx' \in [Address -> SUBSET Tx]
    <3>1. mapMissTx' = [a \in Address |-> mapMissTx'[a]]
      BY Zenon DEF AddTx
    <3>2. ASSUME NEW a \in Address PROVE mapMissTx'[a] \subseteq Tx
      <4>1. mapMissTx[a] \subseteq Tx
        BY Zenon DEF PoolInv, PoolType
      <4> QED BY Zenon, <1>5, <4>1
    <3> QED BY <3>1, <3>2, Zenon
  <2>3. \A x \in mapTx' : nSequenceNumber'[x] < nTxSequenceNumber'
    BY DEF AddTx, PoolInv, PoolType
  <2>4. mapDestTx' \in [Address -> SUBSET Tx]
    BY Zenon DEF AddTx, PoolInv, PoolType
  <2>5. /\ mapTx' \subseteq Tx /\ entry' \subseteq Address
        /\ nSequenceNumber' \in [Tx -> Nat] /\ nTxSequenceNumber' \in Nat
    BY <1>1 DEF AddTx, PoolInv, PoolType
  <2> QED BY <2>1, <2>2, <2>3, <2>4, <2>5, Zenon DEF PoolType
<1>7. PoolIndexed'
  <2> SUFFICES ASSUME NEW a \in Address
               PROVE  /\ mapDestTx'[a] = {x \in mapTx' : a \in Ends(x)}
                      /\ mapDestTx'[a] # {} \/ mapMissTx'[a] # {} => a \in entry'
    BY Zenon DEF PoolIndexed, Ends
  <2>1. mapDestTx[a] = {x \in mapTx : a \in Ends(x)}
    BY Zenon DEF PoolInv, PoolIndexed
  <2>2. mapDestTx'[a] = mapDestTx[a] \cup (IF a \in Ends(t) THEN {t} ELSE {})
    BY Zenon DEF AddTx
  <2>3. mapDestTx[a] # {} \/ mapMissTx[a] # {} => a \in entry
    BY Zenon DEF PoolInv, PoolIndexed
  <2> QED BY <1>5, <2>1, <2>2, <2>3, Zenon DEF AddTx
<1>8. \A x \in mapTx \ Cert : From[x] = From[t] => From[t] \in entry /\ Nonce[x] <= nonce[From[t]]
  BY EndsAddress, Zenon DEF PoolInv, PoolType, PoolIndexed, NonceOrder
<1>9. NonceOrder'
  <2>1. \A x \in mapTx \ Cert : Nonce[x] <= nonce'[From[x]]
    <3> SUFFICES ASSUME NEW x \in mapTx \ Cert PROVE Nonce[x] <= nonce'[From[x]]
      BY Zenon
    <3>1. x \in Tx /\ From[x] \in Address /\ Nonce[x] \in Nat
      BY <1>1, Zenon DEF PoolInv, PoolType
    <3>2. Nonce[x] <= nonce[From[x]] /\ From[x] \in entry /\ nonce[From[x]] \in Nat
      BY <3>1, EndsAddress, Zenon DEF PoolInv, PoolType, PoolIndexed, NonceOrder
    <3> QED BY <3>1, <3>2, <1>2, <1>3, <1>4
  <2>2. t \notin Cert => Nonce[t] = StateNonce(From[t]) + 1 /\ nonce'[From[t]] = Nonce[t]
    BY <1>1, <1>4, Zenon DEF AddTx
  <2>3. \A x \in mapTx \ Cert : t \notin Cert /\ From[x] = From[t] => Nonce[x] < Nonce[t]
    <3> SUFFICES ASSUME NEW x \in mapTx \ Cert, t \notin Cert, From[x] = From[t]
                 PROVE  Nonce[x] < Nonce[t]
      BY Zenon
    <3>1. Nonce[x] \in Nat /\ nonce[From[t]] \in Nat
      BY <1>1, Zenon DEF PoolInv, PoolType
    <3> QED BY <3>1, <1>3, <1>8, <2>2
  <2>4. /\ nSequenceNumber'[t] = nTxSequenceNumber
        /\ \A x \in mapTx : /\ nSequenceNumber'[x] = nSequenceNumber[x]
                            /\ nSequenceNumber[x] < nTxSequenceNumber
                            /\ nSequenceNumber[x] \in Nat
    BY <1>1, Zenon DEF AddTx, PoolInv, PoolType
  <2> SUFFICES ASSUME NEW y \in mapTx' \ Cert
               PROVE  /\ Nonce[y] <= nonce'[From[y]]
                      /\ \A x \in mapTx' \ Cert :
                           From[x] = From[y] /\ x # y =>
                             /\ Nonce[x] # Nonce[y]
                             /\ nSequenceNumber'[x] < nSequenceNumber'[y] <=> Nonce[x] < Nonce[y]
    BY Zenon DEF NonceOrder
  <2>5. \A x \in mapTx' \ Cert : x = t \/ x \in mapTx \ Cert
    BY Zenon DEF AddTx
  <2>6. \A x \in mapTx' \ Cert : Nonce[x] \in Nat
    BY <2>5, <1>1, Zenon DEF PoolInv, PoolType
  <2>7. Nonce[y] <= nonce'[From[y]]
    BY <2>1, <2>2, <2>5, <2>6
  <2>8. ASSUME NEW x \in mapTx' \ Cert, From[x] = From[y], x # y
        PROVE  /\ Nonce[x] # Nonce[y]
               /\ nSequenceNumber'[x] < nSequenceNumber'[y] <=> Nonce[x] < Nonce[y]
    <3>1. CASE x = t
      BY <3>1, <2>8, <2>3, <2>4, <2>5, <2>6, nTxSequenceNumber \in Nat DEF PoolInv, PoolType
    <3>2. CASE y = t
      BY <3>2, <2>8, <2>3, <2>4, <2>5, <2>6, nTxSequenceNumber \in Nat DEF PoolInv, PoolType
    <3>3. CASE x # t /\ y # t
      BY <3>3, <2>8, <2>4, <2>5, Zenon DEF PoolInv, NonceOrder
    <3> QED BY <3>1, <3>2, <3>3, Zenon
  <2> QED BY <2>7, <2>8, Zenon
<1>10. MissingAhead'
  <2> SUFFICES ASSUME NEW a \in Address, NEW m \in mapMissTx'[a]
               PROVE  /\ From[m] = a /\ m \notin mapTx' /\ Nonce[m] > nonce'[a]
                      /\ \A x \in mapMissTx'[a] : x # m => Nonce[x] # Nonce[m]
    BY Zenon DEF MissingAhead
  <2>1. mapMissTx'[a] \subseteq mapMissTx[a]
    BY Zenon, <1>5
  <2>2. /\ From[m] = a /\ m \notin mapTx /\ Nonce[m] > nonce[a]
        /\ \A x \in mapMissTx[a] : x # m => Nonce[x] # Nonce[m]
    BY <2>1, Zenon DEF PoolInv, MissingAhead
  <2>3. Nonce[m] > nonce'[a]
    <3>1. CASE a \in Ends(t)
      <4>1. m \in {x \in mapMissTx[a] : x # t /\ Nonce[x] > N(a)} /\ nonce'[a] = N(a)
        BY <3>1, <1>4, <1>5, Zenon
      <4> HIDE DEF N
      <4> QED BY <4>1, Zenon
    <3>2. CASE a \notin Ends(t)
      BY <3>2, <2>2, <1>4, Zenon
    <3> QED BY <3>1, <3>2, Zenon
  <2>4. m # t
    BY Zenon, <2>2, <1>1, <1>5
  <2> QED BY Zenon, <2>1, <2>2, <2>3, <2>4 DEF AddTx
<1> QED BY <1>6, <1>7, <1>9, <1>10, Zenon DEF PoolInv

\* AddTx of a transaction whose nonce is not the next one keeps it in order too
LEMMA AddTxMissingPool ==
  ASSUME PoolInv, NEW t \in Tx, AddTxMissing(t)
  PROVE  PoolInv'
<1> DEFINE from == From[t]
<1> DEFINE n == StateNonce(from)
<1> DEFINE S == mapMissTx[from]
<1>1. /\ from \in Address /\ t \notin mapTx /\ n \in Nat
      /\ Nonce \in [Tx -> Nat] /\ From \in [Tx -> Address]
  BY EndsAddress, StateNonceNat, ConstantsAssumption, Zenon DEF AddTxMissing, Exists, PoolInv
<1>2. /\ UNCHANGED <<mapTx, nSequenceNumber, nTxSequenceNumber, mapDestTx>>
      /\ entry' = entry \cup {from}
      /\ nonce' = [nonce EXCEPT ![from] = n]
      /\ mapMissTx' = [mapMissTx EXCEPT ![from] = AddMissTx(S, t, n)]
  BY Zenon DEF AddTxMissing, PoolInv, PoolType
<1>3. from \in entry => n = nonce[from]
  BY Zenon DEF StateNonce
<1>4. from \notin entry => S = {} /\ mapDestTx[from] = {}
  BY <1>1, Zenon DEF PoolInv, PoolIndexed
<1>5. /\ S \subseteq Tx
      /\ \A x \in S : From[x] = from /\ x \notin mapTx /\ Nonce[x] > n
      /\ \A x, y \in S : x # y => Nonce[x] # Nonce[y]
  BY <1>1, <1>3, <1>4 DEF PoolInv, PoolType, MissingAhead
<1>6. /\ AddMissTx(S, t, n) \subseteq S \cup {t}
      /\ t \in AddMissTx(S, t, n) => t \in S \/ Nonce[t] > n
      /\ \A x, y \in AddMissTx(S, t, n) : x # y => Nonce[x] # Nonce[y]
  <2> DEFINE kept == IF Cardinality(S) >= MAX_CACHE_MISSING_PREV_TX_COUNT
                     THEN S \ {x \in S : \A y \in S : Nonce[x] <= Nonce[y]} ELSE S
  <2>1. AddMissTx(S, t, n) = IF Nonce[t] <= n THEN S
                             ELSE IF t \in kept THEN kept
                             ELSE {x \in kept : Nonce[x] # Nonce[t]} \cup {t}
    BY Zenon DEF AddMissTx
  <2>2. kept \subseteq S
    BY Zenon
  <2>3. Nonce[t] \in Nat
    BY <1>1, Zenon
  <2> HIDE DEF kept, n, S
  <2>4. CASE Nonce[t] <= n
    BY <2>1, <2>4, <1>5, Zenon
  <2>5. CASE Nonce[t] > n /\ t \in kept
    BY <2>1, <2>2, <2>3, <2>5, <1>1, <1>5, Zenon
  <2>6. CASE Nonce[t] > n /\ t \notin kept
    BY <2>1, <2>2, <2>3, <2>6, <1>1, <1>5, Zenon
  <2> QED BY <2>3, <2>4, <2>5, <2>6, <1>1
<1>7. PoolType'
  <2>1. AddMissTx(S, t, n) \subseteq Tx
    BY <1>5, <1>6, Zenon
  <2> HIDE DEF n, S, from
  <2> QED BY <1>1, <1>2, <2>1, Zenon DEF PoolInv, PoolType
<1>8. PoolIndexed'
  <2> SUFFICES ASSUME NEW a \in Address
               PROVE  /\ mapDestTx'[a] = {x \in mapTx' : a \in Ends(x)}
                      /\ mapDestTx'[a] # {} \/ mapMissTx'[a] # {} => a \in entry'
    BY Zenon DEF PoolIndexed, Ends
  <2>1. mapDestTx'[a] = {x \in mapTx' : a \in Ends(x)}
    BY <1>2, Zenon DEF PoolInv, PoolIndexed
  <2>2. mapDestTx[a] # {} \/ mapMissTx[a] # {} => a \in entry
    BY Zenon DEF PoolInv, PoolIndexed
  <2>3. a # from => mapMissTx'[a] = mapMissTx[a]
    BY <1>2, Zenon DEF PoolInv, PoolType
  <2> QED BY <1>2, <2>1, <2>2, <2>3, Zenon
<1>9. NonceOrder'
  <2>1. \A x \in mapTx : From[x] = from => n = nonce[from]
    BY <1>1, <1>3, <1>4, EndsAddress, Zenon DEF PoolInv, PoolType, PoolIndexed
  <2>2. \A x \in mapTx : nonce'[From[x]] = nonce[From[x]]
    BY <1>1, <1>2, <2>1, Zenon DEF PoolInv, PoolType
  <2> QED BY <1>2, <2>2, Zenon DEF PoolInv, NonceOrder
<1>10. MissingAhead'
  <2> SUFFICES ASSUME NEW a \in Address, NEW m \in mapMissTx'[a]
               PROVE  /\ From[m] = a /\ m \notin mapTx' /\ Nonce[m] > nonce'[a]
                      /\ \A x \in mapMissTx'[a] : x # m => Nonce[x] # Nonce[m]
    BY Zenon DEF MissingAhead
  <2>1. CASE a = from
    <3>1. mapMissTx'[a] = AddMissTx(S, t, n) /\ nonce'[a] = n
      BY <2>1, <1>1, <1>2, Zenon DEF PoolInv, PoolType
    <3> HIDE DEF n, S
    <3> QED BY <3>1, <2>1, <1>1, <1>2, <1>5, <1>6
  <2>2. CASE a # from
    <3>1. mapMissTx'[a] = mapMissTx[a] /\ nonce'[a] = nonce[a]
      BY <2>2, <1>2, Zenon DEF PoolInv, PoolType
    <3> QED BY <3>1, <1>2 DEF PoolInv, MissingAhead
  <2> QED BY <2>1, <2>2, Zenon
<1> QED BY <1>7, <1>8, <1>9, <1>10, Zenon DEF PoolInv

\* RemovePooledTx of pooled transactions keeps it in order
LEMMA RemovePooledTxsPool ==
  ASSUME PoolInv, NEW S \in SUBSET mapTx, RemovePooledTxs(S)
  PROVE  PoolInv'
<1>1. /\ mapTx' = mapTx \ S /\ entry' = entry \ Emptied(S)
      /\ mapMissTx' = mapMissTx
      /\ nTxSequenceNumber' = NextSequenceNumber(S)
  BY Zenon DEF RemovePooledTxs
<1>2. \A a \in Address : /\ mapDestTx'[a] = mapDestTx[a] \ S
                         /\ nonce'[a] = IF a \in Emptied(S) THEN 0 ELSE nonce[a]
  BY Zenon DEF RemovePooledTxs
<1>3. \A t \in mapTx' : nSequenceNumber'[t] = nSequenceNumber[t]
  BY Zenon DEF RemovePooledTxs, PoolInv, PoolType
<1>4. \A a \in Emptied(S) : mapDestTx[a] \subseteq S /\ mapMissTx[a] = {}
  BY Zenon DEF Emptied
<1>5. PoolType'
  <2>1. nTxSequenceNumber' \in Nat
    BY <1>1, ConstantsAssumption, Zenon DEF NextSequenceNumber, PoolInv, PoolType
  <2>2. mapTx' # {} => nTxSequenceNumber' = nTxSequenceNumber
    BY <1>1, Zenon DEF NextSequenceNumber
  <2>3. \A t \in mapTx' : nSequenceNumber'[t] < nTxSequenceNumber'
    BY <1>1, <1>3, <2>2, Zenon DEF PoolInv, PoolType
  <2>4. nonce' \in [Address -> Nat]
    BY Zenon DEF RemovePooledTxs, PoolInv, PoolType
  <2>5. mapDestTx' \in [Address -> SUBSET Tx]
    BY Zenon DEF RemovePooledTxs, PoolInv, PoolType
  <2>6. nSequenceNumber' \in [Tx -> Nat]
    BY Zenon DEF RemovePooledTxs, PoolInv, PoolType
  <2> QED BY <1>1, <2>1, <2>3, <2>4, <2>5, <2>6, Zenon DEF PoolInv, PoolType
<1>6. PoolIndexed'
  <2> SUFFICES ASSUME NEW a \in Address
               PROVE  /\ mapDestTx'[a] = {x \in mapTx' : a \in Ends(x)}
                      /\ mapDestTx'[a] # {} \/ mapMissTx'[a] # {} => a \in entry'
    BY Zenon DEF PoolIndexed, Ends
  <2>1. /\ mapDestTx[a] = {x \in mapTx : a \in Ends(x)}
        /\ mapDestTx[a] # {} \/ mapMissTx[a] # {} => a \in entry
    BY Zenon DEF PoolInv, PoolIndexed
  <2> QED BY <1>1, <1>2, <1>4, <2>1, Zenon
<1>7. NonceOrder'
  <2>1. ASSUME NEW t \in mapTx' PROVE nonce'[From[t]] = nonce[From[t]]
    <3>1. From[t] \in Address /\ t \in mapDestTx[From[t]] /\ t \notin S
      BY <1>1, EndsAddress, Zenon DEF PoolInv, PoolType, PoolIndexed
    <3> QED BY <3>1, <1>2, <1>4, Zenon
  <2> QED BY <1>1, <1>3, <2>1, Zenon DEF PoolInv, NonceOrder
<1>8. MissingAhead'
  <2>1. \A a \in Address : mapMissTx[a] # {} => nonce'[a] = nonce[a]
    BY <1>2, <1>4, Zenon
  <2> QED BY <1>1, <2>1, Zenon DEF PoolInv, MissingAhead
<1> QED BY <1>5, <1>6, <1>7, <1>8, Zenon DEF PoolInv

\* An empty pool is in order
LEMMA EmptyPoolPool ==
  ASSUME EmptyPool
  PROVE  PoolInv' /\ mapTx' = {}
BY ConstantsAssumption, Zenon
   DEF EmptyPool, PoolInv, PoolType, PoolIndexed, NonceOrder, MissingAhead, Ends

\* A step that leaves the pool alone
LEMMA SamePool ==
  ASSUME PoolInv, UNCHANGED poolVars
  PROVE  PoolInv'
BY Zenon DEF PoolInv, PoolType, PoolIndexed, NonceOrder, MissingAhead, Ends, poolVars

\* AddTx, accepted, kept as missing or refused, keeps the pool in order and adds
\* nothing that is stored
LEMMA TryAddTxPool ==
  ASSUME PoolInv, NEW t \in Tx, TryAddTx(t)
  PROVE  /\ PoolInv'
         /\ mapTx' \subseteq mapTx \cup {t}
         /\ t \in mapTx' \ mapTx => t \notin ChainTx(last)
<1>1. CASE AddTx(t)
  BY Zenon, <1>1, AddTxPool DEF AddTx, Exists
<1>2. CASE AddTxMissing(t)
  BY Zenon, <1>2, AddTxMissingPool DEF AddTxMissing
<1>3. CASE UNCHANGED poolVars
  BY <1>3, SamePool, Zenon DEF poolVars
<1> QED BY <1>1, <1>2, <1>3, Zenon DEF TryAddTx

\* Init establishes the invariant
LEMMA InitIInv == Init => IInv
<1> SUFFICES ASSUME Init PROVE IInv
  BY Zenon
<1>1. PoolInv
  BY ConstantsAssumption, Zenon
     DEF Init, PoolInv, PoolType, PoolIndexed, NonceOrder, MissingAhead, Ends
<1>2. ControlInv
  <2>1. NoUpdate \in Update
    BY ConstantsAssumption, Zenon DEF NoUpdate, Update
  <2>2. vLoad \in Seq(Tx) /\ reordered \in BOOLEAN
    BY Zenon, SeqEmpty DEF Init
  <2>3. pc = "idle" /\ stored \subseteq Block /\ last \in Block /\ hashLastBlock \in Block
    BY ConstantsAssumption, Zenon DEF Init
  <2> QED BY <2>1, <2>2, <2>3, Zenon DEF Init, ControlInv
<1>3. PooledNotStored
  BY Zenon DEF Init, PooledNotStored
<1> QED BY <1>1, <1>2, <1>3, Zenon DEF IInv

\* Every step leaves the pool in order
LEMMA NextPool ==
  ASSUME IInv, [Next]_vars
  PROVE  PoolInv'
<1> USE DEF IInv
<1>1. ASSUME NEW b \in NewBlock, StorageNewBlock(b) PROVE PoolInv'
  BY Zenon, <1>1, SamePool DEF StorageNewBlock
<1>2. ASSUME NEW t \in Tx, Push(t) PROVE PoolInv'
  BY <1>2, AddTxPool, AddTxMissingPool, Zenon DEF Push
<1>3. ASSUME NEW u \in updates, SyncStart(u) PROVE PoolInv'
  <2>1. PICK S : S = RemovedBy(u.vBlockAddNew)
    BY Zenon
  <2>2. S \in SUBSET mapTx /\ RemovePooledTxs(S)
    BY Zenon, <1>3, <2>1 DEF SyncStart, RemovedBy
  <2> QED BY <2>2, RemovePooledTxsPool, Zenon
<1>4. ASSUME NEW t \in Tx, SyncAddBack(t) PROVE PoolInv'
  BY <1>4, TryAddTxPool, Zenon DEF SyncAddBack
<1>5. ASSUME NEW a \in Address, SyncRefresh(a) PROVE PoolInv'
  <2>1. CASE a \notin entry
    BY <1>5, <2>1, SamePool, Zenon DEF SyncRefresh, poolVars
  <2>2. CASE a \in entry
    <3> DEFINE n == RefreshedNonce(a)
    <3>1. n \in Nat /\ n >= nonce[a] /\ nonce[a] \in Nat
      BY ChainNonceNat DEF RefreshedNonce, PoolInv, PoolType
    <3>2. /\ UNCHANGED <<mapTx, nSequenceNumber, nTxSequenceNumber, entry, mapDestTx>>
          /\ nonce' = [nonce EXCEPT ![a] = n]
          /\ mapMissTx' = [mapMissTx EXCEPT ![a] = {m \in mapMissTx[a] : Nonce[m] > n}]
      BY <1>5, <2>2, Zenon DEF SyncRefresh, SetAddressState, PoolInv, PoolType
    <3> HIDE DEF n
    <3>3. /\ \A c \in Address : nonce'[c] >= nonce[c] /\ mapMissTx'[c] \subseteq mapMissTx[c]
          /\ \A c \in Address : \A m \in mapMissTx'[c] :
               (c = a /\ Nonce[m] > nonce'[c]) \/ (c # a /\ nonce'[c] = nonce[c])
      <4>1. nonce'[a] = n /\ mapMissTx'[a] = {m \in mapMissTx[a] : Nonce[m] > n}
        BY <3>2, Zenon DEF PoolInv, PoolType
      <4>2. \A c \in Address : /\ c # a => nonce'[c] = nonce[c] /\ mapMissTx'[c] = mapMissTx[c]
                               /\ nonce[c] \in Nat
        BY <3>2, Zenon DEF PoolInv, PoolType
      <4>3. ASSUME NEW c \in Address
            PROVE  nonce'[c] >= nonce[c] /\ mapMissTx'[c] \subseteq mapMissTx[c]
        <5>1. CASE c = a
          BY <5>1, <3>1, <4>1, Zenon
        <5>2. CASE c # a
          BY <5>2, <4>2
        <5> QED BY <5>1, <5>2, Zenon
      <4>4. ASSUME NEW c \in Address, NEW m \in mapMissTx'[c]
            PROVE  (c = a /\ Nonce[m] > nonce'[c]) \/ (c # a /\ nonce'[c] = nonce[c])
        <5>1. CASE c = a
          BY <5>1, <4>1, Zenon
        <5>2. CASE c # a
          BY <5>2, <4>2, Zenon
        <5> QED BY <5>1, <5>2, Zenon
      <4> QED BY <4>3, <4>4, Zenon
    <3>4. PoolType'
      BY <3>1, <3>2, Zenon DEF PoolInv, PoolType
    <3>5. PoolIndexed'
      BY Zenon, <3>2, <3>3 DEF PoolInv, PoolIndexed, Ends
    <3>6. NonceOrder'
      <4>1. ASSUME NEW t \in mapTx \ Cert PROVE Nonce[t] <= nonce'[From[t]]
        <5>1. Nonce[t] \in Nat /\ From[t] \in Address /\ nonce[From[t]] \in Nat
              /\ nonce'[From[t]] \in Nat /\ Nonce[t] <= nonce[From[t]]
          BY Zenon, <3>4, ConstantsAssumption DEF PoolInv, PoolType, NonceOrder
        <5> QED BY <5>1, <3>3
      <4> QED BY <3>2, <4>1, Zenon DEF PoolInv, NonceOrder
    <3>7. MissingAhead'
      <4> SUFFICES ASSUME NEW c \in Address, NEW m \in mapMissTx'[c]
                   PROVE  /\ From[m] = c /\ m \notin mapTx' /\ Nonce[m] > nonce'[c]
                          /\ \A x \in mapMissTx'[c] : x # m => Nonce[x] # Nonce[m]
        BY Zenon DEF MissingAhead
      <4>1. m \in Tx /\ m \in mapMissTx[c]
        BY <3>3, Zenon DEF PoolInv, PoolType
      <4>2. /\ From[m] = c /\ m \notin mapTx /\ Nonce[m] > nonce[c]
            /\ \A x \in mapMissTx[c] : x # m => Nonce[x] # Nonce[m]
        BY <4>1, Zenon DEF PoolInv, MissingAhead
      <4> QED BY <3>2, <3>3, <4>1, <4>2, Zenon
    <3> QED BY <3>4, <3>5, <3>6, <3>7, Zenon DEF PoolInv
  <2> QED BY <2>1, <2>2, Zenon
<1>6. ASSUME NEW t \in Tx, FetchNextMissTx(t) PROVE PoolInv'
  BY <1>6, AddTxPool, Zenon DEF FetchNextMissTx
<1>7. CASE SyncNextDest
  BY <1>7, SamePool, Zenon DEF SyncNextDest
<1>8. CASE SyncDone
  <2>1. PICK S : S = {t \in mapTx \cap Cert :
                        Nonce[t] + CONSENSUS_ENROLL_INTERVAL < Height[hashLastBlock]}
    BY Zenon
  <2>2. S \in SUBSET mapTx /\ RemovePooledTxs(S)
    BY <1>8, <2>1, Zenon DEF SyncDone
  <2> QED BY <2>2, RemovePooledTxsPool, Zenon
<1>9. CASE ClearTxPool
  BY <1>9, EmptyPoolPool, Zenon DEF ClearTxPool
<1>10. CASE Restart
  BY <1>10, EmptyPoolPool, Zenon DEF Restart, Start
<1>11. CASE Crash
  BY <1>11, EmptyPoolPool, Zenon DEF Crash, Start
<1>12. CASE LoadData
  <2>1. Head(vLoad) \in Tx
    BY <1>12 DEF LoadData, ControlInv
  <2>2. PICK t \in Tx : t = Head(vLoad)
    BY <2>1, Zenon
  <2>3. TryAddTx(t)
    BY <1>12, <2>2, Zenon DEF LoadData
  <2> QED BY <2>3, TryAddTxPool, Zenon
<1>13. CASE UNCHANGED vars
  BY <1>13, SamePool, Zenon DEF vars
<1> QED BY <1>1, <1>2, <1>3, <1>4, <1>5, <1>6, <1>7, <1>8, <1>9, <1>10, <1>11, <1>12, <1>13, Zenon
           DEF Next

\* Every step keeps the types of the rest
LEMMA NextControl ==
  ASSUME IInv, [Next]_vars
  PROVE  ControlInv'
<1> USE ConstantsAssumption DEF IInv
<1>1. ASSUME NEW b \in NewBlock, StorageNewBlock(b) PROVE ControlInv'
  <2>1. b \in Block
    BY Zenon DEF NewBlock
  <2>2. Branch(b, last) \subseteq Tx /\ Branch(last, b) \subseteq Tx
    BY Zenon DEF Branch
  <2>3. [hashLastBlock |-> b, hashPrev |-> last,
         vBlockAddNew |-> Branch(b, last), vBlockRemove |-> Branch(last, b)] \in Update
    BY <2>1, <2>2, Zenon DEF ControlInv, Update
  <2> QED BY Zenon, <1>1, <2>1, <2>3 DEF StorageNewBlock, ControlInv, syncVars, historyVars
<1>2. ASSUME NEW t \in Tx, Push(t) PROVE ControlInv'
  BY Zenon, <1>2 DEF Push, ControlInv, chainVars, syncVars, historyVars
<1>3. ASSUME NEW u \in updates, SyncStart(u) PROVE ControlInv'
  <2>1. u \in Update /\ u.vBlockRemove \ Cert \subseteq Tx /\ Senders(u.vBlockAddNew) \subseteq Address
    <3>1. u \in Update
      BY Zenon DEF ControlInv
    <3>2. u.vBlockRemove \subseteq Tx /\ u.vBlockAddNew \subseteq Tx
      BY <3>1, Zenon DEF Update
    <3> QED BY <3>1, <3>2 DEF Senders
  <2>2. drifted' \subseteq Address
    BY Zenon, <1>3, NextPool DEF SyncStart, PoolInv, PoolType
  <2>3. reordered' \in BOOLEAN
    BY <1>3, Zenon DEF SyncStart, ControlInv
  <2> QED BY Zenon, <1>3, <2>1, <2>2, <2>3 DEF SyncStart, ControlInv
<1>4. ASSUME NEW t \in Tx, SyncAddBack(t) PROVE ControlInv'
  BY Zenon, <1>4 DEF SyncAddBack, ControlInv, chainVars, historyVars
<1>5. ASSUME NEW a \in Address, SyncRefresh(a) PROVE ControlInv'
  BY Zenon, <1>5 DEF SyncRefresh, ControlInv, chainVars, historyVars
<1>6. ASSUME NEW t \in Tx, FetchNextMissTx(t) PROVE ControlInv'
  <2>1. drifted' \subseteq Address
    BY Zenon, <1>6, NextPool DEF FetchNextMissTx, PoolInv, PoolType, ControlInv
  <2> QED BY Zenon, <1>6, <2>1 DEF FetchNextMissTx, ControlInv, chainVars, syncVars
<1>7. CASE SyncNextDest
  BY Zenon, <1>7 DEF SyncNextDest, ControlInv, chainVars, historyVars
<1>8. CASE SyncDone
  <2>1. drifted' \subseteq Address
    BY Zenon, <1>8, NextPool DEF SyncDone, PoolInv, PoolType
  <2>2. NoUpdate \in Update /\ update.hashLastBlock \in Block
    BY Zenon DEF NoUpdate, Update, ControlInv
  <2> QED BY Zenon, <1>8, <2>1, <2>2 DEF SyncDone, ControlInv, chainVars
<1>9. CASE ClearTxPool
  BY Zenon, <1>9 DEF ClearTxPool, ControlInv, chainVars, syncVars
<1>10. ASSUME NEW v \in Seq(Tx), Start(v) PROVE ControlInv'
  <2>1. NoUpdate \in Update
    BY Zenon DEF NoUpdate, Update
  <2> QED BY Zenon, <1>10, <2>1 DEF Start, ControlInv
<1>11. CASE Restart
  <2>1. IsFiniteSet(mapTx)
    BY Zenon, FS_Subset DEF PoolInv, PoolType
  <2>2. PICK n \in Nat : n = Cardinality(mapTx)
    BY <2>1, FS_CardinalityType, Zenon
  <2>3. PICK v \in [1 .. n -> mapTx] : Start(v)
    BY <1>11, <2>2, Zenon DEF Restart
  <2>4. v \in Seq(Tx)
    BY <2>3 DEF PoolInv, PoolType
  <2> QED BY <2>3, <2>4, <1>10, Zenon
<1>12. CASE Crash
  <2>1. PICK v \in Seq(Tx) : v = <<>>
    BY Zenon, SeqEmpty
  <2> QED BY Zenon, <1>12, <2>1, <1>10 DEF Crash
<1>13. CASE LoadData
  <2>1. vLoad \in Seq(Tx) /\ vLoad # <<>>
    BY Zenon, <1>13 DEF LoadData, ControlInv
  <2>2. Tail(vLoad) \in Seq(Tx) /\ (Len(vLoad) # 1 => Tail(vLoad) # <<>>)
    <3>1. Len(vLoad) \in Nat /\ Len(vLoad) # 0 /\ Tail(vLoad) \in Seq(Tx)
      BY <2>1
    <3>2. Len(Tail(vLoad)) = Len(vLoad) - 1
      BY <2>1
    <3>3. Tail(vLoad) = <<>> => Len(Tail(vLoad)) = 0
      BY Zenon, SeqEmpty
    <3> QED BY <3>1, <3>2, <3>3
  <2> QED BY Zenon, <1>13, <2>2 DEF LoadData, ControlInv, chainVars, historyVars
<1>14. CASE UNCHANGED vars
  BY Zenon, <1>14 DEF vars, chainVars, syncVars, historyVars, ControlInv
<1> QED BY <1>1, <1>2, <1>3, <1>4, <1>5, <1>6, <1>7, <1>8, <1>9, <1>11, <1>12, <1>13, <1>14, Zenon
           DEF Next

\* A step that adds to the pool only what is not stored, and moves neither the tip
\* nor an update
LEMMA NothingStoredAdded ==
  ASSUME PooledNotStored, UNCHANGED <<last, updates>>,
         \A t \in mapTx' \ mapTx : t \notin ChainTx(last)
  PROVE  PooledNotStored'
BY Zenon DEF PooledNotStored, ChainTx

\* Every step leaves a pooled transaction that is stored to an update
LEMMA NextStored ==
  ASSUME IInv, [Next]_vars
  PROVE  PooledNotStored'
<1> USE DEF IInv
<1>1. ASSUME NEW b \in NewBlock, StorageNewBlock(b) PROVE PooledNotStored'
  <2> SUFFICES ASSUME NEW t \in mapTx', t \in ChainTx(last')
               PROVE  \E u \in updates' : t \in u.vBlockAddNew
    BY Zenon DEF PooledNotStored, ChainTx
  <2>1. mapTx' = mapTx /\ updates \subseteq updates'
    BY Zenon, <1>1 DEF StorageNewBlock, poolVars
  <2>2. CASE t \in ChainTx(last)
    BY Zenon, <2>1, <2>2 DEF PooledNotStored
  <2>3. CASE t \notin ChainTx(last)
    <3>1. last' = b /\ last' # last
      BY Zenon, <1>1, <2>3 DEF StorageNewBlock
    <3>2. t \in Branch(b, last)
      BY <2>3, <3>1, Zenon DEF ChainTx, Branch
    <3>3. [hashLastBlock |-> b, hashPrev |-> last, vBlockAddNew |-> Branch(b, last),
           vBlockRemove |-> Branch(last, b)] \in updates'
      BY Zenon, <1>1, <3>1 DEF StorageNewBlock
    <3> QED BY <3>2, <3>3, Zenon
  <2> QED BY <2>2, <2>3, Zenon
<1>2. ASSUME NEW t \in Tx, Push(t) PROVE PooledNotStored'
  <2>1. TryAddTx(t) /\ UNCHANGED <<last, updates>>
    BY <1>2, Zenon DEF Push, TryAddTx, chainVars
  <2> QED BY <2>1, TryAddTxPool, NothingStoredAdded, Zenon
<1>3. ASSUME NEW u \in updates, SyncStart(u) PROVE PooledNotStored'
  <2>1. mapTx' = mapTx \ RemovedBy(u.vBlockAddNew) /\ last' = last /\ updates' = updates \ {u}
    BY Zenon, <1>3 DEF SyncStart, RemovePooledTxs
  <2>2. \A t \in mapTx' : t \in mapTx /\ t \notin u.vBlockAddNew
    BY Zenon, <2>1 DEF RemovedBy
  <2> QED BY Zenon, <2>1, <2>2 DEF PooledNotStored, ChainTx
<1>4. ASSUME NEW t \in Tx, SyncAddBack(t) PROVE PooledNotStored'
  <2>1. TryAddTx(t) /\ UNCHANGED <<last, updates>>
    BY <1>4, Zenon DEF SyncAddBack, chainVars
  <2> QED BY <2>1, TryAddTxPool, NothingStoredAdded, Zenon
<1>5. ASSUME NEW a \in Address, SyncRefresh(a) PROVE PooledNotStored'
  BY <1>5, NothingStoredAdded, Zenon DEF SyncRefresh, chainVars
<1>6. ASSUME NEW t \in Tx, FetchNextMissTx(t) PROVE PooledNotStored'
  <2>1. TryAddTx(t) /\ UNCHANGED <<last, updates>>
    BY Zenon, <1>6 DEF FetchNextMissTx, TryAddTx, chainVars
  <2> QED BY <2>1, TryAddTxPool, NothingStoredAdded, Zenon
<1>7. CASE SyncNextDest
  BY <1>7, NothingStoredAdded, Zenon DEF SyncNextDest, chainVars, poolVars
<1>8. CASE SyncDone
  BY Zenon, <1>8, NothingStoredAdded DEF SyncDone, RemovePooledTxs, chainVars
<1>9. CASE ClearTxPool
  BY <1>9, EmptyPoolPool, Zenon DEF ClearTxPool, PooledNotStored
<1>10. CASE Restart
  BY Zenon, <1>10, EmptyPoolPool DEF Restart, Start, PooledNotStored
<1>11. CASE Crash
  BY Zenon, <1>11, EmptyPoolPool DEF Crash, Start, PooledNotStored
<1>12. CASE LoadData
  <2>1. Head(vLoad) \in Tx
    BY <1>12 DEF LoadData, ControlInv
  <2>2. PICK t \in Tx : t = Head(vLoad)
    BY <2>1, Zenon
  <2>3. TryAddTx(t) /\ UNCHANGED <<last, updates>>
    BY <1>12, <2>2, Zenon DEF LoadData, chainVars
  <2> QED BY <2>3, TryAddTxPool, NothingStoredAdded, Zenon
<1>13. CASE UNCHANGED vars
  BY <1>13, NothingStoredAdded, Zenon DEF vars, chainVars, poolVars
<1> QED BY <1>1, <1>2, <1>3, <1>4, <1>5, <1>6, <1>7, <1>8, <1>9, <1>10, <1>11, <1>12, <1>13, Zenon
           DEF Next

\* The invariant of the pool and of the threads that feed it holds in every
\* behaviour of the node
THEOREM InductiveInvariant == Spec => []IInv
<1>1. IInv /\ [Next]_vars => IInv'
  BY NextPool, NextControl, NextStored, Zenon DEF IInv
<1> QED BY InitIInv, <1>1, PTL DEF Spec

\* Type correctness of the pool, with its sequence numbers
THEOREM TypeCorrect == Spec => []TypeOK
<1>1. IInv => TypeOK
  BY Zenon DEF IInv, PoolInv, PoolType, ControlInv, TypeOK
<1> QED BY InductiveInvariant, <1>1, PTL

\* RemovePooledTx always finds the entries of a pooled transaction, so that
\* SynchronizeBlockChain never stops half way for one it misses
THEOREM EntriesListPool == Spec => []PoolIndexed
<1>1. IInv => PoolIndexed
  BY Zenon DEF IInv, PoolInv
<1> QED BY InductiveInvariant, <1>1, PTL

\* FetchArrangeBlockTx and GetSaveTxList take the transactions of a sender in the
\* order of their nonces
THEOREM NoncesInOrder == Spec => []NonceOrder
<1>1. IInv => NonceOrder
  BY Zenon DEF IInv, PoolInv
<1> QED BY InductiveInvariant, <1>1, PTL

\* The transactions in mapMissTx are ahead of the sender's state, one to a nonce
THEOREM MissingAreAhead == Spec => []MissingAhead
<1>1. IInv => MissingAhead
  BY Zenon DEF IInv, PoolInv
<1> QED BY InductiveInvariant, <1>1, PTL

\* Whatever the order in which the dispatcher's threads, new transactions and
\* restarts reach the pool, what is stored leaves it with the last update
THEOREM StoredLeavePool == Spec => []PooledNotStored
<1>1. IInv => PooledNotStored
  BY Zenon DEF IInv
<1> QED BY InductiveInvariant, <1>1, PTL

-----------------------------------------------------------------------------
(* The blocks made from the pool follow the chain.                         *)

\* The transactions of a in the chain of b that take a nonce
StoredOf(b, a) == {t \in ChainTx(b) \ Cert : From[t] = a}

\* They have the nonces from 1, one each
LEMMA StoredNonces ==
  ASSUME NEW b \in Block, NEW a \in Address
  PROVE  /\ StoredOf(b, a) \subseteq Tx /\ IsFiniteSet(StoredOf(b, a))
         /\ ChainNonce(b, a) \in Nat
         /\ Nonces(StoredOf(b, a)) = 1 .. ChainNonce(b, a)
         /\ OneToOne(Nonce, StoredOf(b, a))
<1> DEFINE S == StoredOf(b, a)
           n == ChainNonce(b, a)
<1>1. S \subseteq Tx
  BY Zenon DEF StoredOf, ChainTx
<1>2. IsFiniteSet(S)
  BY Zenon, <1>1, FS_Subset, ConstantsAssumption
<1>3. n = Cardinality(S) /\ n \in Nat
  BY ChainNonceNat, Zenon DEF ChainNonce, StoredOf
<1>4. Nonces(S) = 1 .. n
  BY Zenon, StoredAssumption DEF Nonces, StoredOf
<1>5. Cardinality(1 .. n) = n
  <2> HIDE DEF n
  <2> QED BY <1>3, FS_Interval
<1>6. Image(Nonce, S) = 1 .. n
  BY Zenon, <1>4 DEF Image, Nonces
<1>7. OneToOne(Nonce, S)
  <2> HIDE DEF n, S
  <2> QED BY Zenon, <1>2, <1>3, <1>5, <1>6, ImageSize
<1> QED BY <1>1, <1>2, <1>3, <1>4, <1>7, Zenon

\* From block b to block c, for a sender of whom no transaction is undone: what is
\* new has the next nonces
LEMMA ChainGrows ==
  ASSUME NEW b \in Block, NEW c \in Block, NEW a \in Address,
         a \notin Senders(Branch(b, c) \ Cert)
  PROVE  /\ StoredOf(c, a) \subseteq StoredOf(b, a) \cup Branch(c, b)
         /\ ChainNonce(b, a) <= ChainNonce(c, a)
         /\ Nonces(StoredOf(c, a) \ StoredOf(b, a)) = (ChainNonce(b, a) + 1) .. ChainNonce(c, a)
         /\ a \notin Senders(Branch(c, b)) => ChainNonce(c, a) = ChainNonce(b, a)
<1> DEFINE O == StoredOf(b, a)
           S == StoredOf(c, a)
           m == ChainNonce(b, a)
           n == ChainNonce(c, a)
<1>1. \A t \in O : t \in S
  <2> SUFFICES ASSUME NEW t \in O, t \notin S PROVE FALSE
    BY Zenon
  <2>1. t \in Tx \ Cert /\ From[t] = a
    BY Zenon DEF StoredOf, ChainTx
  <2>2. t \in Branch(b, c)
    BY <2>1, Zenon DEF StoredOf, ChainTx, Branch
  <2> QED BY <2>1, <2>2, Zenon DEF Senders
<1>2. \A t \in S : t \in O \/ t \in Branch(c, b)
  BY Zenon DEF StoredOf, ChainTx, Branch
<1>3. /\ m \in Nat /\ n \in Nat /\ Nonces(O) = 1 .. m /\ Nonces(S) = 1 .. n
      /\ OneToOne(Nonce, S)
  BY StoredNonces, Zenon
<1>4. \A t \in S : From[t] = a
  BY Zenon DEF StoredOf
<1>5. m = n \/ \E t \in S : t \notin O
  <2>1. S = O \/ \E t \in S : t \notin O
    BY <1>1, Zenon
  <2>2. S = O => m = n
    BY Zenon DEF ChainNonce, StoredOf
  <2> QED BY <2>1, <2>2, Zenon
<1> HIDE DEF O, S, m, n
<1>6. m <= n
  <2>1. Nonces(O) \subseteq Nonces(S)
    BY <1>1, Zenon DEF Nonces
  <2> QED BY <1>3, <2>1
<1>7. \A t \in S \ O : Nonce[t] \in m + 1 .. n
  <2> SUFFICES ASSUME NEW t \in S \ O PROVE Nonce[t] \in m + 1 .. n
    BY Zenon
  <2>1. Nonce[t] \in 1 .. n
    BY <1>3, Zenon DEF Nonces
  <2>2. Nonce[t] \notin 1 .. m
    <3> SUFFICES ASSUME Nonce[t] \in Nonces(O) PROVE FALSE
      BY <1>3, Zenon
    <3>1. PICK x \in O : Nonce[x] = Nonce[t]
      BY Zenon DEF Nonces
    <3> QED BY Zenon, <1>1, <1>3, <3>1 DEF OneToOne
  <2> QED BY <1>3, <2>1, <2>2
<1>8. \A k \in m + 1 .. n : \E t \in S \ O : Nonce[t] = k
  <2> SUFFICES ASSUME NEW k \in m + 1 .. n PROVE \E t \in S \ O : Nonce[t] = k
    BY Zenon
  <2>1. k \in Nonces(S) /\ k \notin Nonces(O)
    BY <1>3
  <2> QED BY Zenon, <2>1 DEF Nonces
<1>9. Nonces(S \ O) = m + 1 .. n
  BY <1>7, <1>8, Zenon DEF Nonces
<1>10. a \notin Senders(Branch(c, b)) => n = m
  BY <1>2, <1>4, <1>5, Zenon DEF Senders
<1> QED BY <1>2, <1>6, <1>9, <1>10, Zenon DEF O, S, m, n

\* The pool is in step with the chain for sender a
InStep(a) ==
  /\ Nonces(Pooled(a)) = (ChainNonce(Target, a) + 1) .. nonce[a]
  /\ a \in setAddAddress \/ nonce[a] >= ChainNonce(Target, a)

\* An address without an entry has nothing pooled
LEMMA NoEntryNothing ==
  ASSUME PoolInv, NEW a \in Address \ entry
  PROVE  Pooled(a) = {}
BY EndsAddress, Zenon DEF PoolInv, PoolType, PoolIndexed, Pooled

\* AddTx keeps the pool in step for a, when the state it starts from is
LEMMA TryAddTxInStep ==
  ASSUME PoolInv, NEW t \in Tx, TryAddTx(t), Target \in Block,
         Target' = Target, setAddAddress' = setAddAddress,
         NEW a \in Address, a \in entry', a \in entry => InStep(a),
         \/ StateNonce(a) >= ChainNonce(Target, a)
         \/ a \in setAddAddress /\ (a = From[t] => t \in Cert),
         a \notin entry => StateNonce(a) <= ChainNonce(Target, a)
  PROVE  InStep(a)'
<1> DEFINE c == ChainNonce(Target, a)
           s == StateNonce(a)
           P == Pooled(a)
<1>1. c \in Nat /\ s \in Nat
  BY ChainNonceNat, StateNonceNat, Zenon DEF PoolInv
<1>2. Nonces(P) = c + 1 .. s
  <2>1. CASE a \in entry
    BY <2>1, Zenon DEF InStep, StateNonce
  <2>2. CASE a \notin entry
    <3>1. P = {}
      BY <2>2, NoEntryNothing, Zenon
    <3>2. Nonces(P) = {}
      BY Zenon, <3>1 DEF Nonces
    <3> QED BY <1>1, <2>2, <3>2
  <2> QED BY <2>1, <2>2, Zenon
<1>3. ChainNonce(Target', a) = c
  BY Zenon
<1>4. CASE AddTx(t) /\ a = From[t] /\ t \notin Cert
  <2>1. Nonce[t] = s + 1 /\ mapTx' = mapTx \cup {t} /\ nonce'[a] = s + 1
    BY <1>4, EndsAddress, Zenon DEF AddTx
  <2>2. Pooled(a)' = P \cup {t}
    BY <1>4, <2>1, Zenon DEF Pooled
  <2>3. Nonces(Pooled(a)') = Nonces(P) \cup {s + 1}
    <3> HIDE DEF P, s
    <3> QED BY <2>1, <2>2, Zenon DEF Nonces
  <2>4. s >= c
    BY <1>4, Zenon
  <2> HIDE DEF c, s, P
  <2>5. Nonces(Pooled(a)') = c + 1 .. s + 1
    BY <1>1, <1>2, <2>3, <2>4
  <2>6. nonce'[a] >= c
    BY <1>1, <2>1, <2>4
  <2> QED BY <1>3, <2>1, <2>5, <2>6, Zenon DEF InStep, Nonces, Pooled
<1>5. CASE ~(AddTx(t) /\ a = From[t] /\ t \notin Cert)
  <2>1. Pooled(a)' = P
    <3>1. mapTx' = mapTx \/ (AddTx(t) /\ mapTx' = mapTx \cup {t})
      BY Zenon DEF TryAddTx, AddTx, AddTxMissing, poolVars
    <3> QED BY <1>5, <3>1, Zenon DEF Pooled
  <2>2. nonce'[a] = s
    <3>1. CASE AddTx(t)
      <4>1. a \in Ends(t) \/ a \in entry
        BY <3>1, Zenon DEF AddTx
      <4>2. nonce'[a] = IF a \notin Ends(t) THEN nonce[a] ELSE s + 0
        BY <1>5, <3>1, Zenon DEF AddTx
      <4>3. a \in entry => s = nonce[a]
        BY Zenon DEF StateNonce
      <4> HIDE DEF s
      <4> QED BY <1>1, <4>1, <4>2, <4>3
    <3>2. CASE AddTxMissing(t)
      <4>1. /\ entry' = entry \cup {From[t]} /\ From[t] \in Address
            /\ nonce' = [nonce EXCEPT ![From[t]] = StateNonce(From[t])]
            /\ nonce \in [Address -> Nat]
        BY <3>2, EndsAddress, Zenon DEF AddTxMissing, PoolInv, PoolType
      <4> QED BY <4>1, Zenon DEF StateNonce
    <3>3. CASE UNCHANGED poolVars
      BY <3>3, Zenon DEF poolVars, StateNonce
    <3> QED BY <3>1, <3>2, <3>3, Zenon DEF TryAddTx
  <2>3. a \in setAddAddress \/ s >= c
    BY Zenon
  <2> HIDE DEF c, s, P
  <2>4. Nonces(Pooled(a)') = c + 1 .. nonce'[a]
    BY <1>2, <2>1, <2>2, Zenon
  <2> QED BY <1>3, <2>2, <2>3, <2>4, Zenon DEF InStep, Nonces, Pooled
<1> QED BY <1>4, <1>5, Zenon

\* The first loop of SynchronizeBlockChain leaves the pool in step with the new
\* block, for a sender of whom no transaction was undone or displaced
LEMMA SyncStartInStep ==
  ASSUME PoolInv, ControlInv, SyncFromLast, NEW u \in updates, SyncStart(u),
         u.hashPrev = hashLastBlock,
         NEW a \in entry', a \notin drifted', a \notin Senders(u.vBlockRemove \ Cert),
         InStep(a)
  PROVE  InStep(a)'
<1> DEFINE b == hashLastBlock
           c == u.hashLastBlock
           A == u.vBlockAddNew
           gone == RemovedBy(A)
           P == Pooled(a)
           m == ChainNonce(b, a)
           n == ChainNonce(c, a)
           e == nonce[a]
           S == StoredOf(c, a)
           O == StoredOf(b, a)
<1>1. /\ pc = "idle" /\ RemovePooledTxs(gone) /\ pc' = "sync" /\ update' = u
      /\ setAddAddress' = Senders(A) /\ setAddAddress = {}
      /\ a \notin Senders(gone \ (A \cup Cert))
  BY Zenon DEF SyncStart, SyncFromLast
<1>2. /\ a \in entry /\ a \in Address /\ nonce'[a] = e /\ mapTx' = mapTx \ gone
  BY <1>1, Zenon DEF RemovePooledTxs, PoolInv, PoolType
<1>3. /\ A = Branch(c, b) /\ u.vBlockRemove = Branch(b, c) /\ b \in Block /\ c \in Block
      /\ A \subseteq Tx
  <2>1. IsBranch(u) /\ u \in Update /\ b \in Block
    BY Zenon DEF SyncFromLast, ControlInv
  <2> QED BY <2>1, Zenon DEF IsBranch, Update
<1>4. Target = b /\ Target' = c
  BY <1>1, Zenon DEF Target
<1>5. Nonces(P) = m + 1 .. e /\ e >= m /\ m \in Nat /\ n \in Nat /\ e \in Nat
  <2>1. m \in Nat /\ n \in Nat /\ e \in Nat
    BY <1>2, ChainNonceNat, Zenon DEF PoolInv, PoolType
  <2>2. Nonces(P) = m + 1 .. e /\ e >= m
    BY <1>1, <1>4, Zenon DEF InStep
  <2> QED BY <2>1, <2>2, Zenon
<1>6. /\ S \subseteq O \cup A /\ m <= n /\ Nonces(S \ O) = m + 1 .. n
      /\ a \notin Senders(A) => n = m
  <2>1. a \notin Senders(Branch(b, c) \ Cert)
    BY Zenon, <1>3
  <2>2. /\ S \subseteq O \cup Branch(c, b) /\ m <= n /\ Nonces(S \ O) = m + 1 .. n
        /\ a \notin Senders(Branch(c, b)) => n = m
    <3> HIDE DEF b, c
    <3> QED BY <1>2, <1>3, <2>1, ChainGrows
  <2> QED BY Zenon, <1>3, <2>2
<1>7. Nonces(S) = 1 .. n
  BY <1>2, <1>3, StoredNonces, Zenon
<1>8. Pooled(a)' = P \ gone
  BY <1>2, Zenon DEF Pooled
<1>9. \A t \in P : t \in gone => t \in A
  BY <1>1, Zenon DEF Pooled, Senders
<1>10. \A t \in P : t \in A => t \in gone
  BY Zenon DEF Pooled, RemovedBy
<1>11. \A t \in P : t \in A => t \in S
  BY <1>3, Zenon DEF Pooled, StoredOf, ChainTx, Branch
<1>12. \A s, t \in P : Nonce[s] = Nonce[t] => s = t
  BY Zenon DEF Pooled, PoolInv, NonceOrder
<1>13. \A t \in P : t \in Tx /\ Nonce[t] \in m + 1 .. e
  BY <1>5, Zenon DEF Nonces, Pooled, PoolInv, PoolType
<1>14. \A t \in P : t \in A => Nonce[t] <= n
  BY <1>5, <1>7, <1>11 DEF Nonces
<1>15. Nonces(P \ gone) = n + 1 .. e
  <2>1. CASE a \notin Senders(A)
    <3>1. \A t \in P : t \notin A
      BY <2>1, Zenon DEF Pooled, Senders
    <3>2. P \ gone = P
      BY <1>9, <3>1, Zenon
    <3> HIDE DEF P, gone, m, n, e
    <3> QED BY <1>5, <1>6, <2>1, <3>2, Zenon
  <2>2. CASE \E t \in A : From[t] = a /\ t \notin mapTx
    <3>1. \A x \in P : x \in gone
      <4> SUFFICES ASSUME NEW x \in P PROVE x \in gone
        BY Zenon
      <4>1. x \in mapTx /\ From[x] = a /\ x \in mapDestTx[a]
        BY <1>2, EndsAddress, Zenon DEF Pooled, PoolInv, PoolType, PoolIndexed
      <4> QED BY <2>2, <4>1, Zenon DEF RemovedBy
    <3>2. \A k \in m + 1 .. e : k <= n
      <4> SUFFICES ASSUME NEW k \in m + 1 .. e PROVE k <= n
        BY Zenon
      <4>1. PICK x \in P : Nonce[x] = k
        BY <1>5, Zenon DEF Nonces
      <4> QED BY <1>9, <1>14, <3>1, <4>1, Zenon
    <3>3. e <= n
      <4> HIDE DEF m, n, e
      <4>1. e = m \/ e \in m + 1 .. e
        BY <1>5
      <4> QED BY <1>5, <1>6, <3>2, <4>1, Zenon
    <3>4. Nonces(P \ gone) = {}
      BY <3>1, Zenon DEF Nonces
    <3> HIDE DEF P, gone, m, n, e
    <3>5. n + 1 .. e = {}
      BY <1>5, <3>3
    <3> QED BY <3>4, <3>5, Zenon
  <2>3. CASE \A t \in A : From[t] = a => t \in mapTx
    <3>1. \A t \in S \ O : t \in P /\ t \in A
      <4> SUFFICES ASSUME NEW t \in S \ O PROVE t \in P /\ t \in A
        BY Zenon
      <4>1. t \in A
        BY <1>6, Zenon
      <4>2. From[t] = a /\ t \notin Cert
        BY Zenon DEF StoredOf
      <4> QED BY <2>3, <4>1, <4>2, Zenon DEF Pooled
    <3> HIDE DEF P, gone, m, n, e, S, O, A
    <3>2. \A k \in m + 1 .. n : \E t \in P \cap A : Nonce[t] = k
      <4> SUFFICES ASSUME NEW k \in m + 1 .. n PROVE \E t \in P \cap A : Nonce[t] = k
        BY Zenon
      <4>1. PICK t \in S \ O : Nonce[t] = k
        BY <1>6, Zenon DEF Nonces
      <4> QED BY <3>1, <4>1, Zenon
    <3>3. \A t \in P \ gone : Nonce[t] \in n + 1 .. e
      <4> SUFFICES ASSUME NEW t \in P \ gone PROVE Nonce[t] \in n + 1 .. e
        BY Zenon
      <4>1. Nonce[t] \in m + 1 .. e /\ t \notin A
        BY <1>10, <1>13, Zenon
      <4>2. Nonce[t] \notin m + 1 .. n
        BY <1>12, <3>2, <4>1
      <4> QED BY <1>5, <1>6, <4>1, <4>2
    <3>4. \A k \in n + 1 .. e : \E t \in P \ gone : Nonce[t] = k
      <4> SUFFICES ASSUME NEW k \in n + 1 .. e PROVE \E t \in P \ gone : Nonce[t] = k
        BY Zenon
      <4>1. k \in m + 1 .. e /\ ~(k <= n)
        BY <1>5, <1>6
      <4>2. PICK t \in P : Nonce[t] = k
        BY <1>5, <4>1, Zenon DEF Nonces
      <4>3. t \notin gone
        BY <1>9, <1>14, <4>1, <4>2, Zenon
      <4> QED BY <4>2, <4>3, Zenon
    <3> QED BY <3>3, <3>4, Zenon DEF Nonces
  <2> QED BY <2>2, <2>3, Zenon
<1>16. a \in Senders(A) \/ e >= n
  <2> HIDE DEF m, n, e, A
  <2> QED BY <1>5, <1>6, Zenon
<1>17. Nonces(Pooled(a)') = n + 1 .. nonce'[a]
  <2> HIDE DEF m, n, e, P, gone
  <2> QED BY <1>2, <1>8, <1>15, Zenon
<1>18. a \in setAddAddress' \/ nonce'[a] >= n
  <2> HIDE DEF m, n, e, A
  <2> QED BY <1>1, <1>2, <1>16, Zenon
<1>19. n = ChainNonce(Target', a)
  BY Zenon, <1>4
<1> HIDE DEF n
<1> QED BY <1>17, <1>18, <1>19, Zenon DEF InStep, Nonces, Pooled

\* Every step keeps what SynchronizeBlockChain works on
LEMMA NextSyncFromLast ==
  ASSUME IInv, SyncFromLast, [Next]_vars
  PROVE  SyncFromLast'
<1> USE DEF SyncFromLast
<1>n. NoUpdate.vBlockRemove = {}
  BY Zenon DEF NoUpdate
<1>b. \A u : IsBranch(u)' <=> IsBranch(u)
  BY Zenon DEF IsBranch, Branch
<1>1. ASSUME NEW b \in NewBlock, StorageNewBlock(b) PROVE SyncFromLast'
  <2> DEFINE u == [hashLastBlock |-> b, hashPrev |-> last, vBlockAddNew |-> Branch(b, last),
                   vBlockRemove |-> Branch(last, b)]
  <2>1. IsBranch(u)
    BY Zenon DEF IsBranch
  <2>2. updates' \subseteq updates \cup {u}
    BY Zenon, <1>1 DEF StorageNewBlock
  <2> HIDE DEF u
  <2>3. \A v \in updates' : IsBranch(v)'
    BY <1>b, <2>1, <2>2, Zenon
  <2> QED BY Zenon, <1>1, <1>b, <2>3 DEF StorageNewBlock, poolVars, syncVars, historyVars
<1>2. ASSUME NEW t \in Tx, Push(t) PROVE SyncFromLast'
  BY Zenon, <1>2, <1>b DEF Push, chainVars, syncVars, historyVars
<1>3. ASSUME NEW u \in updates, SyncStart(u) PROVE SyncFromLast'
  <2>1. /\ pc' = "sync" /\ update' = u /\ hashLastBlock' = hashLastBlock /\ updates' \subseteq updates
        /\ todo' = u.vBlockRemove \ Cert /\ setAddAddress' = Senders(u.vBlockAddNew)
        /\ reordered' \/ u.hashPrev = hashLastBlock
    BY Zenon, <1>3 DEF SyncStart
  <2> QED BY <1>b, <2>1, Zenon
<1>4. ASSUME NEW t \in Tx, SyncAddBack(t) PROVE SyncFromLast'
  BY Zenon, <1>4, <1>b DEF SyncAddBack, chainVars, historyVars
<1>5. ASSUME NEW a \in Address, SyncRefresh(a) PROVE SyncFromLast'
  <2>1. /\ pc = "sync" /\ todo = {} /\ todo' = todo /\ setAddAddress' = setAddAddress \ {a}
        /\ UNCHANGED <<updates, hashLastBlock, update, reordered, entry>>
        /\ (pc' = "miss" /\ dest' = a /\ a \in entry) \/ pc' = "sync"
    BY Zenon, <1>5 DEF SyncRefresh, chainVars, historyVars
  <2> QED BY <1>b, <2>1, Zenon
<1>6. ASSUME NEW t \in Tx, FetchNextMissTx(t) PROVE SyncFromLast'
  <2>1. entry \subseteq entry'
    BY <1>6, Zenon DEF FetchNextMissTx, AddTx
  <2> QED BY Zenon, <1>6, <1>b, <2>1 DEF FetchNextMissTx, chainVars, syncVars
<1>7. CASE SyncNextDest
  BY Zenon, <1>7, <1>b DEF SyncNextDest, chainVars, historyVars
<1>8. CASE SyncDone
  <2>1. pc' = "idle" /\ update' = NoUpdate /\ todo' = {} /\ setAddAddress' = {} /\ updates' = updates
    BY Zenon, <1>8 DEF SyncDone, chainVars
  <2> QED BY <1>b, <2>1, Zenon DEF NoUpdate
<1>9. CASE ClearTxPool
  <2>1. pc = "idle" /\ UNCHANGED <<updates, pc, update, todo, setAddAddress>>
    BY <1>9, Zenon DEF ClearTxPool, chainVars, syncVars
  <2> QED BY <1>b, <2>1, Zenon DEF NoUpdate
<1>10. ASSUME NEW v, Start(v) PROVE SyncFromLast'
  <2>1. /\ pc' \in {"idle", "load"} /\ update' = NoUpdate /\ todo' = {} /\ setAddAddress' = {}
        /\ updates' = {}
    BY <1>10, Zenon DEF Start
  <2> QED BY <2>1, Zenon DEF NoUpdate
<1>11. CASE Restart
  BY Zenon, <1>10, <1>11 DEF Restart
<1>12. CASE Crash
  BY Zenon, <1>10, <1>12 DEF Crash
<1>13. CASE LoadData
  <2>1. /\ pc = "load" /\ pc' \in {"idle", "load"}
        /\ UNCHANGED <<updates, update, todo, setAddAddress>>
    BY <1>13, Zenon DEF LoadData, chainVars
  <2> QED BY <1>b, <2>1, Zenon DEF NoUpdate
<1>14. CASE UNCHANGED vars
  BY Zenon, <1>14, <1>b DEF vars, chainVars, poolVars, syncVars, historyVars
<1> QED BY <1>1, <1>2, <1>3, <1>4, <1>5, <1>6, <1>7, <1>8, <1>9, <1>11, <1>12, <1>13, <1>14, Zenon
           DEF Next

\* The senders of whom a transaction is undone by the update in work
Undone == Senders(update.vBlockRemove \ Cert)

\* While SynchronizeBlockChain works, an address gets the state of the old block
\* with its entry; this is that of the new one or is about to be refreshed
LEMMA OldStateInSync ==
  ASSUME IInv, SyncFromLast, pc \in {"sync", "miss"}, ~reordered,
         NEW a \in Address, a \notin Undone, a \notin entry
  PROVE  /\ StateNonce(a) <= ChainNonce(Target, a)
         /\ a \notin Senders(update.vBlockAddNew) => StateNonce(a) >= ChainNonce(Target, a)
<1> DEFINE b == hashLastBlock
           c == update.hashLastBlock
<1>1. /\ b \in Block /\ c \in Block /\ Target = c /\ StateNonce(a) = ChainNonce(b, a)
  BY Zenon DEF IInv, ControlInv, Update, Target, StateNonce
<1>2. /\ update.vBlockAddNew = Branch(c, b)
      /\ update.vBlockRemove = Branch(b, c)
  BY Zenon DEF SyncFromLast, IsBranch
<1>3. a \notin Senders(Branch(b, c) \ Cert)
  BY Zenon, <1>2 DEF Undone
<1>4. ChainNonce(b, a) \in Nat /\ ChainNonce(c, a) \in Nat
  BY ChainNonceNat, Zenon
<1> HIDE DEF b, c
<1>5. /\ ChainNonce(b, a) <= ChainNonce(c, a)
      /\ a \notin Senders(Branch(c, b)) => ChainNonce(c, a) = ChainNonce(b, a)
  BY <1>1, <1>3, ChainGrows, Zenon
<1> QED BY <1>1, <1>2, <1>4, <1>5, Zenon

\* AddTx while no update is in work keeps the pool in step
LEMMA TryAddTxFollows ==
  ASSUME IInv, SyncFromLast, PoolFollows, pc \in {"idle", "load"}, pc' \in {"idle", "load"},
         NEW t \in Tx, TryAddTx(t),
         UNCHANGED <<hashLastBlock, update, setAddAddress, drifted, reordered>>
  PROVE  PoolFollows'
<1> SUFFICES ASSUME ~reordered, NEW a \in entry', a \notin drifted PROVE InStep(a)'
  BY Zenon DEF PoolFollows, InStep
<1>1. Target = hashLastBlock /\ Target' = Target /\ Target \in Block
  BY Zenon DEF Target, IInv, ControlInv
<1>2. setAddAddress = {} /\ a \notin Senders(update.vBlockRemove \ Cert)
  BY DEF SyncFromLast, NoUpdate, Senders
<1>3. a \in Address
  BY TryAddTxPool, Zenon DEF IInv, PoolInv, PoolType
<1>4. a \in entry => InStep(a)
  BY <1>2, Zenon DEF PoolFollows, InStep
<1>5. StateNonce(a) >= ChainNonce(Target, a)
  <2>1. CASE a \in entry
    BY <1>2, <1>4, <2>1, Zenon DEF InStep, StateNonce
  <2>2. CASE a \notin entry
    BY <1>1, <2>2, ChainNonceNat DEF StateNonce
  <2> QED BY <2>1, <2>2, Zenon
<1>6. a \notin entry => StateNonce(a) <= ChainNonce(Target, a)
  BY <1>1, ChainNonceNat DEF StateNonce
<1>7. PoolInv
  BY Zenon DEF IInv
<1> QED BY <1>1, <1>3, <1>4, <1>5, <1>6, <1>7, TryAddTxInStep, Zenon

\* A step that leaves alone what InStep reads of a sender
LEMMA SameInStep ==
  ASSUME NEW a, InStep(a), UNCHANGED <<mapTx, setAddAddress>>, Target' = Target,
         nonce'[a] = nonce[a]
  PROVE  InStep(a)'
<1>1. Nonces(Pooled(a))' = Nonces(Pooled(a))
  BY Zenon DEF Nonces, Pooled
<1>2. ChainNonce(Target, a)' = ChainNonce(Target, a)
  BY Zenon DEF ChainNonce, ChainTx
<1> QED BY <1>1, <1>2, Zenon DEF InStep

\* Every step keeps the pool in step with the chain
LEMMA NextFollows ==
  ASSUME IInv, SyncFromLast, PoolFollows, [Next]_vars
  PROVE  PoolFollows'
<1>p. PoolInv /\ ControlInv /\ PoolInv'
  BY NextPool, Zenon DEF IInv
<1>f. ASSUME ~reordered, NEW a \in entry, a \notin drifted, a \notin Undone PROVE InStep(a)
  BY <1>f, Zenon DEF PoolFollows, InStep, Undone
<1>g. (~reordered' => \A a \in entry' \ (drifted' \cup Undone') : InStep(a)') => PoolFollows'
  BY Zenon DEF PoolFollows, InStep, Undone
<1>h. Target \in Block
  BY <1>p, Zenon DEF Target, ControlInv, Update
<1>i. entry' \subseteq Address /\ entry \subseteq Address
  BY <1>p, Zenon DEF PoolInv, PoolType
<1>1. ASSUME UNCHANGED <<poolVars, hashLastBlock, syncVars, historyVars>> PROVE PoolFollows'
  <2> SUFFICES ASSUME ~reordered', NEW a \in entry' \ (drifted' \cup Undone') PROVE InStep(a)'
    BY <1>g, Zenon
  <2>1. Undone' = Undone /\ Target' = Target
    BY <1>1, Zenon DEF Undone, Target, syncVars, Senders
  <2>2. InStep(a)
    BY <1>1, <1>f, <2>1, Zenon DEF poolVars, historyVars
  <2> QED BY <1>1, <2>1, <2>2, SameInStep, Zenon DEF poolVars, syncVars
<1>2. ASSUME NEW t \in Tx, Push(t) PROVE PoolFollows'
  BY Zenon, <1>2, TryAddTxFollows DEF Push, TryAddTx, syncVars, historyVars
<1>3. ASSUME NEW u \in updates, SyncStart(u) PROVE PoolFollows'
  <2> SUFFICES ASSUME ~reordered', NEW a \in entry' \ (drifted' \cup Undone') PROVE InStep(a)'
    BY <1>g, Zenon
  <2>1. /\ ~reordered /\ u.hashPrev = hashLastBlock /\ update' = u
        /\ pc = "idle" /\ entry' \subseteq entry
    BY Zenon, <1>3 DEF SyncStart, RemovePooledTxs
  <2>2. a \notin drifted
    BY Zenon, <1>3 DEF SyncStart
  <2>3. a \notin Senders(u.vBlockRemove \ Cert)
    BY <2>1, Zenon DEF Undone, Senders
  <2>4. a \notin Undone
    BY <2>1 DEF SyncFromLast, NoUpdate, Undone, Senders
  <2>5. InStep(a)
    BY <1>f, <2>1, <2>2, <2>4, Zenon
  <2> QED BY Zenon, <1>3, <1>p, <2>1, <2>3, <2>5, SyncStartInStep
<1>4. ASSUME NEW t \in Tx, SyncAddBack(t) PROVE PoolFollows'
  <2> SUFFICES ASSUME ~reordered', NEW a \in entry' \ (drifted' \cup Undone') PROVE InStep(a)'
    BY <1>g, Zenon
  <2>1. /\ pc = "sync" /\ t \in todo /\ TryAddTx(t)
        /\ UNCHANGED <<hashLastBlock, pc, update, setAddAddress, drifted, reordered>>
    BY <1>4, Zenon DEF SyncAddBack, chainVars, historyVars
  <2>2. Undone' = Undone /\ Target' = Target
    BY <2>1, Zenon DEF Undone, Target, Senders
  <2>3. From[t] \in Undone
    BY <2>1, Zenon DEF SyncFromLast, Undone, Senders
  <2>4. a \in entry => InStep(a)
    BY <1>f, <2>1, <2>2, Zenon
  <2>5. a # From[t] /\ a \in Address
    BY <1>i, <2>2, <2>3, Zenon
  <2>6. StateNonce(a) >= ChainNonce(Target, a) \/ a \in setAddAddress
    <3>1. CASE a \in entry
      BY <2>4, <3>1, Zenon DEF InStep, StateNonce
    <3>2. CASE a \notin entry
      <4>1. setAddAddress = Senders(update.vBlockAddNew)
        BY <2>1, Zenon DEF SyncFromLast
      <4> QED BY <2>1, <2>2, <2>5, <3>2, <4>1, OldStateInSync, Zenon
    <3> QED BY <3>1, <3>2, Zenon
  <2>7. a \notin entry => StateNonce(a) <= ChainNonce(Target, a)
    BY <2>1, <2>2, <2>5, OldStateInSync, Zenon
  <2> QED BY <1>h, <1>p, <2>1, <2>2, <2>4, <2>5, <2>6, <2>7, TryAddTxInStep, Zenon
<1>5. ASSUME NEW d \in Address, SyncRefresh(d) PROVE PoolFollows'
  <2> SUFFICES ASSUME ~reordered', NEW a \in entry' \ (drifted' \cup Undone') PROVE InStep(a)'
    BY <1>g, Zenon
  <2>1. /\ pc = "sync" /\ pc' \in {"sync", "miss"} /\ setAddAddress' = setAddAddress \ {d}
        /\ UNCHANGED <<mapTx, entry, hashLastBlock, update, drifted, reordered>>
    BY <1>5, Zenon DEF SyncRefresh, historyVars
  <2>2. Undone' = Undone /\ Target' = Target /\ Target = update.hashLastBlock
    BY <2>1, Zenon DEF Undone, Target, Senders
  <2>3. InStep(a)
    BY <1>f, <2>1, <2>2, Zenon
  <2>4. Nonces(Pooled(a))' = Nonces(Pooled(a)) /\ ChainNonce(Target, a)' = ChainNonce(Target, a)
    BY <2>1, <2>2, Zenon DEF Nonces, Pooled, ChainNonce, ChainTx
  <2> DEFINE c == ChainNonce(Target, a)
  <2>5. c \in Nat /\ nonce[a] \in Nat
    BY <1>i, <1>p, <2>1, ChainNonceNat, Zenon DEF PoolInv, PoolType
  <2>6. CASE a # d
    <3>1. nonce'[a] = nonce[a]
      BY <1>5, <1>i, <1>p, <2>1, <2>6, Zenon DEF SyncRefresh, PoolInv, PoolType
    <3> QED BY <2>1, <2>3, <2>4, <2>6, <3>1, Zenon DEF InStep
  <2>7. CASE a = d
    <3>1. nonce'[a] = IF nonce[a] < c THEN c ELSE nonce[a]
      BY <1>5, <1>p, <2>1, <2>2, <2>7, Zenon DEF SyncRefresh, RefreshedNonce, PoolInv, PoolType
    <3>2. Nonces(Pooled(a)) = c + 1 .. nonce[a]
      BY <2>3, Zenon DEF InStep
    <3>3. Nonces(Pooled(a))' = c + 1 .. nonce'[a] /\ nonce'[a] >= c
      <4> HIDE DEF c
      <4>1. CASE nonce[a] < c
        <5>1. c + 1 .. nonce[a] = {} /\ c + 1 .. c = {}
          BY <2>5, <4>1
        <5>2. nonce'[a] = c
          BY <3>1, <4>1, Zenon
        <5>3. Nonces(Pooled(a))' = {}
          BY <2>4, <3>2, <5>1, Zenon
        <5>4. c >= c
          BY <2>5
        <5> QED BY <5>1, <5>2, <5>3, <5>4, Zenon
      <4>2. CASE ~(nonce[a] < c)
        <5>1. nonce'[a] = nonce[a]
          BY <3>1, <4>2, Zenon
        <5>2. nonce[a] >= c
          BY <2>5, <4>2
        <5> QED BY <2>4, <3>2, <5>1, <5>2, Zenon
      <4> QED BY <4>1, <4>2, Zenon
    <3> QED BY <2>4, <3>3, Zenon DEF InStep
  <2> QED BY <2>6, <2>7, Zenon
<1>6. ASSUME NEW t \in Tx, FetchNextMissTx(t) PROVE PoolFollows'
  <2> SUFFICES ASSUME ~reordered', NEW a \in entry' \ (drifted' \cup Undone') PROVE InStep(a)'
    BY <1>g, Zenon
  <2>1. /\ pc = "miss" /\ AddTx(t) /\ t \in mapMissTx[dest]
        /\ UNCHANGED <<hashLastBlock, pc, update, setAddAddress, reordered>>
        /\ drifted \subseteq drifted'
        /\ (entry' \ entry) \cap (Senders(update.vBlockAddNew) \ setAddAddress) \subseteq drifted'
    BY <1>6, Zenon DEF FetchNextMissTx, chainVars, syncVars
  <2>2. Undone' = Undone /\ Target' = Target
    BY <2>1, Zenon DEF Undone, Target, Senders
  <2>3. From[t] = dest /\ dest \in entry \ setAddAddress
    BY <1>i, <1>p, <2>1, Zenon DEF SyncFromLast, PoolInv, MissingAhead
  <2>4. a \in entry => InStep(a)
    BY <1>f, <2>1, <2>2, Zenon
  <2>5. a \in Address
    BY <1>i, Zenon
  <2>6. StateNonce(a) >= ChainNonce(Target, a) \/ (a \in setAddAddress /\ a # From[t])
    <3>1. CASE a \in entry
      BY <2>3, <2>4, <3>1, Zenon DEF InStep, StateNonce
    <3>2. CASE a \notin entry
      <4>1. a \in setAddAddress \/ a \notin Senders(update.vBlockAddNew)
        BY <2>1, <3>2, Zenon
      <4> QED BY <2>1, <2>2, <2>3, <2>5, <3>2, <4>1, OldStateInSync, Zenon
    <3> QED BY <3>1, <3>2, Zenon
  <2>7. a \notin entry => StateNonce(a) <= ChainNonce(Target, a)
    BY <2>1, <2>2, <2>5, OldStateInSync, Zenon
  <2>8. TryAddTx(t)
    BY <2>1, Zenon DEF TryAddTx
  <2> QED BY <1>h, <1>p, <2>1, <2>2, <2>4, <2>5, <2>6, <2>7, <2>8, TryAddTxInStep, Zenon
<1>7. CASE SyncNextDest
  <2> SUFFICES ASSUME ~reordered', NEW a \in entry' \ (drifted' \cup Undone') PROVE InStep(a)'
    BY <1>g, Zenon
  <2>1. /\ pc = "miss" /\ pc' = "sync"
        /\ UNCHANGED <<mapTx, entry, nonce, hashLastBlock, update, setAddAddress, drifted, reordered>>
    BY <1>7, Zenon DEF SyncNextDest, poolVars, historyVars
  <2>2. Undone' = Undone /\ Target' = Target
    BY <2>1, Zenon DEF Undone, Target, Senders
  <2>3. InStep(a)
    BY <1>f, <2>1, <2>2, Zenon
  <2> QED BY <2>1, <2>2, <2>3, SameInStep, Zenon
<1>8. CASE SyncDone
  <2> SUFFICES ASSUME ~reordered', NEW a \in entry' \ (drifted' \cup Undone') PROVE InStep(a)'
    BY <1>g, Zenon
  <2> DEFINE S == {t \in mapTx \cap Cert :
                     Nonce[t] + CONSENSUS_ENROLL_INTERVAL < Height[hashLastBlock]}
  <2>1. /\ pc = "sync" /\ setAddAddress = {} /\ RemovePooledTxs(S) /\ pc' = "idle"
        /\ hashLastBlock' = update.hashLastBlock
        /\ drifted' = (drifted \cup Undone) \cap entry'
        /\ UNCHANGED <<setAddAddress, reordered>>
    BY <1>8, Zenon DEF SyncDone, Undone
  <2>2. S \subseteq Cert
    BY Zenon
  <2> HIDE DEF S
  <2>3. Target' = Target
    BY <2>1, Zenon DEF Target
  <2>4. a \in entry /\ nonce'[a] = nonce[a] /\ mapTx' = mapTx \ S
    BY <1>i, <2>1, Zenon DEF RemovePooledTxs
  <2>5. InStep(a)
    BY <1>f, <2>1, <2>4, Zenon
  <2>6. Pooled(a)' = Pooled(a)
    BY <2>2, <2>4, Zenon DEF Pooled
  <2>7. Nonces(Pooled(a))' = Nonces(Pooled(a)) /\ ChainNonce(Target, a)' = ChainNonce(Target, a)
    BY <2>3, <2>6, Zenon DEF Nonces, ChainNonce, ChainTx
  <2> QED BY <2>1, <2>4, <2>5, <2>7, Zenon DEF InStep
<1>9. ASSUME EmptyPool PROVE PoolFollows'
  BY <1>9, <1>g, Zenon DEF EmptyPool
<1>10. CASE LoadData
  <2>1. Head(vLoad) \in Tx
    BY <1>10 DEF LoadData, IInv, ControlInv
  <2>2. PICK t \in Tx : t = Head(vLoad)
    BY <2>1, Zenon
  <2>3. /\ TryAddTx(t) /\ pc = "load" /\ pc' \in {"idle", "load"}
        /\ UNCHANGED <<hashLastBlock, update, setAddAddress, drifted, reordered>>
    BY <1>10, <2>2, Zenon DEF LoadData, historyVars
  <2> QED BY <2>3, TryAddTxFollows, Zenon
<1>11. ASSUME NEW b \in NewBlock, StorageNewBlock(b) PROVE PoolFollows'
  BY Zenon, <1>1, <1>11 DEF StorageNewBlock
<1>12. CASE ClearTxPool \/ Restart \/ Crash
  BY Zenon, <1>9, <1>12 DEF ClearTxPool, Restart, Crash, Start
<1>13. CASE UNCHANGED vars
  BY Zenon, <1>1, <1>13 DEF vars
<1> QED BY <1>2, <1>3, <1>4, <1>5, <1>6, <1>7, <1>8, <1>10, <1>11, <1>12, <1>13, Zenon DEF Next

\* What FetchArrangeBlockTx takes of a sender whose pooled transactions follow the
\* chain follows it too
LEMMA InStepTaken ==
  ASSUME PoolInv, hashLastBlock \in Block, NEW a \in Address, NEW n \in Nat,
         Nonces(Pooled(a)) = (ChainNonce(hashLastBlock, a) + 1) .. nonce[a],
         nonce[a] >= ChainNonce(hashLastBlock, a)
  PROVE  LET taken == {t \in FetchArrangeBlockTx(n) : From[t] = a}
         IN  Nonces(taken) = (ChainNonce(hashLastBlock, a) + 1) ..
                             (ChainNonce(hashLastBlock, a) + Cardinality(taken))
<1> DEFINE Before(x, t) == nSequenceNumber[x] <= nSequenceNumber[t]
           allowed == {t \in mapTx \ Cert :
                         \A x \in (mapTx \cap LowPrice) \ Cert : From[x] = From[t] => ~Before(x, t)}
           Ahead(t) == {x \in allowed : Before(x, t)}
           taken == {t \in FetchArrangeBlockTx(n) : From[t] = a}
           c == ChainNonce(hashLastBlock, a)
           e == nonce[a]
           P == Pooled(a)
<1>1. \A t : t \in taken <=> t \in allowed /\ From[t] = a /\ Cardinality(Ahead(t)) <= n
  BY Zenon DEF FetchArrangeBlockTx
<1>2. /\ mapTx \subseteq Tx /\ IsFiniteSet(mapTx)
      /\ \A t \in mapTx : nSequenceNumber[t] \in Nat /\ Nonce[t] \in Nat
  BY FS_Subset, ConstantsAssumption, Zenon DEF PoolInv, PoolType
<1>3. c \in Nat /\ e \in Nat /\ c <= e
  BY ChainNonceNat, Zenon DEF PoolInv, PoolType
<1>4. \A t \in taken : t \in P
  BY <1>1, Zenon DEF Pooled
<1>5. OneToOne(Nonce, taken)
  BY <1>4, Zenon DEF OneToOne, Pooled, PoolInv, NonceOrder
<1>6. ASSUME NEW t \in taken, NEW x \in P, Nonce[x] < Nonce[t] PROVE x \in taken
  <2>1. /\ t \in mapTx \ Cert /\ x \in mapTx \ Cert /\ From[t] = a /\ From[x] = a /\ t \in allowed
    BY <1>1, <1>4, Zenon DEF Pooled
  <2>2. nSequenceNumber[x] < nSequenceNumber[t]
    <3>1. NonceOrder
      BY Zenon DEF PoolInv
    <3>2. Nonce[x] \in Nat /\ Nonce[t] \in Nat /\ Nonce[x] < Nonce[t]
      BY <1>2, <1>6, <2>1, Zenon
    <3>3. x # t
      BY <3>2
    <3> QED BY <2>1, <3>1, <3>2, <3>3, Zenon DEF NonceOrder
  <2>3. \A y \in mapTx : Before(y, x) => Before(y, t)
    BY <1>2, <2>1, <2>2
  <2>4. x \in allowed
    BY <2>1, <2>3, Zenon
  <2>5. Ahead(x) \in SUBSET Ahead(t)
    BY <2>3, Zenon
  <2>6. Ahead(t) \in SUBSET mapTx
    BY Zenon
  <2> HIDE DEF Ahead
  <2>7. IsFiniteSet(Ahead(t))
    BY <1>2, <2>6, FS_Subset, Zenon
  <2>8. Cardinality(Ahead(x)) <= Cardinality(Ahead(t)) /\ IsFiniteSet(Ahead(x))
    BY <2>5, <2>7, FS_Subset, Zenon
  <2>9. Cardinality(Ahead(x)) \in Nat /\ Cardinality(Ahead(t)) \in Nat
    BY <2>7, <2>8, FS_CardinalityType, Zenon
  <2>10. Cardinality(Ahead(t)) <= n
    BY <1>1, Zenon
  <2>11. Cardinality(Ahead(x)) <= n
    BY <2>8, <2>9, <2>10
  <2> QED BY <1>1, <2>1, <2>4, <2>11, Zenon
<1> HIDE DEF taken, c, e
<1>7. NoGap(Nonces(taken), c, e)
  <2>1. \A t \in taken : Nonce[t] \in c + 1 .. e
    BY <1>4, Zenon DEF Nonces, c, e
  <2>2. ASSUME NEW t \in taken, NEW k \in c + 1 .. e, k < Nonce[t] PROVE k \in Nonces(taken)
    <3>1. PICK x \in P : Nonce[x] = k
      BY Zenon DEF Nonces, c, e
    <3>2. x \in taken
      BY <1>6, <2>2, <3>1, Zenon
    <3> QED BY <3>1, <3>2, Zenon DEF Nonces
  <2> QED BY <2>1, <2>2, Zenon DEF NoGap, Nonces
<1>8. Nonces(taken) = c + 1 .. c + Cardinality(Nonces(taken))
  BY <1>3, <1>7, NoGapInterval, Zenon
<1>9. Cardinality(Nonces(taken)) = Cardinality(taken)
  <2>1. taken \in SUBSET mapTx
    BY <1>4, Zenon DEF Pooled
  <2>2. IsFiniteSet(taken)
    BY <1>2, <2>1, FS_Subset, Zenon
  <2>3. Nonces(taken) = Image(Nonce, taken)
    BY Zenon DEF Nonces, Image
  <2> QED BY <1>5, <2>2, <2>3, ImageSize, Zenon
<1>10. Nonces(taken) = c + 1 .. c + Cardinality(taken)
  BY Zenon, <1>8, <1>9
<1> QED BY <1>10, Zenon DEF taken, c

\* The inductive invariant gives the property
LEMMA InStepFollows ==
  ASSUME IInv, SyncFromLast, PoolFollows
  PROVE  BlockFollowsChain
<1> SUFFICES ASSUME pc = "idle", ~reordered, NEW a \in Address \ drifted,
                    NEW n \in 1 .. Cardinality(mapTx)
             PROVE  LET taken == {t \in FetchArrangeBlockTx(n) : From[t] = a}
                    IN  Nonces(taken) = (ChainNonce(hashLastBlock, a) + 1) ..
                                        (ChainNonce(hashLastBlock, a) + Cardinality(taken))
  BY Zenon DEF BlockFollowsChain, Nonces
<1>1. PoolInv /\ hashLastBlock \in Block /\ a \in Address /\ n \in Nat
  BY DEF IInv, ControlInv
<1>2. CASE a \in entry
  <2>1. a \notin Senders(update.vBlockRemove \ Cert) /\ setAddAddress = {} /\ Target = hashLastBlock
    <3>1. update = NoUpdate /\ setAddAddress = {}
      BY Zenon DEF SyncFromLast
    <3>2. update.vBlockRemove = {}
      BY <3>1, Zenon DEF NoUpdate
    <3>3. a \notin Senders(update.vBlockRemove \ Cert)
      BY <3>2, Zenon DEF Senders
    <3> QED BY <3>1, <3>3, Zenon DEF Target
  <2>2. /\ Nonces(Pooled(a)) = (ChainNonce(Target, a) + 1) .. nonce[a]
        /\ nonce[a] >= ChainNonce(Target, a)
    BY <1>2, <2>1, Zenon DEF PoolFollows
  <2> QED BY <1>1, <2>1, <2>2, InStepTaken, Zenon
<1>3. CASE a \notin entry
  <2> DEFINE taken == {t \in FetchArrangeBlockTx(n) : From[t] = a}
             c == ChainNonce(hashLastBlock, a)
  <2>1. Pooled(a) = {}
    BY <1>1, <1>3, NoEntryNothing, Zenon
  <2>2. taken = {}
    BY <2>1, Zenon DEF FetchArrangeBlockTx, Pooled
  <2>3. Cardinality(taken) = 0 /\ Nonces(taken) = {} /\ c \in Nat
    BY <2>2, FS_EmptySet, ChainNonceNat, Zenon DEF Nonces
  <2> HIDE DEF taken, c
  <2>4. c + 1 .. c + Cardinality(taken) = {}
    BY <2>3
  <2>5. Nonces(taken) = c + 1 .. c + Cardinality(taken)
    BY <2>3, <2>4, Zenon
  <2> QED BY <2>5, Zenon DEF taken, c
<1> QED BY <1>2, <1>3, Zenon

\* A block made from the pool is not refused for its nonces: of each sender it has
\* the next ones of the chain without a gap, whatever came to the pool while
\* updates, reorganisations and restarts were under way
THEOREM BlocksFollowChain == Spec => []BlockFollowsChain
<1>1. Init => SyncFromLast /\ PoolFollows
  BY Zenon DEF Init, SyncFromLast, PoolFollows, NoUpdate
<1>2. IInv /\ SyncFromLast /\ PoolFollows /\ [Next]_vars => SyncFromLast' /\ PoolFollows'
  BY NextSyncFromLast, NextFollows, Zenon
<1> QED BY InductiveInvariant, <1>1, <1>2, InStepFollows, PTL DEF Spec
=============================================================================

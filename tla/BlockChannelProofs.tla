------------------------ MODULE BlockChannelProofs --------------------------
(***************************************************************************)
(* Proofs about CBlockChannel, for any finite set of blocks, any limits of *)
(* the cache, any peers and any forks: a cached block is never left behind *)
(* when its previous block is stored, whichever thread stores it.          *)
(***************************************************************************)
EXTENDS BlockChannel, CountingFacts

Event ==
       [type : {"active", "deactive"}, peer : Peer]
  \cup [type : {"subscribe"}, peer : Peer, fork : Fork, on : BOOLEAN]
  \cup [type : {"bks"}, block : Block, peer : Peer]
  \cup [type : {"fork"}, fork : Fork]
  \cup [type : {"broadcast"}, block : Block, peer : Peer \cup {0}]

\* The functions from a part of A to B
Partial(A, B) == UNION {[D -> B] : D \in SUBSET A}

Channel == [stored : SUBSET Block, queue : Seq(Event), mapChnBlock : Partial(Block, Peer),
            mapChnPrevBlock : SUBSET (Nat \X Block), nCacheBlockByteCount : Nat,
            mapChnPeer : Partial(Peer, SUBSET Fork), mapChnFork : SUBSET Fork,
            quiet : SUBSET Block, told : [Peer -> SUBSET Fork]]

ChannelTypeOK ==
  /\ c \in Channel
  /\ conn \in [Peer -> {"new", "open", "closed"}]
  /\ handling \in {NoBlock} \cup [op : {"cache", "add"}, block : Block, peer : Peer]
  /\ posting \in SUBSET Block

\* CacheKept of a channel s
CacheOf(s) ==
  /\ s.mapChnPrevBlock = {<<Prev[b], b>> : b \in Cached(s)}
  /\ s.nCacheBlockByteCount = Bytes(Cached(s))
  /\ Cardinality(Cached(s)) <= MAX_CACHE_CHN_BLOCK_COUNT
  /\ Cached(s) # {} =>
       \E b \in Cached(s) : s.nCacheBlockByteCount - Size[b] < MAX_CACHE_CHN_BLOCK_SIZE

\* A block that was found without its previous block and is about to be cached:
\* if the previous one has been stored since, its announcement is on its way
NotOvertaken ==
  handling.op = "cache" /\ Prev[handling.block] \in c.stored \ c.quiet
    => Announced(Prev[handling.block])

\* No peer was asked for a fork that this node does not have
ToldForks == \A p \in Peer : c.told[p] \subseteq c.mapChnFork

ChannelInv ==
  /\ ChannelTypeOK /\ CacheOf(c) /\ NotOvertaken /\ NoneStranded
  /\ ToldForks /\ PeersTold
-----------------------------------------------------------------------------
(* The bytes of a set of blocks.                                           *)

\* The places that Bytes counts
Places(bs) == UNION {{b} \X (1..Size[b]) : b \in bs}

\* A block has as many places as bytes.
LEMMA PlacesOfBlock ==
  ASSUME NEW b \in Block
  PROVE  IsFiniteSet({b} \X (1..Size[b])) /\ Cardinality({b} \X (1..Size[b])) = Size[b]
  <1>1. Size[b] \in Nat
    BY ChannelAssumption, Zenon
  <1>2. IsFiniteSet(1..Size[b]) /\ Cardinality(1..Size[b]) = Size[b]
    <2>1. 0 \in Nat /\ 0 <= Size[b] /\ 0 + 1..Size[b] = 1..Size[b] /\ Size[b] - 0 = Size[b]
      BY <1>1
    <2> QED
      BY <1>1, <2>1, IntervalSize, Zenon
  <1> DEFINE f == [i \in 1..Size[b] |-> <<b, i>>]
  <1>3. Image(f, 1..Size[b]) = {b} \X (1..Size[b])
    <2>1. \A x : x \in {b} \X (1..Size[b]) <=> \E i \in 1..Size[b] : x = <<b, i>>
      OBVIOUS
    <2>2. \A x : x \in Image(f, 1..Size[b]) <=> \E i \in 1..Size[b] : x = <<b, i>>
      BY Zenon DEF Image
    <2> QED
      BY <2>1, <2>2, Zenon
  <1>4. OneToOne(f, 1..Size[b])
    BY Zenon DEF OneToOne
  <1> HIDE DEF f
  <1> QED
    BY <1>2, <1>3, <1>4, ImageSize, Zenon

\* The places of finitely many blocks can be counted.
LEMMA BytesType ==
  ASSUME NEW bs \in SUBSET Block
  PROVE  IsFiniteSet(Places(bs)) /\ Bytes(bs) \in Nat
  <1>1. IsFiniteSet(bs)
    BY ChannelAssumption, FS_Subset, Zenon
  <1> DEFINE f == [b \in bs |-> {b} \X (1..Size[b])]
  <1>2. Image(f, bs) = {{b} \X (1..Size[b]) : b \in bs}
    BY Zenon DEF Image
  <1>3. IsFiniteSet({{b} \X (1..Size[b]) : b \in bs})
    BY <1>1, <1>2, ImageSize, Zenon
  <1>4. \A T \in {{b} \X (1..Size[b]) : b \in bs} : IsFiniteSet(T)
    BY PlacesOfBlock, Zenon
  <1>5. IsFiniteSet(Places(bs))
    BY <1>3, <1>4, FS_UNION, Zenon DEF Places
  <1> QED
    BY <1>5, FS_CardinalityType, Zenon DEF Places, Bytes

\* The bytes of two sets of blocks that have none in common
LEMMA BytesUnion ==
  ASSUME NEW A \in SUBSET Block, NEW B \in SUBSET Block, A \cap B = {}
  PROVE  Bytes(A \cup B) = Bytes(A) + Bytes(B)
  <1>1. Places(A \cup B) = Places(A) \cup Places(B)
    BY Zenon DEF Places
  <1>2. Places(A) \cap Places(B) = {}
    <2> SUFFICES ASSUME NEW x \in Places(A), x \in Places(B) PROVE FALSE
      BY Zenon
    <2>1. PICK a \in A : x \in {a} \X (1..Size[a])
      BY Zenon DEF Places
    <2>2. PICK b \in B : x \in {b} \X (1..Size[b])
      BY Zenon DEF Places
    <2>3. x[1] = a /\ x[1] = b
      BY <2>1, <2>2, Zenon
    <2> QED
      BY <2>3, Zenon
  <1>3. IsFiniteSet(Places(A)) /\ IsFiniteSet(Places(B))
    BY BytesType, Zenon
  <1> QED
    BY <1>1, <1>2, <1>3, DisjointUnion, Zenon DEF Places, Bytes

\* The bytes of a set of blocks are those of a part of it and of the others.
LEMMA BytesPart ==
  ASSUME NEW A \in SUBSET Block, NEW B \in SUBSET A
  PROVE  /\ Bytes(A) \in Nat /\ Bytes(B) \in Nat /\ Bytes(A \ B) \in Nat
         /\ Bytes(A) = Bytes(A \ B) + Bytes(B)
  <1>1. (A \ B) \cup B = A /\ (A \ B) \cap B = {}
    BY Zenon
  <1>2. A \ B \in SUBSET Block /\ B \in SUBSET Block
    BY Zenon
  <1> QED
    BY <1>1, <1>2, BytesUnion, BytesType, Zenon

\* The bytes of one block, and of none
LEMMA BytesOne ==
  /\ Bytes({}) = 0
  /\ \A b \in Block : Bytes({b}) = Size[b]
  <1>1. Places({}) = {}
    BY Zenon DEF Places
  <1>2. \A b : Places({b}) = {b} \X (1..Size[b])
    BY Zenon DEF Places
  <1> QED
    BY <1>1, <1>2, PlacesOfBlock, FS_EmptySet, Zenon DEF Places, Bytes
-----------------------------------------------------------------------------
(* The cache.                                                              *)

\* The blocks of the cache
LEMMA CachedBlocks ==
  ASSUME NEW s \in Channel
  PROVE  /\ Cached(s) \in SUBSET Block /\ IsFiniteSet(Cached(s))
         /\ s.mapChnBlock \in [Cached(s) -> Peer]
  <1>1. s.mapChnBlock \in Partial(Block, Peer)
    BY Zenon DEF Channel
  <1>2. s.mapChnBlock \in [Cached(s) -> Peer] /\ Cached(s) \in SUBSET Block
    BY <1>1, Zenon DEF Partial, Cached
  <1> QED
    BY <1>2, ChannelAssumption, FS_Subset, Zenon

\* r and s differ in the cache only.
CacheOnly(r, s) ==
  /\ r.stored = s.stored /\ r.queue = s.queue /\ r.quiet = s.quiet
  /\ r.mapChnPeer = s.mapChnPeer /\ r.mapChnFork = s.mapChnFork /\ r.told = s.told

\* What RemoveCacheBlock does to the fields of the channel
LEMMA RemoveFields ==
  ASSUME NEW s \in Channel, CacheOf(s), NEW bs
  PROVE  LET r == RemoveCacheBlocks(s, bs)
         IN  /\ r \in Channel /\ CacheOnly(r, s)
             /\ Cached(r) = Cached(s) \ bs
             /\ r.mapChnPrevBlock = {<<Prev[b], b>> : b \in Cached(r)}
             /\ r.nCacheBlockByteCount = Bytes(Cached(r))
  <1> DEFINE gone == bs \cap Cached(s)
             rest == Cached(s) \ bs
             r == RemoveCacheBlocks(s, bs)
  <1>1. /\ Cached(s) \in SUBSET Block /\ s.mapChnBlock \in [Cached(s) -> Peer]
        /\ s.mapChnPrevBlock = {<<Prev[b], b>> : b \in Cached(s)}
        /\ s.nCacheBlockByteCount = Bytes(Cached(s))
    BY CachedBlocks, Zenon DEF CacheOf
  <1>2. CASE gone = {}
    <2>1. r = s /\ rest = Cached(s)
      BY <1>2, Zenon DEF RemoveCacheBlocks
    <2> QED
      BY <1>1, <2>1, Zenon DEF CacheOnly
  <1>3. CASE gone # {}
    <2> DEFINE m == Restrict(s.mapChnBlock, rest)
               v == IF rest = {} THEN {} ELSE s.mapChnPrevBlock \ {<<Prev[b], b>> : b \in gone}
               n == IF rest = {} THEN 0 ELSE s.nCacheBlockByteCount - Bytes(gone)
    <2>1. r = [s EXCEPT !.mapChnBlock = m, !.mapChnPrevBlock = v, !.nCacheBlockByteCount = n]
      BY <1>3, Zenon DEF RemoveCacheBlocks
    <2>2. m \in [rest -> Peer] /\ DOMAIN m = rest
      BY <1>1, Zenon DEF Restrict
    <2>3. m \in Partial(Block, Peer)
      BY <1>1, <2>2, Zenon DEF Partial
    <2>4. v = {<<Prev[b], b>> : b \in rest}
      BY <1>1
    <2>5. v \in SUBSET (Nat \X Block)
      <3>1. \A b \in rest : <<Prev[b], b>> \in Nat \X Block
        BY <1>1, ChannelAssumption, Zenon
      <3> HIDE DEF v
      <3> QED
        BY <2>4, <3>1, Zenon
    <2>6. n = Bytes(rest) /\ n \in Nat
      <3>1. gone \in SUBSET Cached(s) /\ rest = Cached(s) \ gone
        BY Zenon
      <3> HIDE DEF gone, rest
      <3>2. /\ Bytes(Cached(s)) \in Nat /\ Bytes(gone) \in Nat /\ Bytes(rest) \in Nat
            /\ Bytes(Cached(s)) = Bytes(rest) + Bytes(gone)
        BY <1>1, <3>1, BytesPart, Zenon
      <3>3. Bytes(Cached(s)) - Bytes(gone) = Bytes(rest)
        BY <3>2
      <3> QED
        BY <1>1, <3>2, <3>3, BytesOne, Zenon
    <2> HIDE DEF m, v, n, r
    <2>7. /\ r.mapChnBlock = m /\ r.mapChnPrevBlock = v /\ r.nCacheBlockByteCount = n
          /\ r \in Channel /\ CacheOnly(r, s)
      BY <2>1, <2>3, <2>5, <2>6, Zenon DEF Channel, CacheOnly
    <2>8. Cached(r) = rest
      BY <2>2, <2>7, Zenon DEF Cached
    <2> QED
      BY <2>4, <2>6, <2>7, <2>8, Zenon DEF r
  <1> QED
    BY <1>2, <1>3, Zenon

\* Fewer blocks have fewer bytes, and one of them is all that is above the limit.
LEMMA FewerBytes ==
  ASSUME NEW A \in SUBSET Block, NEW B \in SUBSET A
  PROVE  /\ Bytes(A) \in Nat /\ Bytes(B) \in Nat /\ Bytes(B) <= Bytes(A)
         /\ Cardinality(A) \in Nat /\ Cardinality(B) \in Nat /\ Cardinality(B) <= Cardinality(A)
         /\ \A b \in A \ B : Bytes(B) <= Bytes(A) - Size[b]
  <1>1. Bytes(A) \in Nat /\ Bytes(B) \in Nat /\ Bytes(A \ B) \in Nat /\ Bytes(A) = Bytes(A \ B) + Bytes(B)
    BY BytesPart, Zenon
  <1>2. IsFiniteSet(A) /\ IsFiniteSet(B) /\ Cardinality(B) <= Cardinality(A)
    BY ChannelAssumption, FS_Subset, Zenon
  <1>3. ASSUME NEW b \in A \ B PROVE Bytes(B) <= Bytes(A) - Size[b]
    <2>1. /\ A \ B \in SUBSET Block /\ {b} \in SUBSET (A \ B) /\ Size[b] \in Nat
          /\ Bytes({b}) = Size[b]
      BY ChannelAssumption, BytesOne, Zenon
    <2>2. /\ Bytes((A \ B) \ {b}) \in Nat
          /\ Bytes(A \ B) = Bytes((A \ B) \ {b}) + Bytes({b})
      BY <2>1, BytesPart, Zenon
    <2> QED
      BY <1>1, <2>1, <2>2
  <1>4. Bytes(B) <= Bytes(A)
    BY <1>1
  <1> QED
    BY <1>1, <1>2, <1>3, <1>4, FS_CardinalityType, Zenon

\* Removing blocks keeps the cache.
LEMMA RemoveKeeps ==
  ASSUME NEW s \in Channel, CacheOf(s), NEW bs
  PROVE  LET r == RemoveCacheBlocks(s, bs)
         IN  r \in Channel /\ CacheOnly(r, s) /\ CacheOf(r) /\ Cached(r) = Cached(s) \ bs
  <1> DEFINE r == RemoveCacheBlocks(s, bs)
             A == Cached(s)
             B == Cached(r)
  <1>1. /\ r \in Channel /\ CacheOnly(r, s) /\ B = A \ bs
        /\ r.mapChnPrevBlock = {<<Prev[b], b>> : b \in B}
        /\ r.nCacheBlockByteCount = Bytes(B)
    BY RemoveFields, Zenon
  <1>2. A \in SUBSET Block /\ B \in SUBSET A
    BY <1>1, CachedBlocks, Zenon
  <1>3. /\ Cardinality(A) <= MAX_CACHE_CHN_BLOCK_COUNT
        /\ A # {} => \E b \in A : Bytes(A) - Size[b] < MAX_CACHE_CHN_BLOCK_SIZE
    BY Zenon DEF CacheOf
  <1> HIDE DEF r, A, B
  <1>4. /\ Bytes(A) \in Nat /\ Bytes(B) \in Nat /\ Bytes(B) <= Bytes(A)
        /\ Cardinality(A) \in Nat /\ Cardinality(B) \in Nat /\ Cardinality(B) <= Cardinality(A)
        /\ \A b \in A \ B : Bytes(B) <= Bytes(A) - Size[b]
    BY <1>2, FewerBytes, Zenon
  <1>5. Cardinality(B) <= MAX_CACHE_CHN_BLOCK_COUNT
    BY <1>3, <1>4, ChannelAssumption
  <1>6. ASSUME B # {} PROVE \E b \in B : Bytes(B) - Size[b] < MAX_CACHE_CHN_BLOCK_SIZE
    <2>1. PICK b \in A : Bytes(A) - Size[b] < MAX_CACHE_CHN_BLOCK_SIZE
      BY <1>2, <1>3, <1>6, Zenon
    <2>2. PICK x \in B : TRUE
      BY <1>6, Zenon
    <2>3. Size[b] \in Nat /\ Size[x] \in Nat
      BY <1>2, ChannelAssumption, Zenon
    <2>4. CASE b \in B
      <3>1. Bytes(B) - Size[b] < MAX_CACHE_CHN_BLOCK_SIZE
        BY <1>4, <2>1, <2>3, ChannelAssumption
      <3> QED
        BY <2>4, <3>1, Zenon
    <2>5. CASE b \notin B
      <3>1. Bytes(B) <= Bytes(A) - Size[b]
        BY <1>4, <2>5, Zenon
      <3>2. Bytes(B) - Size[x] < MAX_CACHE_CHN_BLOCK_SIZE
        BY <1>4, <2>1, <2>3, <3>1, ChannelAssumption
      <3> QED
        BY <3>2, Zenon
    <2> QED
      BY <2>4, <2>5, Zenon
  <1> QED
    BY <1>1, <1>5, <1>6, Zenon DEF CacheOf, r, A, B
\* MakeRoom keeps the cache and leaves room for a block.
LEMMA MakeRoomKeeps ==
  ASSUME NEW s \in Channel, CacheOf(s)
  PROVE  LET r == MakeRoom(s)
         IN  /\ r \in Channel /\ CacheOnly(r, s) /\ CacheOf(r) /\ ~Full(r)
             /\ Cached(r) \in SUBSET Cached(s)
  <1> DEFINE Below(b) == {x \in Cached(s) : x < b}
             E == {b \in Cached(s) : Full(RemoveCacheBlocks(s, Below(b)))}
             r == RemoveCacheBlocks(s, E)
  <1>1. MakeRoom(s) = r
    BY Zenon DEF MakeRoom
  <1>2. Cached(s) \in SUBSET Block /\ Cached(s) \subseteq Nat
    BY CachedBlocks, ChannelAssumption, Zenon
  <1>3. \A b \in Cached(s) \ E : ~Full(RemoveCacheBlocks(s, Below(b)))
    BY Zenon
  <1> HIDE DEF E
  <1>4. r \in Channel /\ CacheOnly(r, s) /\ CacheOf(r) /\ Cached(r) = Cached(s) \ E
    BY RemoveKeeps, Zenon
  <1>5. CASE Cached(r) = {}
    <2>1. Cardinality(Cached(r)) = 0
      BY <1>5, FS_EmptySet, Zenon
    <2>2. ~(Cardinality(Cached(r)) >= MAX_CACHE_CHN_BLOCK_COUNT)
      BY <2>1, ChannelAssumption
    <2> QED
      BY <1>1, <1>4, <1>5, <2>2, Zenon DEF Full
  <1>6. CASE Cached(r) # {}
    <2>1. PICK b \in Cached(r) : \A x \in Cached(r) : b <= x
      <3>1. Cached(r) \subseteq Nat
        BY <1>2, <1>4, Zenon
      <3> QED
        BY <1>6, <3>1, LeastNatural, Zenon
    <2> DEFINE t == RemoveCacheBlocks(s, Below(b))
    <2>2. CacheOf(t) /\ Cached(t) = Cached(s) \ Below(b) /\ t \in Channel
      BY RemoveKeeps, Zenon
    <2>3. ~Full(t)
      BY <1>3, <1>4, <2>1, Zenon
    <2>4. \A x \in Cached(r) : ~(x < b)
      BY <1>2, <1>4, <2>1
    <2>5. Cached(r) \in SUBSET Cached(t) /\ Cached(t) \in SUBSET Block
      BY <1>2, <1>4, <2>2, <2>4, Zenon
    <2> HIDE DEF t
    <2>6. /\ Bytes(Cached(t)) \in Nat /\ Bytes(Cached(r)) \in Nat /\ Bytes(Cached(r)) <= Bytes(Cached(t))
          /\ Cardinality(Cached(t)) \in Nat /\ Cardinality(Cached(r)) \in Nat
          /\ Cardinality(Cached(r)) <= Cardinality(Cached(t))
      BY <2>5, FewerBytes, Zenon
    <2>7. /\ t.nCacheBlockByteCount = Bytes(Cached(t))
          /\ r.nCacheBlockByteCount = Bytes(Cached(r))
      BY <1>4, <2>2, Zenon DEF CacheOf
    <2>8. /\ ~(Cardinality(Cached(t)) >= MAX_CACHE_CHN_BLOCK_COUNT)
          /\ ~(Bytes(Cached(t)) >= MAX_CACHE_CHN_BLOCK_SIZE)
      BY <1>6, <2>3, <2>5, <2>7, Zenon DEF Full
    <2> HIDE DEF r
    <2>9. /\ ~(Cardinality(Cached(r)) >= MAX_CACHE_CHN_BLOCK_COUNT)
          /\ ~(Bytes(Cached(r)) >= MAX_CACHE_CHN_BLOCK_SIZE)
      BY <2>6, <2>8, ChannelAssumption
    <2>10. ~Full(r)
      BY <2>7, <2>9, Zenon DEF Full
    <2> QED
      BY <1>1, <1>4, <2>10, Zenon
  <1> QED
    BY <1>5, <1>6, Zenon

\* Adding a block keeps the cache: the bytes may pass their limit with it only.
LEMMA AddCacheKeeps ==
  ASSUME NEW s \in Channel, CacheOf(s), NEW b \in Block, NEW p \in Peer
  PROVE  LET t == AddCacheBlock(s, b, p)
         IN  t \in Channel /\ CacheOnly(t, s) /\ CacheOf(t) /\ Cached(t) \subseteq Cached(s) \cup {b}
  <1> DEFINE t == AddCacheBlock(s, b, p)
  <1>1. CASE b \in Cached(s)
    <2>1. t = s
      BY <1>1, Zenon DEF AddCacheBlock
    <2> QED
      BY <2>1, Zenon DEF CacheOnly
  <1>2. CASE b \notin Cached(s)
    <2> DEFINE r == MakeRoom(s)
               A == Cached(r)
               m == [x \in A \cup {b} |-> IF x = b THEN p ELSE r.mapChnBlock[x]]
               v == r.mapChnPrevBlock \cup {<<Prev[b], b>>}
               n == r.nCacheBlockByteCount + Size[b]
    <2>1. t = [r EXCEPT !.mapChnBlock = m, !.mapChnPrevBlock = v, !.nCacheBlockByteCount = n]
      BY <1>2, Zenon DEF AddCacheBlock
    <2>2. /\ r \in Channel /\ CacheOnly(r, s) /\ CacheOf(r) /\ ~Full(r) /\ A \in SUBSET Cached(s)
      BY MakeRoomKeeps, Zenon
    <2>3. /\ A \in SUBSET Block /\ IsFiniteSet(A) /\ r.mapChnBlock \in [A -> Peer]
      BY <2>2, CachedBlocks, Zenon
    <2>4. m \in [A \cup {b} -> Peer] /\ DOMAIN m = A \cup {b} /\ A \cup {b} \in SUBSET Block
      BY <2>3, Zenon
    <2>5. m \in Partial(Block, Peer)
      BY <2>4, Zenon DEF Partial
    <2>6. r.mapChnPrevBlock = {<<Prev[x], x>> : x \in A} /\ r.nCacheBlockByteCount = Bytes(A)
      BY <2>2, Zenon DEF CacheOf
    <2>7. v = {<<Prev[x], x>> : x \in A \cup {b}}
      BY <2>6, Zenon
    <2>8. v \in SUBSET (Nat \X Block)
      <3>1. \A x \in A \cup {b} : <<Prev[x], x>> \in Nat \X Block
        BY <2>3, ChannelAssumption, Zenon
      <3> HIDE DEF v
      <3> QED
        BY <2>7, <3>1, Zenon
    <2>9. /\ Bytes(A) \in Nat /\ Size[b] \in Nat /\ Bytes(A \cup {b}) = Bytes(A) + Size[b]
      <3>1. b \notin A
        BY <1>2, <2>2, Zenon
      <3>2. A \cap {b} = {} /\ {b} \in SUBSET Block
        BY <3>1, Zenon
      <3> QED
        BY <2>3, <3>2, BytesUnion, BytesOne, BytesType, ChannelAssumption, Zenon
    <2>10. n \in Nat /\ n = Bytes(A \cup {b})
      BY <2>6, <2>9
    <2> HIDE DEF r, A, m, v, n, t
    <2>11. /\ t.mapChnBlock = m /\ t.mapChnPrevBlock = v /\ t.nCacheBlockByteCount = n
           /\ t \in Channel /\ CacheOnly(t, s)
      BY <2>1, <2>2, <2>5, <2>8, <2>10, Zenon DEF Channel, CacheOnly
    <2>12. Cached(t) = A \cup {b}
      BY <2>4, <2>11, Zenon DEF Cached
    <2>13. /\ ~(Cardinality(A) >= MAX_CACHE_CHN_BLOCK_COUNT)
           /\ A # {} => ~(Bytes(A) >= MAX_CACHE_CHN_BLOCK_SIZE)
      BY <2>2, <2>6, Zenon DEF Full, A
    <2>14. Cardinality(A \cup {b}) <= MAX_CACHE_CHN_BLOCK_COUNT
      <3>1. /\ Cardinality(A) \in Nat
            /\ Cardinality(A \cup {b}) = Cardinality(A) \/ Cardinality(A \cup {b}) = Cardinality(A) + 1
        BY <2>3, FS_AddElement, FS_CardinalityType, Zenon
      <3> QED
        BY <2>13, <3>1, ChannelAssumption
    <2>15. n - Size[b] < MAX_CACHE_CHN_BLOCK_SIZE
      <3>1. A = {} => Bytes(A) = 0
        BY BytesOne, Zenon
      <3> QED
        BY <2>9, <2>10, <2>13, <3>1, ChannelAssumption
    <2>16. CacheOf(t)
      BY <2>7, <2>10, <2>11, <2>12, <2>14, <2>15, Zenon DEF CacheOf
    <2> QED
      BY <2>2, <2>11, <2>12, <2>16, Zenon DEF t
  <1> QED
    BY <1>1, <1>2, Zenon
-----------------------------------------------------------------------------
(* The dispatcher and the announcements.                                   *)

\* An event that announces b is in the queue.
Heard(s, b) == \E i \in DOMAIN s.queue : s.queue[i].type = "broadcast" /\ s.queue[i].block = b

\* Ascending lists every block of the set.
LEMMA AscendingLists ==
  ASSUME NEW S \in SUBSET Block, NEW q \in Ascending(S)
  PROVE  /\ Cardinality(S) \in Nat /\ q \in [1..Cardinality(S) -> S]
         /\ \A x \in S : \E i \in 1..Cardinality(S) : q[i] = x
  <1> DEFINE n == Cardinality(S)
  <1>1. IsFiniteSet(S) /\ n \in Nat
    BY ChannelAssumption, FS_Subset, FS_CardinalityType, Zenon
  <1>2. q \in [1..n -> S] /\ \A i, j \in 1..n : i < j => q[i] < q[j]
    BY Zenon DEF Ascending
  <1>3. \A i \in 1..n : q[i] \in Nat
    BY <1>2, ChannelAssumption, Zenon
  <1> HIDE DEF n
  <1>4. \A i, j \in 1..n : q[i] = q[j] => i = j
    <2> SUFFICES ASSUME NEW i \in 1..n, NEW j \in 1..n, q[i] = q[j], i # j PROVE FALSE
      BY Zenon
    <2>1. q[i] < q[j] \/ q[j] < q[i]
      <3>1. i < j \/ j < i
        BY <1>1
      <3> QED
        BY <1>2, <3>1, Zenon
    <2>2. q[i] \in Nat /\ q[j] \in Nat
      BY <1>3, Zenon
    <2> QED
      BY <2>1, <2>2
  <1>5. q \in Injection(1..n, S)
    BY <1>2, <1>4, Zenon DEF Injection, IsInjective
  <1>6. Cardinality(1..n) = n
    <2>1. 0 \in Nat /\ 0 <= n /\ 0 + 1..n = 1..n /\ n - 0 = n
      BY <1>1
    <2> QED
      BY <1>1, <2>1, IntervalSize, Zenon
  <1>7. q \in Surjection(1..n, S)
    BY <1>1, <1>5, <1>6, FS_Injection, Zenon DEF n
  <1> QED
    BY <1>1, <1>2, <1>7, Zenon DEF Surjection, n

\* The events that the queue gets behind its own are heard.
LEMMA HeardConcat ==
  ASSUME NEW s \in Channel, NEW r \in Channel, NEW q \in Seq(Event), r.queue = s.queue \o q
  PROVE  /\ \A b : Heard(s, b) => Heard(r, b)
         /\ \A i \in 1..Len(q) : q[i].type = "broadcast" => Heard(r, q[i].block)
  <1>1. s.queue \in Seq(Event) /\ r.queue \in Seq(Event)
    BY Zenon DEF Channel
  <1>2. /\ Len(s.queue) \in Nat /\ Len(q) \in Nat /\ Len(r.queue) = Len(s.queue) + Len(q)
        /\ \A i \in 1..Len(s.queue) + Len(q) :
              r.queue[i] = IF i <= Len(s.queue) THEN s.queue[i] ELSE q[i - Len(s.queue)]
    <2>1. /\ Len(s.queue \o q) = Len(s.queue) + Len(q)
          /\ \A i \in 1..Len(s.queue) + Len(q) :
                (s.queue \o q)[i] = IF i <= Len(s.queue) THEN s.queue[i] ELSE q[i - Len(s.queue)]
      BY <1>1, SeqConcat, Zenon
    <2>2. Len(s.queue) \in Nat /\ Len(q) \in Nat
      BY <1>1, SeqFunction, Zenon
    <2> QED
      BY <2>1, <2>2, Zenon
  <1>3. DOMAIN s.queue = 1..Len(s.queue) /\ DOMAIN r.queue = 1..Len(r.queue)
    BY <1>1, SeqFunction, Zenon
  <1>4. \A i \in DOMAIN s.queue : i \in DOMAIN r.queue /\ r.queue[i] = s.queue[i]
    BY <1>2, <1>3
  <1>5. \A i \in 1..Len(q) : Len(s.queue) + i \in DOMAIN r.queue /\ r.queue[Len(s.queue) + i] = q[i]
    BY <1>2, <1>3
  <1> QED
    BY <1>4, <1>5, Zenon DEF Heard

\* r has what s has, and what r stored beyond it is quiet or heard.
Grown(r, s) ==
  /\ s.stored \subseteq r.stored /\ s.quiet \subseteq r.quiet
  /\ r.mapChnPeer = s.mapChnPeer /\ r.mapChnFork = s.mapChnFork /\ r.told = s.told
  /\ \A b : Heard(s, b) => Heard(r, b)
  /\ \A b \in r.stored \ r.quiet : b \in s.stored \ s.quiet \/ Heard(r, b)

\* Cached blocks that are handed to the dispatcher are stored and announced,
\* stored and quiet, or refused.
LEMMA AddNewBlocksGrow ==
  ASSUME NEW s \in Channel, NEW bs \in SUBSET Cached(s), NEW r \in AddNewBlocks(s, bs)
  PROVE  /\ r \in Channel /\ Grown(r, s)
         /\ r.mapChnBlock = s.mapChnBlock /\ r.mapChnPrevBlock = s.mapChnPrevBlock
         /\ r.nCacheBlockByteCount = s.nCacheBlockByteCount
  <1>1. PICK said, silent, q :
          /\ said \in SUBSET bs /\ silent \in SUBSET bs
          /\ q \in Ascending(said) /\ r = StoreBlocks(s, said, silent, q)
    <2> DEFINE open == {b \in bs : Addable(s, b)}
    <2>1. PICK said \in SUBSET open :
            r \in UNION {{StoreBlocks(s, said, silent, q) : q \in Ascending(said)} : silent \in SUBSET open}
      BY Zenon DEF AddNewBlocks
    <2>2. PICK silent \in SUBSET open : r \in {StoreBlocks(s, said, silent, q) : q \in Ascending(said)}
      BY <2>1, Zenon
    <2>3. said \in SUBSET bs /\ silent \in SUBSET bs
      BY Zenon
    <2> QED
      BY <2>2, <2>3, Zenon
  <1>2. /\ Cached(s) \in SUBSET Block /\ s.mapChnBlock \in [Cached(s) -> Peer]
        /\ said \in SUBSET Cached(s) /\ said \in SUBSET Block /\ silent \in SUBSET Block
    BY <1>1, CachedBlocks, Zenon
  <1> DEFINE n == Cardinality(said)
             e == [i \in DOMAIN q |-> Broadcast(q[i], s.mapChnBlock[q[i]])]
  <1>3. /\ n \in Nat /\ q \in [1..n -> said]
        /\ \A x \in said : \E i \in 1..n : q[i] = x
    BY <1>1, <1>2, AscendingLists, Zenon
  <1>4. \A b \in said : Broadcast(b, s.mapChnBlock[b]) \in Event
    <2>1. \A b \in said : b \in Block /\ s.mapChnBlock[b] \in Peer
      BY <1>2, Zenon
    <2> QED
      BY <2>1, Zenon DEF Event, Broadcast
  <1>5. e \in [1..n -> Event] /\ \A i \in 1..n : e[i] = Broadcast(q[i], s.mapChnBlock[q[i]])
    BY <1>3, <1>4, Zenon
  <1>6. e \in Seq(Event) /\ Len(e) = n
    <2> HIDE DEF e
    <2> QED
      BY <1>3, <1>5, FunctionIsSeq, Zenon
  <1>7. s.stored \in SUBSET Block /\ s.quiet \in SUBSET Block /\ s.queue \in Seq(Event)
    BY Zenon DEF Channel
  <1>8. s.queue \o e \in Seq(Event)
    BY <1>6, <1>7, SeqConcat, Zenon
  <1> DEFINE st == s.stored \cup said \cup silent
             qt == s.quiet \cup (silent \ said)
             qu == s.queue \o e
  <1>9. r = [s EXCEPT !.stored = st, !.quiet = qt, !.queue = qu]
    BY <1>1, Zenon DEF StoreBlocks
  <1>10. st \in SUBSET Block /\ qt \in SUBSET Block
    BY <1>2, <1>7, Zenon
  <1> HIDE DEF e, st, qt, qu
  <1>11. /\ r \in Channel /\ r.stored = st /\ r.quiet = qt /\ r.queue = qu
         /\ r.mapChnBlock = s.mapChnBlock /\ r.mapChnPrevBlock = s.mapChnPrevBlock
         /\ r.nCacheBlockByteCount = s.nCacheBlockByteCount
         /\ r.mapChnPeer = s.mapChnPeer /\ r.mapChnFork = s.mapChnFork /\ r.told = s.told
    BY <1>8, <1>9, <1>10, Zenon DEF Channel, qu
  <1>12. /\ \A b : Heard(s, b) => Heard(r, b)
         /\ \A i \in 1..n : e[i].type = "broadcast" => Heard(r, e[i].block)
    BY <1>6, <1>11, HeardConcat, Zenon DEF qu
  <1>13. \A b \in said : Heard(r, b)
    <2> SUFFICES ASSUME NEW b \in said PROVE Heard(r, b)
      BY Zenon
    <2>1. PICK i \in 1..n : q[i] = b
      BY <1>3, Zenon
    <2>2. e[i] = Broadcast(b, s.mapChnBlock[b])
      BY <1>5, <2>1, Zenon
    <2>3. e[i].type = "broadcast" /\ e[i].block = b
      BY <2>2 DEF Broadcast
    <2> QED
      BY <1>12, <2>3, Zenon
  <1>14. \A b \in r.stored \ r.quiet : b \in s.stored \ s.quiet \/ Heard(r, b)
    BY <1>11, <1>13, Zenon DEF st, qt
  <1>15. s.stored \subseteq r.stored /\ s.quiet \subseteq r.quiet
    BY <1>11, Zenon DEF st, qt
  <1> QED
    BY <1>11, <1>12, <1>14, <1>15, Zenon DEF Grown

\* After AddNextBlock no cached block follows b.
LEMMA AddNextGrows ==
  ASSUME NEW s \in Channel, CacheOf(s), NEW b, NEW t \in AddNextBlock(s, b)
  PROVE  /\ t \in Channel /\ CacheOf(t) /\ Grown(t, s)
         /\ Cached(t) \subseteq Cached(s) /\ \A x \in Cached(t) : Prev[x] # b
  <1> DEFINE next == {x \in Cached(s) : <<b, x>> \in s.mapChnPrevBlock}
  <1>1. PICK r \in AddNewBlocks(s, next) :
          t \in ClearCacheTimeout(RemoveCacheBlocks(RemoveCacheBlocks(r, next),
                                                    CachedChain(RemoveCacheBlocks(r, next), b)))
    BY Zenon DEF AddNextBlock
  <1> DEFINE r1 == RemoveCacheBlocks(r, next)
             r2 == RemoveCacheBlocks(r1, CachedChain(r1, b))
  <1>2. PICK old : t = RemoveCacheBlocks(r2, old)
    BY <1>1, Zenon DEF ClearCacheTimeout
  <1>3. \A x \in Cached(s) : Prev[x] = b => x \in next
    BY Zenon DEF CacheOf
  <1>4. next \in SUBSET Cached(s)
    BY Zenon
  <1> HIDE DEF next
  <1>5. /\ r \in Channel /\ Grown(r, s)
        /\ r.mapChnBlock = s.mapChnBlock /\ r.mapChnPrevBlock = s.mapChnPrevBlock
        /\ r.nCacheBlockByteCount = s.nCacheBlockByteCount
    BY <1>4, AddNewBlocksGrow, Zenon
  <1>6. CacheOf(r) /\ Cached(r) = Cached(s)
    BY <1>5, Zenon DEF CacheOf, Cached
  <1>7. r1 \in Channel /\ CacheOnly(r1, r) /\ CacheOf(r1) /\ Cached(r1) = Cached(r) \ next
    BY <1>5, <1>6, RemoveKeeps, Zenon
  <1> HIDE DEF r1
  <1>8. r2 \in Channel /\ CacheOnly(r2, r1) /\ CacheOf(r2) /\ Cached(r2) \subseteq Cached(r1)
    <2> DEFINE up == CachedChain(r1, b)
    <2> HIDE DEF up
    <2>1. LET t2 == RemoveCacheBlocks(r1, up)
          IN  t2 \in Channel /\ CacheOnly(t2, r1) /\ CacheOf(t2) /\ Cached(t2) = Cached(r1) \ up
      BY <1>7, RemoveKeeps, Zenon
    <2> QED
      BY <2>1, Zenon DEF up
  <1> HIDE DEF r2
  <1>9. t \in Channel /\ CacheOnly(t, r2) /\ CacheOf(t) /\ Cached(t) \subseteq Cached(r2)
    BY <1>2, <1>8, RemoveKeeps, ZenonT(30)
  <1>10. CacheOnly(t, r)
    BY <1>7, <1>8, <1>9, Zenon DEF CacheOnly
  <1>11. Grown(t, s)
    <2>1. \A x : Heard(r, x) <=> Heard(t, x)
      BY <1>10, Zenon DEF CacheOnly, Heard
    <2> QED
      BY <1>5, <1>10, <2>1, Zenon DEF CacheOnly, Grown
  <1>12. Cached(t) \subseteq Cached(s) \ next
    BY <1>6, <1>7, <1>8, <1>9, Zenon
  <1> QED
    BY <1>3, <1>9, <1>11, <1>12, Zenon
-----------------------------------------------------------------------------
(* The steps.                                                              *)

\* A block is announced in the queue or about to be.
LEMMA AnnouncedHeard ==
  \A b : /\ Announced(b) <=> b \in posting \/ Heard(c, b)
         /\ Announced(b)' <=> b \in posting' \/ Heard(c', b)
BY Zenon DEF Announced, Heard

\* NoneStranded is kept when the announcements are, or where they have been
\* used, and when what is newly stored is announced or quiet.
LEMMA NoneStrandedKept ==
  ASSUME NoneStranded, Cached(c') \subseteq Cached(c), c.stored \subseteq c'.stored,
         \A b \in c'.stored \ c'.quiet :
            b \in c.stored \ c.quiet \/ Announced(b)' \/ \A x \in Cached(c') : Prev[x] # b,
         \A b : Announced(b) => Announced(b)' \/ \A x \in Cached(c') : Prev[x] # b
  PROVE  NoneStranded'
BY Zenon DEF NoneStranded

\* NotOvertaken is kept with the announcements while the same block is handled.
LEMMA NotOvertakenKept ==
  ASSUME NotOvertaken,
         \/ handling' = NoBlock
         \/ /\ handling' = handling /\ \A b : Announced(b) => Announced(b)'
            /\ \A b \in c'.stored \ c'.quiet : b \in c.stored \ c.quiet \/ Announced(b)'
  PROVE  NotOvertaken'
<1>1. CASE handling' = NoBlock
  <2>1. handling'.op # "cache"
    BY <1>1, Zenon DEF NoBlock
  <2> QED
    BY <2>1, Zenon DEF NotOvertaken
<1>2. CASE handling' # NoBlock
  BY <1>2, Zenon DEF NotOvertaken
<1> QED
  BY <1>1, <1>2, Zenon

\* The fields of an event
LEMMA EventFields ==
  ASSUME NEW e \in Event
  PROVE  /\ e.type \in {"active", "deactive", "subscribe", "bks"} => e.peer \in Peer
         /\ e.type \in {"subscribe", "fork"} => e.fork \in Fork
         /\ e.type \in {"bks", "broadcast"} => e.block \in Block
BY Zenon DEF Event

\* What a channel shares with another one that only got or handled a message
SameChain(r, s) ==
  /\ r.stored = s.stored /\ r.quiet = s.quiet /\ r.mapChnBlock = s.mapChnBlock
  /\ r.mapChnPrevBlock = s.mapChnPrevBlock /\ r.nCacheBlockByteCount = s.nCacheBlockByteCount

\* ... it has the same cache.
LEMMA SameCache ==
  ASSUME NEW r, NEW s, SameChain(r, s), CacheOf(s)
  PROVE  CacheOf(r) /\ Cached(r) = Cached(s)
BY Zenon DEF SameChain, CacheOf, Cached

\* The head of a sequence
LEMMA SeqFirst ==
  ASSUME NEW S, NEW q \in Seq(S), q # << >>
  PROVE  q[1] = Head(q)
OBVIOUS

\* Taking the oldest event from the queue
LEMMA PopFields ==
  ASSUME c \in Channel, c.queue # << >>
  PROVE  /\ Pop \in Channel /\ SameChain(Pop, c) /\ Head(c.queue) \in Event
         /\ Pop.mapChnPeer = c.mapChnPeer /\ Pop.mapChnFork = c.mapChnFork /\ Pop.told = c.told
         /\ \A b : Heard(c, b) => \/ Heard(Pop, b)
                                  \/ Head(c.queue).type = "broadcast" /\ Head(c.queue).block = b
  <1>1. c.queue \in Seq(Event)
    BY Zenon DEF Channel
  <1>2. /\ Head(c.queue) \in Event /\ Tail(c.queue) \in Seq(Event) /\ Len(Tail(c.queue)) = Len(c.queue) - 1
        /\ \A i \in 1..Len(Tail(c.queue)) : Tail(c.queue)[i] = c.queue[i + 1]
    BY <1>1, SeqHeadTail, Zenon
  <1>3. /\ Pop \in Channel /\ SameChain(Pop, c) /\ Pop.queue = Tail(c.queue)
        /\ Pop.mapChnPeer = c.mapChnPeer /\ Pop.mapChnFork = c.mapChnFork /\ Pop.told = c.told
    BY <1>2, Zenon DEF Pop, Channel, SameChain
  <1>4. ASSUME NEW b, Heard(c, b)
        PROVE  \/ Heard(Pop, b)
               \/ Head(c.queue).type = "broadcast" /\ Head(c.queue).block = b
    <2>1. PICK i \in DOMAIN c.queue : c.queue[i].type = "broadcast" /\ c.queue[i].block = b
      BY <1>4, Zenon DEF Heard
    <2>2. /\ DOMAIN c.queue = 1..Len(c.queue) /\ Len(c.queue) \in Nat
          /\ DOMAIN Tail(c.queue) = 1..Len(Tail(c.queue)) /\ Len(Tail(c.queue)) \in Nat
      BY <1>1, <1>2, SeqFunction, Zenon
    <2>3. CASE i = 1
      <3>1. c.queue[1] = Head(c.queue)
        BY <1>1, SeqFirst, Zenon
      <3> QED
        BY <2>1, <2>3, <3>1, Zenon
    <2>4. CASE i # 1
      <3>1. i - 1 \in 1..Len(Tail(c.queue)) /\ (i - 1) + 1 = i
        BY <1>2, <2>2, <2>4
      <3>2. Tail(c.queue)[i - 1] = c.queue[i]
        BY <1>2, <3>1, Zenon
      <3>3. i - 1 \in DOMAIN Pop.queue /\ Pop.queue[i - 1] = c.queue[i]
        BY <1>3, <2>2, <3>1, <3>2, Zenon
      <3>4. Pop.queue[i - 1].type = "broadcast" /\ Pop.queue[i - 1].block = b
        BY <2>1, <3>3, Zenon
      <3> QED
        BY <3>3, <3>4, Zenon DEF Heard
    <2> QED
      BY <2>3, <2>4, Zenon
  <1> QED
    BY <1>2, <1>3, <1>4, Zenon

\* Putting an event behind the others
LEMMA AppendFields ==
  ASSUME NEW s \in Channel, NEW e \in Event
  PROVE  LET r == [s EXCEPT !.queue = Append(@, e)]
         IN  /\ r \in Channel /\ SameChain(r, s)
             /\ r.mapChnPeer = s.mapChnPeer /\ r.mapChnFork = s.mapChnFork /\ r.told = s.told
             /\ \A b : Heard(s, b) => Heard(r, b)
             /\ e.type = "broadcast" => Heard(r, e.block)
  <1> DEFINE q == Append(s.queue, e)
             r == [s EXCEPT !.queue = Append(@, e)]
  <1>1. s.queue \in Seq(Event)
    BY Zenon DEF Channel
  <1>2. /\ q \in Seq(Event) /\ Len(q) = Len(s.queue) + 1 /\ q[Len(s.queue) + 1] = e
        /\ \A i \in 1..Len(s.queue) : q[i] = s.queue[i]
    <2> DEFINE u == s.queue
    <2> HIDE DEF u
    <2>1. u \in Seq(Event)
      BY <1>1, Zenon DEF u
    <2>2. /\ Append(u, e) \in Seq(Event) /\ Len(Append(u, e)) = Len(u) + 1
          /\ \A i \in 1..Len(u) : Append(u, e)[i] = u[i]
          /\ Append(u, e)[Len(u) + 1] = e
      BY <2>1, SeqAppend
    <2> QED
      BY <2>2, Zenon DEF u
  <1>3. r = [s EXCEPT !.queue = q]
    BY Zenon
  <1> HIDE DEF q, r
  <1>4. /\ r \in Channel /\ SameChain(r, s) /\ r.queue = q
        /\ r.mapChnPeer = s.mapChnPeer /\ r.mapChnFork = s.mapChnFork /\ r.told = s.told
    BY <1>2, <1>3, Zenon DEF Channel, SameChain
  <1>5. /\ DOMAIN s.queue = 1..Len(s.queue) /\ Len(s.queue) \in Nat /\ DOMAIN q = 1..Len(q)
    BY <1>1, <1>2, SeqFunction, Zenon
  <1>6. /\ \A i \in DOMAIN s.queue : i \in DOMAIN q
        /\ Len(s.queue) + 1 \in DOMAIN q
    BY <1>2, <1>5
  <1> QED
    BY <1>2, <1>4, <1>5, <1>6, Zenon DEF Heard, r
\* An event that announces no block is taken from the queue.
LEMMA MessageTaken ==
  ASSUME ChannelInv, NEW type, type # "broadcast", Handles(type)
  PROVE  /\ Pop \in Channel /\ SameChain(Pop, c) /\ handling = NoBlock
         /\ Head(c.queue) \in Event /\ Head(c.queue).type = type
         /\ Pop.mapChnPeer = c.mapChnPeer /\ Pop.mapChnFork = c.mapChnFork /\ Pop.told = c.told
         /\ \A b : Heard(c, b) => Heard(Pop, b)
  <1>1. c \in Channel /\ c.queue # << >> /\ handling = NoBlock /\ Head(c.queue).type = type
    BY Zenon DEF ChannelInv, ChannelTypeOK, Handles
  <1> QED
    BY <1>1, PopFields, Zenon

\* A step that leaves chain and cache alone and loses no announcement
LEMMA MessageStep ==
  ASSUME ChannelInv, c' \in Channel, SameChain(c', c), \A b : Heard(c, b) => Heard(c', b),
         posting' = posting, handling' = handling \/ handling' = NoBlock
  PROVE  CacheOf(c') /\ NoneStranded' /\ NotOvertaken' /\ posting' \in SUBSET Block
  <1>1. CacheOf(c') /\ Cached(c') = Cached(c)
    BY SameCache, Zenon DEF ChannelInv
  <1>2. \A b : Announced(b) => Announced(b)'
    BY AnnouncedHeard, Zenon
  <1>3. c'.stored = c.stored /\ c'.quiet = c.quiet
    BY Zenon DEF SameChain
  <1>4. NoneStranded'
    BY <1>1, <1>2, <1>3, NoneStrandedKept, Zenon DEF ChannelInv
  <1>5. NotOvertaken'
    BY <1>2, <1>3, NotOvertakenKept, Zenon DEF ChannelInv
  <1> QED
    BY <1>1, <1>4, <1>5, Zenon DEF ChannelInv, ChannelTypeOK

\* The peers and the forks are left alone.
LEMMA ForksKept ==
  ASSUME ChannelInv, c'.mapChnPeer = c.mapChnPeer, c'.mapChnFork = c.mapChnFork, c'.told = c.told
  PROVE  ToldForks' /\ PeersTold'
BY Zenon DEF ChannelInv, ToldForks, PeersTold

\* The types of the peers and the forks
LEMMA ForkTypes ==
  ASSUME NEW s \in Channel
  PROVE  /\ s.mapChnPeer \in [DOMAIN s.mapChnPeer -> SUBSET Fork] /\ DOMAIN s.mapChnPeer \in SUBSET Peer
         /\ s.mapChnFork \in SUBSET Fork /\ s.told \in [Peer -> SUBSET Fork]
  <1>1. /\ s.mapChnPeer \in Partial(Peer, SUBSET Fork)
        /\ s.mapChnFork \in SUBSET Fork /\ s.told \in [Peer -> SUBSET Fork]
    BY Zenon DEF Channel
  <1> QED
    BY <1>1, Zenon DEF Partial

\* A channel with other peers and forks
LEMMA WithForks ==
  ASSUME NEW s \in Channel, NEW m \in Partial(Peer, SUBSET Fork), NEW f \in SUBSET Fork,
         NEW t \in [Peer -> SUBSET Fork]
  PROVE  LET r == [s EXCEPT !.mapChnPeer = m, !.mapChnFork = f, !.told = t]
         IN
         /\ r \in Channel /\ SameChain(r, s) /\ r.mapChnPeer = m /\ r.mapChnFork = f /\ r.told = t
         /\ \A b : Heard(s, b) => Heard(r, b)
  <1> DEFINE r == [s EXCEPT !.mapChnPeer = m, !.mapChnFork = f, !.told = t]
  <1>1. /\ r \in Channel /\ SameChain(r, s) /\ r.mapChnPeer = m /\ r.mapChnFork = f /\ r.told = t
        /\ r.queue = s.queue
    BY Zenon DEF Channel, SameChain
  <1> QED
    BY <1>1, Zenon DEF Heard

\* A message changes the peers to m, the forks to f and what was told to t.
LEMMA ForkStep ==
  ASSUME ChannelInv, NEW type, type # "broadcast", Handles(type),
         NEW m \in Partial(Peer, SUBSET Fork), NEW f \in SUBSET Fork, NEW t \in [Peer -> SUBSET Fork],
         c' = [Pop EXCEPT !.mapChnPeer = m, !.mapChnFork = f, !.told = t],
         UNCHANGED <<conn, handling, posting>>,
         \A p \in Peer : t[p] \subseteq f,
         \A p \in DOMAIN m : t[p] = f
  PROVE  ChannelInv'
  <1>1. /\ Pop \in Channel /\ SameChain(Pop, c) /\ \A b : Heard(c, b) => Heard(Pop, b)
    BY MessageTaken, Zenon
  <1>2. /\ c' \in Channel /\ SameChain(c', Pop) /\ c'.mapChnPeer = m /\ c'.mapChnFork = f /\ c'.told = t
        /\ \A b : Heard(Pop, b) => Heard(c', b)
    <2> DEFINE s == Pop
               r == [s EXCEPT !.mapChnPeer = m, !.mapChnFork = f, !.told = t]
    <2>1. s \in Channel /\ c' = r
      BY <1>1, Zenon
    <2> HIDE DEF s
    <2>2. /\ r \in Channel /\ SameChain(r, s) /\ r.mapChnPeer = m /\ r.mapChnFork = f /\ r.told = t
          /\ \A b : Heard(s, b) => Heard(r, b)
      BY <2>1, WithForks, Zenon
    <2> QED
      BY <2>1, <2>2, Zenon DEF s
  <1>3. SameChain(c', c)
    BY <1>1, <1>2, Zenon DEF SameChain
  <1>4. CacheOf(c') /\ NoneStranded' /\ NotOvertaken' /\ posting' \in SUBSET Block
    BY <1>1, <1>2, <1>3, MessageStep, Zenon
  <1>5. ToldForks' /\ PeersTold'
    BY <1>2, Zenon DEF ToldForks, PeersTold
  <1> QED
    BY <1>2, <1>4, <1>5, Zenon DEF ChannelInv, ChannelTypeOK
\* A peer that has come is asked for every fork.
LEMMA PeerActiveInv ==
  ASSUME ChannelInv, PeerActive
  PROVE  ChannelInv'
  <1> DEFINE p == Head(c.queue).peer
             m == [q \in DOMAIN c.mapChnPeer \cup {p} |-> IF q = p THEN {} ELSE c.mapChnPeer[q]]
             t == [c.told EXCEPT ![p] = @ \cup c.mapChnFork]
  <1>1. /\ Handles("active") /\ UNCHANGED <<conn, handling, posting>>
        /\ c' = [Pop EXCEPT !.mapChnPeer = [q \in DOMAIN @ \cup {p} |-> IF q = p THEN {} ELSE @[q]],
                            !.told[p] = @ \cup c.mapChnFork]
    BY Zenon DEF PeerActive
  <1>2. /\ Pop \in Channel /\ Head(c.queue) \in Event /\ Head(c.queue).type = "active"
        /\ Pop.mapChnPeer = c.mapChnPeer /\ Pop.mapChnFork = c.mapChnFork /\ Pop.told = c.told
    <2>1. "active" # "broadcast"
      BY Zenon
    <2> QED
      BY <1>1, <2>1, MessageTaken, Zenon
  <1>3. p \in Peer
    BY <1>2, EventFields, Zenon
  <1>4. /\ c.mapChnPeer \in [DOMAIN c.mapChnPeer -> SUBSET Fork] /\ DOMAIN c.mapChnPeer \in SUBSET Peer
        /\ c.mapChnFork \in SUBSET Fork /\ c.told \in [Peer -> SUBSET Fork]
    BY ForkTypes, Zenon DEF ChannelInv, ChannelTypeOK
  <1> HIDE DEF p
  <1>5. m \in [DOMAIN c.mapChnPeer \cup {p} -> SUBSET Fork] /\ t \in [Peer -> SUBSET Fork]
    BY <1>3, <1>4, Zenon
  <1>6. m \in Partial(Peer, SUBSET Fork)
    <2>1. DOMAIN c.mapChnPeer \cup {p} \in SUBSET Peer
      BY <1>3, <1>4, Zenon
    <2> HIDE DEF m
    <2> QED
      BY <1>5, <2>1, Zenon DEF Partial
  <1>7. \A q \in Peer : t[q] \subseteq c.mapChnFork
    BY <1>3, <1>4, Zenon DEF ChannelInv, ToldForks
  <1>8. \A q \in DOMAIN m : t[q] = c.mapChnFork
    BY <1>3, <1>4, Zenon DEF ChannelInv, ToldForks, PeersTold
  <1>9. c' = [Pop EXCEPT !.mapChnPeer = m, !.mapChnFork = c.mapChnFork, !.told = t]
    <2> DEFINE s == Pop
    <2> HIDE DEF s
    <2>1. c' = [s EXCEPT !.mapChnPeer = m, !.told = t]
      BY <1>1, <1>2, Zenon DEF s
    <2>2. s \in Channel /\ s.mapChnFork = c.mapChnFork
      BY <1>2, Zenon DEF s
    <2> HIDE DEF m, t
    <2>3. [s EXCEPT !.mapChnPeer = m, !.mapChnFork = s.mapChnFork, !.told = t]
            = [s EXCEPT !.mapChnPeer = m, !.told = t]
      BY <2>2, Zenon DEF Channel
    <2> QED
      BY <2>1, <2>2, <2>3, Zenon DEF s
  <1> HIDE DEF m, t
  <1> QED
    BY <1>1, <1>4, <1>5, <1>6, <1>7, <1>8, <1>9, ForkStep, ZenonT(30)
\* A peer that has left is forgotten.
LEMMA PeerDeactiveInv ==
  ASSUME ChannelInv, PeerDeactive
  PROVE  ChannelInv'
  <1> DEFINE D == DOMAIN c.mapChnPeer \ {Head(c.queue).peer}
             m == Restrict(c.mapChnPeer, D)
  <1>1. /\ Handles("deactive") /\ UNCHANGED <<conn, handling, posting>>
        /\ c' = [Pop EXCEPT !.mapChnPeer = Restrict(@, DOMAIN @ \ {Head(c.queue).peer})]
    BY Zenon DEF PeerDeactive
  <1>2. /\ Pop \in Channel /\ "deactive" # "broadcast"
        /\ Pop.mapChnPeer = c.mapChnPeer /\ Pop.mapChnFork = c.mapChnFork /\ Pop.told = c.told
    <2>1. "deactive" # "broadcast"
      BY Zenon
    <2> QED
      BY <1>1, <2>1, MessageTaken, Zenon
  <1>3. /\ c.mapChnPeer \in [DOMAIN c.mapChnPeer -> SUBSET Fork] /\ DOMAIN c.mapChnPeer \in SUBSET Peer
        /\ c.mapChnFork \in SUBSET Fork /\ c.told \in [Peer -> SUBSET Fork]
    BY ForkTypes, Zenon DEF ChannelInv, ChannelTypeOK
  <1>4. m \in [D -> SUBSET Fork] /\ D \in SUBSET Peer
    BY <1>3, Zenon DEF Restrict
  <1>5. m \in Partial(Peer, SUBSET Fork)
    BY <1>4, Zenon DEF Partial
  <1>6. \A q \in DOMAIN m : c.told[q] = c.mapChnFork
    BY <1>4, Zenon DEF ChannelInv, PeersTold
  <1>7. c' = [Pop EXCEPT !.mapChnPeer = m, !.mapChnFork = c.mapChnFork, !.told = c.told]
    <2> DEFINE s == Pop
    <2> HIDE DEF s
    <2>1. c' = [s EXCEPT !.mapChnPeer = m]
      BY <1>1, <1>2, Zenon DEF s
    <2>2. s \in Channel /\ s.mapChnFork = c.mapChnFork /\ s.told = c.told
      BY <1>2, Zenon DEF s
    <2> HIDE DEF m
    <2>3. [s EXCEPT !.mapChnPeer = m, !.mapChnFork = s.mapChnFork, !.told = s.told] = [s EXCEPT !.mapChnPeer = m]
      BY <2>2, Zenon DEF Channel
    <2> QED
      BY <2>1, <2>2, <2>3, Zenon DEF s
  <1>8. \A q \in Peer : c.told[q] \subseteq c.mapChnFork
    BY Zenon DEF ChannelInv, ToldForks
  <1> HIDE DEF m
  <1> QED
    BY <1>1, <1>2, <1>3, <1>5, <1>6, <1>7, <1>8, ForkStep, ZenonT(30)

\* A peer subscribes to a fork or unsubscribes.
LEMMA PeerSubscribeInv ==
  ASSUME ChannelInv, PeerSubscribe
  PROVE  ChannelInv'
  <1> DEFINE e == Head(c.queue)
             m == IF e.peer \in DOMAIN c.mapChnPeer
                  THEN [c.mapChnPeer EXCEPT ![e.peer] = IF e.on THEN @ \cup {e.fork} ELSE @ \ {e.fork}]
                  ELSE c.mapChnPeer
  <1>1. /\ Handles("subscribe") /\ UNCHANGED <<conn, handling, posting>>
        /\ c' = IF e.peer \in DOMAIN c.mapChnPeer
                THEN [Pop EXCEPT !.mapChnPeer[e.peer] = IF e.on THEN @ \cup {e.fork} ELSE @ \ {e.fork}]
                ELSE Pop
    BY Zenon DEF PeerSubscribe
  <1>2. /\ Pop \in Channel /\ "subscribe" # "broadcast" /\ e \in Event /\ e.type = "subscribe"
        /\ Pop.mapChnPeer = c.mapChnPeer /\ Pop.mapChnFork = c.mapChnFork /\ Pop.told = c.told
    <2>1. "subscribe" # "broadcast"
      BY Zenon
    <2> QED
      BY <1>1, <2>1, MessageTaken, Zenon
  <1>3. e.fork \in Fork
    BY <1>2, EventFields, Zenon
  <1>4. /\ c.mapChnPeer \in [DOMAIN c.mapChnPeer -> SUBSET Fork] /\ DOMAIN c.mapChnPeer \in SUBSET Peer
        /\ c.mapChnFork \in SUBSET Fork /\ c.told \in [Peer -> SUBSET Fork]
    BY ForkTypes, Zenon DEF ChannelInv, ChannelTypeOK
  <1> HIDE DEF e
  <1>5. m \in [DOMAIN c.mapChnPeer -> SUBSET Fork]
    <2>1. \A S \in SUBSET Fork : (IF e.on THEN S \cup {e.fork} ELSE S \ {e.fork}) \in SUBSET Fork
      BY <1>3, Zenon
    <2>2. CASE e.peer \in DOMAIN c.mapChnPeer
      <3>1. (IF e.on THEN c.mapChnPeer[e.peer] \cup {e.fork} ELSE c.mapChnPeer[e.peer] \ {e.fork}) \in SUBSET Fork
        BY <1>4, <2>1, <2>2, Zenon
      <3> QED
        BY <1>4, <2>2, <3>1, Zenon
    <2>3. CASE e.peer \notin DOMAIN c.mapChnPeer
      BY <1>4, <2>3, Zenon
    <2> QED
      BY <2>2, <2>3, Zenon
  <1>6. m \in Partial(Peer, SUBSET Fork)
    BY <1>4, <1>5, Zenon DEF Partial
  <1>7. \A q \in DOMAIN m : c.told[q] = c.mapChnFork
    <2> HIDE DEF m
    <2> QED
      BY <1>5, Zenon DEF ChannelInv, PeersTold
  <1>8. c' = [Pop EXCEPT !.mapChnPeer = m, !.mapChnFork = c.mapChnFork, !.told = c.told]
    <2> DEFINE s == Pop
    <2> HIDE DEF s
    <2>1. s \in Channel /\ s.mapChnPeer = c.mapChnPeer /\ s.mapChnFork = c.mapChnFork /\ s.told = c.told
      BY <1>2, Zenon DEF s
    <2>2. [s EXCEPT !.mapChnPeer = s.mapChnPeer] = s
      BY <2>1, Zenon DEF Channel
    <2>3. c' = [s EXCEPT !.mapChnPeer = m]
      BY <1>1, <2>1, <2>2, Zenon DEF s
    <2> HIDE DEF m
    <2>4. [s EXCEPT !.mapChnPeer = m, !.mapChnFork = s.mapChnFork, !.told = s.told] = [s EXCEPT !.mapChnPeer = m]
      BY <2>1, Zenon DEF Channel
    <2> QED
      BY <2>1, <2>3, <2>4, Zenon DEF s
  <1>9. \A q \in Peer : c.told[q] \subseteq c.mapChnFork
    BY Zenon DEF ChannelInv, ToldForks
  <1> HIDE DEF m
  <1> QED
    BY <1>1, <1>2, <1>4, <1>6, <1>7, <1>8, <1>9, ForkStep, Zenon

\* Every peer is asked for a new fork.
LEMMA LocalBlockSubscribeForkInv ==
  ASSUME ChannelInv, LocalBlockSubscribeFork
  PROVE  ChannelInv'
  <1> DEFINE f == Head(c.queue).fork
             g == c.mapChnFork \cup {f}
             t == [p \in Peer |-> IF p \in DOMAIN c.mapChnPeer THEN c.told[p] \cup {f} ELSE c.told[p]]
  <1>1. /\ Handles("fork") /\ UNCHANGED <<conn, handling, posting>>
        /\ c' = [Pop EXCEPT !.mapChnFork = @ \cup {f},
                            !.told = [p \in Peer |-> IF p \in DOMAIN c.mapChnPeer THEN @[p] \cup {f} ELSE @[p]]]
    BY Zenon DEF LocalBlockSubscribeFork
  <1>2. /\ Pop \in Channel /\ "fork" # "broadcast" /\ Head(c.queue) \in Event /\ Head(c.queue).type = "fork"
        /\ Pop.mapChnPeer = c.mapChnPeer /\ Pop.mapChnFork = c.mapChnFork /\ Pop.told = c.told
    <2>1. "fork" # "broadcast"
      BY Zenon
    <2> QED
      BY <1>1, <2>1, MessageTaken, Zenon
  <1>3. f \in Fork
    BY <1>2, EventFields, Zenon
  <1>4. /\ c.mapChnPeer \in [DOMAIN c.mapChnPeer -> SUBSET Fork] /\ DOMAIN c.mapChnPeer \in SUBSET Peer
        /\ c.mapChnFork \in SUBSET Fork /\ c.told \in [Peer -> SUBSET Fork]
    BY ForkTypes, Zenon DEF ChannelInv, ChannelTypeOK
  <1> HIDE DEF f
  <1>5. g \in SUBSET Fork /\ t \in [Peer -> SUBSET Fork]
    BY <1>3, <1>4, Zenon
  <1>6. c.mapChnPeer \in Partial(Peer, SUBSET Fork)
    BY <1>4, Zenon DEF Partial
  <1>7. \A q \in Peer : t[q] \subseteq g
    BY <1>4, Zenon DEF ChannelInv, ToldForks
  <1>8. \A q \in DOMAIN c.mapChnPeer : t[q] = g
    BY <1>4, Zenon DEF ChannelInv, PeersTold
  <1>9. c' = [Pop EXCEPT !.mapChnPeer = c.mapChnPeer, !.mapChnFork = g, !.told = t]
    <2> DEFINE s == Pop
    <2> HIDE DEF s
    <2>1. s \in Channel /\ s.mapChnPeer = c.mapChnPeer /\ s.mapChnFork = c.mapChnFork /\ s.told = c.told
      BY <1>2, Zenon DEF s
    <2>2. c' = [s EXCEPT !.mapChnFork = g, !.told = t]
      BY <1>1, <2>1, Zenon DEF s
    <2> HIDE DEF g, t
    <2>3. [s EXCEPT !.mapChnPeer = s.mapChnPeer, !.mapChnFork = g, !.told = t] = [s EXCEPT !.mapChnFork = g, !.told = t]
      BY <2>1, Zenon DEF Channel
    <2> QED
      BY <2>1, <2>2, <2>3, Zenon DEF s
  <1> HIDE DEF g, t
  <1> QED
    BY <1>1, <1>2, <1>5, <1>6, <1>7, <1>8, <1>9, ForkStep, Zenon
\* The chain is asked for the previous block and the block.
LEMMA PeerBlockBksInv ==
  ASSUME ChannelInv, PeerBlockBks
  PROVE  ChannelInv'
  <1> DEFINE e == Head(c.queue)
             cache == [op |-> "cache", block |-> e.block, peer |-> e.peer]
             add == [op |-> "add", block |-> e.block, peer |-> e.peer]
  <1>1. /\ Handles("bks") /\ c' = Pop /\ UNCHANGED <<conn, posting>>
        /\ handling' = IF Prev[e.block] \notin c.stored THEN cache
                       ELSE IF e.block \in c.stored THEN NoBlock ELSE add
    BY Zenon DEF PeerBlockBks
  <1>2. /\ Pop \in Channel /\ SameChain(Pop, c) /\ e \in Event /\ e.type = "bks"
        /\ Pop.mapChnPeer = c.mapChnPeer /\ Pop.mapChnFork = c.mapChnFork /\ Pop.told = c.told
        /\ \A b : Heard(c, b) => Heard(Pop, b)
    <2>1. "bks" # "broadcast"
      BY Zenon
    <2> QED
      BY <1>1, <2>1, MessageTaken, Zenon
  <1>3. e.block \in Block /\ e.peer \in Peer
    BY <1>2, EventFields, Zenon
  <1> HIDE DEF e
  <1>4. handling' \in {NoBlock} \cup [op : {"cache", "add"}, block : Block, peer : Peer]
    BY <1>1, <1>3, Zenon
  <1>5. NotOvertaken'
    <2>1. CASE Prev[e.block] \notin c.stored
      <3>1. handling'.block = e.block
        BY <1>1, <2>1, Zenon
      <3>2. Prev[e.block] \notin c'.stored
        BY <1>1, <1>2, <2>1, Zenon DEF SameChain
      <3> QED
        BY <3>1, <3>2, Zenon DEF NotOvertaken
    <2>2. CASE Prev[e.block] \in c.stored
      <3>1. handling'.op # "cache"
        BY <1>1, <2>2, Zenon DEF NoBlock
      <3> QED
        BY <3>1, Zenon DEF NotOvertaken
    <2> QED
      BY <2>1, <2>2, Zenon
  <1>6. CacheOf(c') /\ Cached(c') = Cached(c)
    BY <1>1, <1>2, SameCache, Zenon DEF ChannelInv
  <1>7. NoneStranded'
    <2>1. \A b : Announced(b) => Announced(b)'
      BY <1>1, <1>2, AnnouncedHeard, Zenon
    <2>2. c'.stored = c.stored /\ c'.quiet = c.quiet
      BY <1>1, <1>2, Zenon DEF SameChain
    <2> QED
      BY <1>6, <2>1, <2>2, NoneStrandedKept, Zenon DEF ChannelInv
  <1>8. ToldForks' /\ PeersTold'
    BY <1>1, <1>2, ForksKept, Zenon
  <1> QED
    BY <1>1, <1>2, <1>4, <1>5, <1>6, <1>7, <1>8, Zenon DEF ChannelInv, ChannelTypeOK

\* The block is cached; if its previous block was stored meanwhile, that one's
\* announcement is still to be handled.
LEMMA CacheBksInv ==
  ASSUME ChannelInv, CacheBks
  PROVE  ChannelInv'
  <1> DEFINE b == handling.block
             p == handling.peer
  <1>1. handling.op = "cache" /\ c' = AddCacheBlock(c, b, p) /\ handling' = NoBlock /\ UNCHANGED <<conn, posting>>
    BY Zenon DEF CacheBks
  <1>2. b \in Block /\ p \in Peer
    <2>1. handling \in {NoBlock} \cup [op : {"cache", "add"}, block : Block, peer : Peer]
      BY Zenon DEF ChannelInv, ChannelTypeOK
    <2> QED
      BY <1>1, <2>1 DEF NoBlock
  <1>3. c' \in Channel /\ CacheOnly(c', c) /\ CacheOf(c') /\ Cached(c') \subseteq Cached(c) \cup {b}
    <2> HIDE DEF b, p
    <2> QED
      BY <1>1, <1>2, AddCacheKeeps, Zenon DEF ChannelInv, ChannelTypeOK
  <1>4. \A x : Announced(x) <=> Announced(x)'
    BY <1>1, <1>3, Zenon DEF CacheOnly, Announced
  <1>5. NoneStranded'
    <2>1. Prev[b] \in c.stored \ c.quiet => Announced(Prev[b])
      BY <1>1, Zenon DEF ChannelInv, NotOvertaken
    <2> HIDE DEF b
    <2> QED
      BY <1>3, <1>4, <2>1, Zenon DEF ChannelInv, NoneStranded, CacheOnly
  <1>6. NotOvertaken'
    BY <1>1, NotOvertakenKept, Zenon DEF ChannelInv
  <1>7. ToldForks' /\ PeersTold'
    BY <1>3, ForksKept, Zenon DEF CacheOnly
  <1> QED
    BY <1>1, <1>3, <1>5, <1>6, <1>7, Zenon DEF ChannelInv, ChannelTypeOK
\* What the dispatcher answers for a block b of the peer p: it refuses it, stores
\* and announces it, or stores it only.
LEMMA AddNewBlockAnswers ==
  ASSUME NEW s \in Channel, NEW b \in Block, NEW p \in Peer, NEW a \in AddNewBlock(s, b, p)
  PROVE  LET e == Broadcast(b, p)
             silent == [s EXCEPT !.stored = @ \cup {b}, !.quiet = s.quiet \cup {b}]
             posted == [[s EXCEPT !.queue = Append(@, e)] EXCEPT !.stored = @ \cup {b}, !.quiet = s.quiet]
         IN  \/ a = <<s, FALSE>>
             \/ a = <<posted, TRUE>> \/ a = <<silent, TRUE>> \/ a = <<silent, FALSE>>
  <1> DEFINE e == Broadcast(b, p)
             st == [s EXCEPT !.stored = @ \cup {b}]
  <1>1. \/ a = <<s, FALSE>>
        \/ a = <<[st EXCEPT !.queue = Append(@, e)], TRUE>>
        \/ a = <<[st EXCEPT !.quiet = @ \cup {b}], TRUE>>
        \/ a = <<[st EXCEPT !.quiet = @ \cup {b}], FALSE>>
    BY Zenon DEF AddNewBlock
  <1> HIDE DEF e
  <1>2. [st EXCEPT !.queue = Append(@, e)]
          = [[s EXCEPT !.queue = Append(@, e)] EXCEPT !.stored = @ \cup {b}, !.quiet = s.quiet]
    BY Zenon DEF Channel
  <1>3. [st EXCEPT !.quiet = @ \cup {b}] = [s EXCEPT !.stored = @ \cup {b}, !.quiet = s.quiet \cup {b}]
    BY Zenon DEF Channel
  <1> QED
    BY <1>1, <1>2, <1>3, Zenon DEF e

\* The channel after the dispatcher has stored b
Storing(r, s, b) ==
  /\ r \in Channel /\ r.stored = s.stored \cup {b}
  /\ r.mapChnBlock = s.mapChnBlock /\ r.mapChnPrevBlock = s.mapChnPrevBlock
  /\ r.nCacheBlockByteCount = s.nCacheBlockByteCount
  /\ r.mapChnPeer = s.mapChnPeer /\ r.mapChnFork = s.mapChnFork /\ r.told = s.told
  /\ \A x : Heard(s, x) => Heard(r, x)

\* If the dispatcher has not refused b, it has stored it; if its answer is not
\* OK, it has not announced it.
LEMMA AddNewBlockStores ==
  ASSUME NEW s \in Channel, NEW b \in Block, NEW p \in Peer, NEW a \in AddNewBlock(s, b, p)
  PROVE  \/ a = <<s, FALSE>>
         \/ /\ Storing(a[1], s, b) /\ a[2] \in BOOLEAN
            /\ a[1].quiet \cup {b} = s.quiet \cup {b}
            /\ ~a[2] => a[1].quiet = s.quiet \cup {b}
  <1> DEFINE e == Broadcast(b, p)
             u == [s EXCEPT !.queue = Append(@, e)]
             silent == [s EXCEPT !.stored = @ \cup {b}, !.quiet = s.quiet \cup {b}]
             posted == [u EXCEPT !.stored = @ \cup {b}, !.quiet = s.quiet]
  <1>1. a = <<s, FALSE>> \/ a = <<posted, TRUE>> \/ a = <<silent, TRUE>> \/ a = <<silent, FALSE>>
    BY AddNewBlockAnswers, Zenon
  <1>2. s.quiet \in SUBSET Block
    BY Zenon DEF Channel
  <1>3. e \in Event
    BY Zenon DEF Event, Broadcast
  <1> HIDE DEF e
  <1>4. Storing(silent, s, b) /\ silent.quiet = s.quiet \cup {b}
    <2>1. s.quiet \cup {b} \in SUBSET Block
      BY <1>2, Zenon
    <2>2. /\ silent \in Channel /\ silent.stored = s.stored \cup {b} /\ silent.quiet = s.quiet \cup {b}
          /\ silent.queue = s.queue
          /\ silent.mapChnBlock = s.mapChnBlock /\ silent.mapChnPrevBlock = s.mapChnPrevBlock
          /\ silent.nCacheBlockByteCount = s.nCacheBlockByteCount
          /\ silent.mapChnPeer = s.mapChnPeer /\ silent.mapChnFork = s.mapChnFork /\ silent.told = s.told
      BY <2>1, Zenon DEF Channel
    <2> HIDE DEF silent
    <2> QED
      BY <2>2, Zenon DEF Storing, Heard
  <1>5. Storing(posted, s, b) /\ posted.quiet = s.quiet
    <2>1. /\ u \in Channel /\ SameChain(u, s)
          /\ u.mapChnPeer = s.mapChnPeer /\ u.mapChnFork = s.mapChnFork /\ u.told = s.told
          /\ \A x : Heard(s, x) => Heard(u, x)
      BY <1>3, AppendFields, Zenon
    <2> HIDE DEF u
    <2>2. /\ posted \in Channel /\ posted.stored = u.stored \cup {b} /\ posted.quiet = s.quiet
          /\ posted.queue = u.queue
          /\ posted.mapChnBlock = u.mapChnBlock /\ posted.mapChnPrevBlock = u.mapChnPrevBlock
          /\ posted.nCacheBlockByteCount = u.nCacheBlockByteCount
          /\ posted.mapChnPeer = u.mapChnPeer /\ posted.mapChnFork = u.mapChnFork /\ posted.told = u.told
      BY <1>2, <2>1, Zenon DEF Channel
    <2> HIDE DEF posted
    <2>3. \A x : Heard(u, x) => Heard(posted, x)
      BY <2>2, Zenon DEF Heard
    <2> QED
      BY <2>1, <2>2, <2>3, Zenon DEF Storing, SameChain
  <1> HIDE DEF silent, posted
  <1>6. CASE a = <<posted, TRUE>>
    <2>1. a[1] = posted /\ a[2] = TRUE
      BY <1>6, Zenon
    <2> QED
      BY <1>5, <2>1, Zenon
  <1>7. CASE a = <<silent, TRUE>>
    <2>1. a[1] = silent /\ a[2] = TRUE
      BY <1>7, Zenon
    <2> QED
      BY <1>4, <2>1, Zenon
  <1>8. CASE a = <<silent, FALSE>>
    <2>1. a[1] = silent /\ a[2] = FALSE
      BY <1>8, Zenon
    <2> QED
      BY <1>4, <2>1, Zenon
  <1> QED
    BY <1>1, <1>6, <1>7, <1>8, Zenon
\* The cached blocks that follow b are handed on after b was stored.
LEMMA NextAdded ==
  ASSUME NEW s \in Channel, CacheOf(s), NEW b, NEW a, Storing(a, s, b), a.quiet \cup {b} = s.quiet \cup {b},
         NEW t \in AddNextBlock([a EXCEPT !.quiet = @ \ {b}], b)
  PROVE  /\ t \in Channel /\ CacheOf(t) /\ Cached(t) \subseteq Cached(s) /\ s.stored \subseteq t.stored
         /\ t.mapChnPeer = s.mapChnPeer /\ t.mapChnFork = s.mapChnFork /\ t.told = s.told
         /\ \A x : Heard(s, x) => Heard(t, x)
         /\ \A x \in t.stored \ t.quiet : x \in s.stored \ s.quiet \/ Heard(t, x) \/ x = b
         /\ \A x \in Cached(t) : Prev[x] # b
  <1> DEFINE r == [a EXCEPT !.quiet = @ \ {b}]
  <1>1. a \in Channel /\ a.quiet \in SUBSET Block
    <2>1. a \in Channel
      BY Zenon DEF Storing
    <2> QED
      BY <2>1, Zenon DEF Channel
  <1>2. /\ r \in Channel /\ r.quiet = a.quiet \ {b} /\ r.stored = a.stored /\ r.queue = a.queue
        /\ r.mapChnBlock = a.mapChnBlock /\ r.mapChnPrevBlock = a.mapChnPrevBlock
        /\ r.nCacheBlockByteCount = a.nCacheBlockByteCount
        /\ r.mapChnPeer = a.mapChnPeer /\ r.mapChnFork = a.mapChnFork /\ r.told = a.told
    BY <1>1, Zenon DEF Channel
  <1>3. t \in AddNextBlock(r, b)
    BY Zenon
  <1> HIDE DEF r
  <1>4. CacheOf(r) /\ Cached(r) = Cached(s)
    BY <1>2, Zenon DEF Storing, CacheOf, Cached
  <1>5. /\ t \in Channel /\ CacheOf(t) /\ Grown(t, r)
        /\ Cached(t) \subseteq Cached(r) /\ \A x \in Cached(t) : Prev[x] # b
    BY <1>2, <1>3, <1>4, AddNextGrows, Zenon
  <1>6. \A x : Heard(a, x) => Heard(r, x)
    BY <1>2, Zenon DEF Heard
  <1>7. \A x \in t.stored \ t.quiet : x \in s.stored \ s.quiet \/ Heard(t, x) \/ x = b
    <2> SUFFICES ASSUME NEW x \in t.stored \ t.quiet, ~Heard(t, x), x # b PROVE x \in s.stored \ s.quiet
      BY Zenon
    <2>1. x \in r.stored \ r.quiet
      BY <1>5, Zenon DEF Grown
    <2>2. x \in a.stored /\ x \notin a.quiet
      BY <1>2, <2>1, Zenon
    <2>3. x \in s.stored
      BY <2>2, Zenon DEF Storing
    <2>4. x \notin s.quiet
      BY <2>2, Zenon
    <2> QED
      BY <2>3, <2>4, Zenon
  <1>8. s.stored \subseteq t.stored
    BY <1>2, <1>5, Zenon DEF Grown, Storing
  <1> QED
    BY <1>2, <1>4, <1>5, <1>6, <1>7, <1>8, Zenon DEF Grown, Storing

\* A block is handed to the dispatcher, and those that wait for it after it.
LEMMA AddBksInv ==
  ASSUME ChannelInv, AddBks
  PROVE  ChannelInv'
  <1> DEFINE b == handling.block
             p == handling.peer
  <1>1. /\ handling.op = "add" /\ handling' = NoBlock /\ UNCHANGED <<conn, posting>>
        /\ \E a \in AddNewBlock(c, b, p) :
              IF a[2] THEN c' \in AddNextBlock([a[1] EXCEPT !.quiet = @ \ {b}], b)
              ELSE c' = a[1]
    BY Zenon DEF AddBks
  <1>2. c \in Channel /\ CacheOf(c) /\ NoneStranded
    BY Zenon DEF ChannelInv, ChannelTypeOK
  <1>3. b \in Block /\ p \in Peer
    <2>1. handling \in {NoBlock} \cup [op : {"cache", "add"}, block : Block, peer : Peer]
      BY Zenon DEF ChannelInv, ChannelTypeOK
    <2> QED
      BY <1>1, <2>1 DEF NoBlock
  <1> HIDE DEF b, p
  <1>4. PICK a \in AddNewBlock(c, b, p) :
              IF a[2] THEN c' \in AddNextBlock([a[1] EXCEPT !.quiet = @ \ {b}], b)
              ELSE c' = a[1]
    BY <1>1, Zenon
  <1>5. \/ a = <<c, FALSE>>
        \/ /\ Storing(a[1], c, b) /\ a[2] \in BOOLEAN
           /\ a[1].quiet \cup {b} = c.quiet \cup {b}
           /\ ~a[2] => a[1].quiet = c.quiet \cup {b}
    BY <1>2, <1>3, AddNewBlockStores, ZenonT(30)
  <1> DEFINE Goal ==
         /\ c' \in Channel /\ CacheOf(c') /\ Cached(c') \subseteq Cached(c) /\ c.stored \subseteq c'.stored
         /\ c'.mapChnPeer = c.mapChnPeer /\ c'.mapChnFork = c.mapChnFork /\ c'.told = c.told
         /\ \A x : Heard(c, x) => Heard(c', x)
         /\ \A x \in c'.stored \ c'.quiet :
               \/ x \in c.stored \ c.quiet \/ Heard(c', x)
               \/ \A y \in Cached(c') : Prev[y] # x
  <1>6. ASSUME a = <<c, FALSE>> PROVE Goal
    <2>1. a[1] = c /\ a[2] = FALSE
      BY <1>6, Zenon
    <2>2. c' = c
      BY <1>4, <2>1, Zenon
    <2> QED
      BY <1>2, <2>2, Zenon
  <1>7. ASSUME a # <<c, FALSE>>, ~a[2] PROVE Goal
    <2>1. /\ c' = a[1] /\ Storing(c', c, b) /\ c'.quiet = c.quiet \cup {b}
      BY <1>4, <1>5, <1>7, Zenon
    <2>2. CacheOf(c') /\ Cached(c') = Cached(c)
      BY <1>2, <2>1, Zenon DEF Storing, CacheOf, Cached
    <2>3. \A x \in c'.stored \ c'.quiet : x \in c.stored \ c.quiet
      BY <2>1, Zenon DEF Storing
    <2> QED
      BY <2>1, <2>2, <2>3, Zenon DEF Storing
  <1>8. ASSUME a # <<c, FALSE>>, a[2] PROVE Goal
    <2>1. c' \in AddNextBlock([a[1] EXCEPT !.quiet = @ \ {b}], b)
      BY <1>4, <1>8, Zenon
    <2>2. Storing(a[1], c, b) /\ a[1].quiet \cup {b} = c.quiet \cup {b}
      BY <1>5, <1>8, Zenon
    <2> DEFINE d == a[1]
    <2> HIDE DEF d
    <2>3. /\ c' \in Channel /\ CacheOf(c') /\ Cached(c') \subseteq Cached(c) /\ c.stored \subseteq c'.stored
          /\ c'.mapChnPeer = c.mapChnPeer /\ c'.mapChnFork = c.mapChnFork /\ c'.told = c.told
          /\ \A x : Heard(c, x) => Heard(c', x)
          /\ \A x \in c'.stored \ c'.quiet : x \in c.stored \ c.quiet \/ Heard(c', x) \/ x = b
          /\ \A x \in Cached(c') : Prev[x] # b
      BY <1>2, <2>1, <2>2, NextAdded, Zenon
    <2> QED
      BY <2>3, Zenon
  <1>9. Goal
    BY <1>5, <1>6, <1>7, <1>8, Zenon
  <1>10. NoneStranded'
    BY <1>1, <1>2, <1>9, AnnouncedHeard, NoneStrandedKept, Zenon
  <1>11. NotOvertaken'
    BY <1>1, NotOvertakenKept, Zenon DEF ChannelInv
  <1>12. ToldForks' /\ PeersTold'
    BY <1>9, ForksKept, Zenon
  <1> QED
    BY <1>1, <1>9, <1>10, <1>11, <1>12, Zenon DEF ChannelInv, ChannelTypeOK
\* An announcement is handled: the cached blocks that follow its block go on.
LEMMA LocalBlockBroadcastBksInv ==
  ASSUME ChannelInv, LocalBlockBroadcastBks
  PROVE  ChannelInv'
  <1> DEFINE b == Head(c.queue).block
  <1>1. /\ handling = NoBlock /\ c.queue # << >> /\ UNCHANGED <<conn, handling, posting>>
        /\ c' \in AddNextBlock(Pop, b)
    BY Zenon DEF LocalBlockBroadcastBks, Handles
  <1>2. c \in Channel /\ CacheOf(c) /\ NoneStranded
    BY Zenon DEF ChannelInv, ChannelTypeOK
  <1>3. /\ Pop \in Channel /\ SameChain(Pop, c)
        /\ Pop.mapChnPeer = c.mapChnPeer /\ Pop.mapChnFork = c.mapChnFork /\ Pop.told = c.told
        /\ \A x : Heard(c, x) => Heard(Pop, x) \/ x = b
    BY <1>1, <1>2, PopFields, Zenon
  <1>4. CacheOf(Pop) /\ Cached(Pop) = Cached(c)
    BY <1>2, <1>3, SameCache, Zenon
  <1>5. /\ c' \in Channel /\ CacheOf(c') /\ Grown(c', Pop)
        /\ Cached(c') \subseteq Cached(Pop) /\ \A x \in Cached(c') : Prev[x] # b
    BY <1>1, <1>3, <1>4, AddNextGrows, Zenon
  <1> HIDE DEF b
  <1>6. \A x : Announced(x) => Announced(x)' \/ \A y \in Cached(c') : Prev[y] # x
    BY <1>1, <1>3, <1>5, AnnouncedHeard, Zenon DEF Grown
  <1>7. \A x \in c'.stored \ c'.quiet : x \in c.stored \ c.quiet \/ Announced(x)'
    BY <1>3, <1>5, AnnouncedHeard, Zenon DEF Grown, SameChain
  <1>8. c.stored \subseteq c'.stored
    BY <1>3, <1>5, Zenon DEF Grown, SameChain
  <1>9. NoneStranded'
    BY <1>2, <1>4, <1>5, <1>6, <1>7, <1>8, NoneStrandedKept, Zenon
  <1>10. NotOvertaken'
    BY <1>1, NotOvertakenKept, Zenon DEF ChannelInv
  <1>11. ToldForks' /\ PeersTold'
    BY <1>3, <1>5, ForksKept, Zenon DEF Grown
  <1> QED
    BY <1>1, <1>5, <1>9, <1>10, <1>11, Zenon DEF ChannelInv, ChannelTypeOK

\* An event is put into the queue.
LEMMA PostInv ==
  ASSUME ChannelInv, NEW e \in Event, Post(e), conn' \in [Peer -> {"new", "open", "closed"}]
  PROVE  ChannelInv'
  <1>1. c' = [c EXCEPT !.queue = Append(@, e)] /\ UNCHANGED <<handling, posting>> /\ c \in Channel
    BY Zenon DEF Post, ChannelInv, ChannelTypeOK
  <1>2. /\ c' \in Channel /\ SameChain(c', c)
        /\ c'.mapChnPeer = c.mapChnPeer /\ c'.mapChnFork = c.mapChnFork /\ c'.told = c.told
        /\ \A b : Heard(c, b) => Heard(c', b)
    BY <1>1, AppendFields, Zenon
  <1>3. CacheOf(c') /\ NoneStranded' /\ NotOvertaken' /\ posting' \in SUBSET Block
    BY <1>1, <1>2, MessageStep, Zenon
  <1>4. ToldForks' /\ PeersTold'
    BY <1>2, ForksKept, Zenon
  <1> QED
    BY <1>1, <1>2, <1>3, <1>4, Zenon DEF ChannelInv, ChannelTypeOK

\* Peers come, leave and send, and a fork is activated.
LEMMA PeersInv ==
  ASSUME ChannelInv,
         \/ \E p \in Peer : PeerConnects(p) \/ PeerLeaves(p) \/ PeerSends(p)
         \/ \E f \in Fork : SubscribeFork(f)
  PROVE  ChannelInv'
  <1>1. conn \in [Peer -> {"new", "open", "closed"}]
    BY Zenon DEF ChannelInv, ChannelTypeOK
  <1>2. ASSUME NEW p \in Peer, PeerConnects(p) PROVE ChannelInv'
    <2>1. [type |-> "active", peer |-> p] \in Event
      BY Zenon DEF Event
    <2>2. conn' \in [Peer -> {"new", "open", "closed"}]
      BY <1>1, <1>2, Zenon DEF PeerConnects
    <2> QED
      BY <1>2, <2>1, <2>2, PostInv, Zenon DEF PeerConnects
  <1>3. ASSUME NEW p \in Peer, PeerLeaves(p) PROVE ChannelInv'
    <2>1. [type |-> "deactive", peer |-> p] \in Event
      BY Zenon DEF Event
    <2>2. conn' \in [Peer -> {"new", "open", "closed"}]
      BY <1>1, <1>3, Zenon DEF PeerLeaves
    <2> QED
      BY <1>3, <2>1, <2>2, PostInv, Zenon DEF PeerLeaves
  <1>4. ASSUME NEW p \in Peer, PeerSends(p) PROVE ChannelInv'
    <2>1. conn' = conn
      BY <1>4, Zenon DEF PeerSends
    <2>2. ASSUME NEW b \in Block \ Stored, Post([type |-> "bks", block |-> b, peer |-> p])
          PROVE  ChannelInv'
      <3>1. [type |-> "bks", block |-> b, peer |-> p] \in Event
        BY Zenon DEF Event
      <3> QED
        BY <1>1, <2>1, <2>2, <3>1, PostInv, Zenon
    <2>3. ASSUME NEW f \in Fork, NEW on \in BOOLEAN,
                 Post([type |-> "subscribe", peer |-> p, fork |-> f, on |-> on])
          PROVE  ChannelInv'
      <3>1. [type |-> "subscribe", peer |-> p, fork |-> f, on |-> on] \in Event
        BY Zenon DEF Event
      <3> QED
        BY <1>1, <2>1, <2>3, <3>1, PostInv, Zenon
    <2> QED
      BY <1>4, <2>2, <2>3, Zenon DEF PeerSends
  <1>5. ASSUME NEW f \in Fork, SubscribeFork(f) PROVE ChannelInv'
    <2>1. [type |-> "fork", fork |-> f] \in Event
      BY Zenon DEF Event
    <2> QED
      BY <1>1, <1>5, <2>1, PostInv, Zenon DEF SubscribeFork
  <1> QED
    BY <1>2, <1>3, <1>4, <1>5, Zenon
\* Another thread stores a block: its announcement follows, or it is quiet.
LEMMA StoreBlockInv ==
  ASSUME ChannelInv, NEW b \in Block, StoreBlock(b)
  PROVE  ChannelInv'
  <1>1. c \in Channel /\ CacheOf(c) /\ posting \in SUBSET Block
    BY Zenon DEF ChannelInv, ChannelTypeOK
  <1>2. /\ UNCHANGED <<conn, handling>>
        /\ \/ c' = [c EXCEPT !.stored = @ \cup {b}] /\ posting' = posting \cup {b}
           \/ c' = [c EXCEPT !.stored = @ \cup {b}, !.quiet = @ \cup {b}] /\ posting' = posting
    BY Zenon DEF StoreBlock
  <1>3. c.stored \in SUBSET Block /\ c.quiet \in SUBSET Block
    BY <1>1, Zenon DEF Channel
  <1>4. /\ c' \in Channel /\ c'.queue = c.queue /\ c'.mapChnBlock = c.mapChnBlock
        /\ c'.mapChnPrevBlock = c.mapChnPrevBlock /\ c'.nCacheBlockByteCount = c.nCacheBlockByteCount
        /\ c'.mapChnPeer = c.mapChnPeer /\ c'.mapChnFork = c.mapChnFork /\ c'.told = c.told
        /\ c'.stored = c.stored \cup {b} /\ posting' \in SUBSET Block
        /\ \/ c'.quiet = c.quiet /\ posting' = posting \cup {b}
           \/ c'.quiet = c.quiet \cup {b} /\ posting' = posting
    <2>1. CASE c' = [c EXCEPT !.stored = @ \cup {b}] /\ posting' = posting \cup {b}
      BY <1>1, <1>3, <2>1, Zenon DEF Channel
    <2>2. CASE c' = [c EXCEPT !.stored = @ \cup {b}, !.quiet = @ \cup {b}] /\ posting' = posting
      BY <1>1, <1>3, <2>2, Zenon DEF Channel
    <2> QED
      BY <1>2, <2>1, <2>2, Zenon
  <1>5. CacheOf(c') /\ Cached(c') = Cached(c)
    BY <1>1, <1>4, Zenon DEF CacheOf, Cached
  <1>6. \A x : Announced(x) => Announced(x)'
    BY <1>4, Zenon DEF Announced
  <1>7. \A x \in c'.stored \ c'.quiet : x \in c.stored \ c.quiet \/ Announced(x)'
    BY <1>4, Zenon DEF Announced
  <1>8. NoneStranded'
    BY <1>4, <1>5, <1>6, <1>7, NoneStrandedKept, Zenon DEF ChannelInv
  <1>9. NotOvertaken'
    BY <1>2, <1>6, <1>7, NotOvertakenKept, Zenon DEF ChannelInv
  <1>10. ToldForks' /\ PeersTold'
    BY <1>4, ForksKept, Zenon
  <1> QED
    BY <1>2, <1>4, <1>5, <1>8, <1>9, <1>10, Zenon DEF ChannelInv, ChannelTypeOK

\* Another thread announces the block it has stored.
LEMMA BroadcastBlockInv ==
  ASSUME ChannelInv, NEW b \in Block, BroadcastBlock(b)
  PROVE  ChannelInv'
  <1> DEFINE e == Broadcast(b, 0)
  <1>1. /\ c' = [c EXCEPT !.queue = Append(@, e)] /\ posting' = posting \ {b}
        /\ UNCHANGED <<conn, handling>> /\ c \in Channel /\ CacheOf(c) /\ posting \in SUBSET Block
    BY Zenon DEF BroadcastBlock, ChannelInv, ChannelTypeOK
  <1>2. e \in Event /\ e.type = "broadcast" /\ e.block = b
    BY Zenon DEF Event, Broadcast
  <1> HIDE DEF e
  <1>3. /\ c' \in Channel /\ SameChain(c', c)
        /\ c'.mapChnPeer = c.mapChnPeer /\ c'.mapChnFork = c.mapChnFork /\ c'.told = c.told
        /\ \A x : Heard(c, x) => Heard(c', x)
        /\ Heard(c', b)
    BY <1>1, <1>2, AppendFields, Zenon
  <1>4. CacheOf(c') /\ Cached(c') = Cached(c)
    BY <1>1, <1>3, SameCache, Zenon
  <1>5. \A x : Announced(x) => Announced(x)'
    BY <1>1, <1>3, AnnouncedHeard, Zenon
  <1>6. c'.stored = c.stored /\ c'.quiet = c.quiet
    BY <1>3, Zenon DEF SameChain
  <1>7. NoneStranded'
    BY <1>4, <1>5, <1>6, NoneStrandedKept, Zenon DEF ChannelInv
  <1>8. NotOvertaken'
    BY <1>1, <1>5, <1>6, NotOvertakenKept, Zenon DEF ChannelInv
  <1>9. ToldForks' /\ PeersTold'
    BY <1>3, ForksKept, Zenon
  <1> QED
    BY <1>1, <1>3, <1>4, <1>7, <1>8, <1>9, Zenon DEF ChannelInv, ChannelTypeOK

\* The channel starts without peers, forks and cached blocks.
LEMMA ChannelInitInv ==
  ASSUME Init
  PROVE  ChannelInv
  <1>1. /\ c = [stored |-> Stored, queue |-> << >>, mapChnBlock |-> << >>, mapChnPrevBlock |-> {},
                nCacheBlockByteCount |-> 0, mapChnPeer |-> << >>, mapChnFork |-> {},
                quiet |-> {}, told |-> [p \in Peer |-> {}]]
        /\ conn = [p \in Peer |-> "new"] /\ handling = NoBlock /\ posting = {}
    BY Zenon DEF Init
  <1>2. \A A, B : << >> \in Partial(A, B)
    <2>1. \A B : << >> \in [{} -> B]
      OBVIOUS
    <2> QED
      BY <2>1, Zenon DEF Partial
  <1>3. << >> \in Seq(Event) /\ Stored \in SUBSET Block
    BY ChannelAssumption, SeqEmpty, Zenon
  <1>4. c \in Channel
    BY <1>1, <1>2, <1>3, Zenon DEF Channel
  <1>5. /\ c.mapChnBlock = << >> /\ c.mapChnPrevBlock = {} /\ c.nCacheBlockByteCount = 0
        /\ c.mapChnPeer = << >> /\ c.mapChnFork = {} /\ c.told = [p \in Peer |-> {}]
    BY <1>1, Zenon
  <1>6. Cached(c) = {} /\ DOMAIN c.mapChnPeer = {}
    <2>1. DOMAIN << >> = {}
      OBVIOUS
    <2> QED
      BY <1>5, <2>1, Zenon DEF Cached
  <1>7. CacheOf(c)
    <2>1. Cardinality({}) = 0 /\ Bytes({}) = 0
      BY FS_EmptySet, BytesOne, Zenon
    <2>2. 0 <= MAX_CACHE_CHN_BLOCK_COUNT
      BY ChannelAssumption
    <2> QED
      BY <1>5, <1>6, <2>1, <2>2, Zenon DEF CacheOf
  <1>8. handling.op # "cache"
    BY <1>1, Zenon DEF NoBlock
  <1>9. NotOvertaken /\ NoneStranded /\ ToldForks /\ PeersTold
    BY <1>5, <1>6, <1>8, Zenon DEF NotOvertaken, NoneStranded, ToldForks, PeersTold
  <1>10. conn \in [Peer -> {"new", "open", "closed"}]
    BY <1>1, Zenon
  <1> QED
    BY <1>1, <1>4, <1>7, <1>9, <1>10, Zenon DEF ChannelInv, ChannelTypeOK

\* No step of the channel, of a peer or of another thread breaks the invariant.
LEMMA ChannelNextInv ==
  ASSUME ChannelInv, [Next]_vars
  PROVE  ChannelInv'
  <1>1. CASE UNCHANGED vars
    BY <1>1, Zenon DEF vars, ChannelInv, ChannelTypeOK, CacheOf, Cached, NotOvertaken, NoneStranded, Announced,
                ToldForks, PeersTold
  <1>2. CASE Next
    BY <1>2, PeerActiveInv, PeerDeactiveInv, PeerSubscribeInv, PeerBlockBksInv, CacheBksInv, AddBksInv,
       LocalBlockSubscribeForkInv, LocalBlockBroadcastBksInv, PeersInv, StoreBlockInv, BroadcastBlockInv,
       Zenon DEF Next
  <1> QED
    BY <1>1, <1>2, Zenon

\* Every state of the channel has the invariant.
LEMMA ChannelInvariant == Spec => []ChannelInv
<1>1. Init => ChannelInv
  BY ChannelInitInv, Zenon
<1>2. ChannelInv /\ [Next]_vars => ChannelInv'
  BY ChannelNextInv, Zenon
<1> QED
  BY <1>1, <1>2, PTL DEF Spec

\* For any finite set of blocks, any limits, peers and forks: the maps of the
\* cache agree and keep its limits, a cached block whose previous block was
\* stored and announced by any thread has an event on its way that will add
\* it, and every connected peer was asked for every fork (CBlockChannel).
THEOREM BlocksArePassedOn == Spec => []BlocksPassOn
<1>1. ChannelInv => BlocksPassOn
  <2> SUFFICES ASSUME ChannelInv PROVE BlocksPassOn
    BY Zenon
  <2>1. Cached(c) \in SUBSET Block
    BY CachedBlocks, Zenon DEF ChannelInv, ChannelTypeOK
  <2> QED
    BY <2>1, Zenon DEF ChannelInv, BlocksPassOn, CacheKept, CacheOf
<1> QED
  BY <1>1, ChannelInvariant, PTL
=============================================================================

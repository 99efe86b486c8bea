---------------------------- MODULE BlockChannel ----------------------------
(***************************************************************************)
(* CBlockChannel: new blocks are passed on to the peers that subscribed to *)
(* their fork, and a block that arrives before its previous block waits in *)
(* a cache.  The channel handles its events one by one in a thread of its  *)
(* own; blocks are stored by other threads too, and the dispatcher posts   *)
(* an event to the channel for each one that became the last of its fork.  *)
(* Hashes are numbers; the order in which the maps keep them says nothing  *)
(* of the height of a block.                                               *)
(***************************************************************************)
EXTENDS Integers, FiniteSets, Sequences, Functions

CONSTANTS Block,      \* block hashes, natural numbers
          Stored,     \* those that are stored at the start
          Prev,       \* the previous block of each
          Valid,      \* the blocks that can pass the validation
          Size,       \* the bytes of each
          Fork,       \* the forks that may be subscribed to
          Peer,       \* the nonces of the peers, each used once
          MAX_CACHE_CHN_BLOCK_COUNT,
          MAX_CACHE_CHN_BLOCK_SIZE,
          MaxEvents   \* bound on the events of peers that wait

ASSUME ChannelAssumption ==
  /\ Block \subseteq Nat /\ IsFiniteSet(Block) /\ Stored \subseteq Block
  /\ \A b \in Block : Prev[b] \in Nat /\ Size[b] \in Nat
  /\ Peer \subseteq Nat \ {0}
  /\ MAX_CACHE_CHN_BLOCK_COUNT \in Nat \ {0} /\ MAX_CACHE_CHN_BLOCK_SIZE \in Nat \ {0}
  /\ MaxEvents \in Nat

VARIABLES c,        \* the channel with what it shares, a record:
          conn,     \* the connection of each peer: "new", "open", "closed"
          handling, \* a block event between its first and its second half
          posting   \* blocks that another thread has stored and not yet posted

\* c.stored: the blocks of the chain; c.queue: the events of the channel;
\* c.mapChnBlock: the cached blocks, each with the peer it came from;
\* c.mapChnPrevBlock: pairs of a previous block and a cached block;
\* c.nCacheBlockByteCount; c.mapChnPeer: the forks that each peer subscribed
\* to; c.mapChnFork.  History: c.quiet, the blocks that were stored and not
\* announced; c.told, the forks that each peer was asked for.

vars == <<c, conn, handling, posting>>

NoBlock == [op |-> "none"]

Init ==
  /\ c = [stored |-> Stored, queue |-> << >>, mapChnBlock |-> << >>, mapChnPrevBlock |-> {},
          nCacheBlockByteCount |-> 0, mapChnPeer |-> << >>, mapChnFork |-> {},
          quiet |-> {}, told |-> [p \in Peer |-> {}]]
  /\ conn = [p \in Peer |-> "new"]
  /\ handling = NoBlock
  /\ posting = {}

Cached(s) == DOMAIN s.mapChnBlock

(***************************************************************************)
(* CDispatcher::AddNewBlock, as the channel sees it                        *)
(***************************************************************************)

\* The dispatcher can store b: its previous block is, b is not, and b is valid
Addable(s, b) == Prev[b] \in s.stored /\ b \notin s.stored /\ b \in Valid

Broadcast(b, p) == [type |-> "broadcast", block |-> b, peer |-> p]

\* Refused; stored and announced; stored beside the long chain; stored, and
\* the transaction pool could not follow.  The results with their return value.
AddNewBlock(s, b, p) ==
  LET stored == [s EXCEPT !.stored = @ \cup {b}]
      silent == [stored EXCEPT !.quiet = @ \cup {b}]
      posted == [stored EXCEPT !.queue = Append(@, Broadcast(b, p))]
  IN  {<<s, FALSE>>} \cup
      (IF Addable(s, b) THEN {<<posted, TRUE>>, <<silent, TRUE>>, <<silent, FALSE>>} ELSE {})

\* The blocks of bs in the order of their hashes
Ascending(bs) ==
  {q \in [1..Cardinality(bs) -> bs] : \A i, j \in 1..Cardinality(bs) : i < j => q[i] < q[j]}

\* The blocks said are stored and announced in the order of q, the other ones of
\* silent are stored
StoreBlocks(s, said, silent, q) ==
  [s EXCEPT !.stored = @ \cup said \cup silent,
            !.quiet = @ \cup (silent \ said),
            !.queue = @ \o [i \in DOMAIN q |-> Broadcast(q[i], s.mapChnBlock[q[i]])]]

\* Cached blocks with one previous block are handed to the dispatcher in turn:
\* some are stored and announced, some stored and not, the others refused
AddNewBlocks(s, bs) ==
  LET open == {b \in bs : Addable(s, b)}
  IN  UNION {UNION {{StoreBlocks(s, said, silent, q) : q \in Ascending(said)} :
                    silent \in SUBSET open} : said \in SUBSET open}

(***************************************************************************)
(* The cache                                                               *)
(***************************************************************************)

\* The bytes of the blocks bs, counted as pairs of a block and a place in it
Bytes(bs) == Cardinality(UNION {{b} \X (1..Size[b]) : b \in bs})

\* RemoveCacheBlock for each of bs
RemoveCacheBlocks(s, bs) ==
  LET gone == bs \cap Cached(s)
      rest == Cached(s) \ bs
  IN  IF gone = {} THEN s
      ELSE [s EXCEPT !.mapChnBlock = Restrict(@, rest),
                     !.mapChnPrevBlock = IF rest = {} THEN {} ELSE @ \ {<<Prev[b], b>> : b \in gone},
                     !.nCacheBlockByteCount = IF rest = {} THEN 0 ELSE @ - Bytes(gone)]

Full(s) ==
  \/ Cardinality(Cached(s)) >= MAX_CACHE_CHN_BLOCK_COUNT
  \/ s.nCacheBlockByteCount >= MAX_CACHE_CHN_BLOCK_SIZE /\ Cached(s) # {}

\* The first block of the map is evicted until there is room: those without
\* whose predecessors in the map the cache is still full
MakeRoom(s) ==
  RemoveCacheBlocks(s, {b \in Cached(s) : Full(RemoveCacheBlocks(s, {x \in Cached(s) : x < b}))})

AddCacheBlock(s, b, p) ==
  IF b \in Cached(s) THEN s
  ELSE LET r == MakeRoom(s)
       IN  [r EXCEPT !.mapChnBlock = [x \in Cached(r) \cup {b} |-> IF x = b THEN p ELSE r.mapChnBlock[x]],
                     !.mapChnPrevBlock = @ \cup {<<Prev[b], b>>},
                     !.nCacheBlockByteCount = @ + Size[b]]

\* b with the cached blocks below it, as far as they are cached without a gap
CachedChain(s, b) ==
  LET up[x \in Block] == IF x \notin Cached(s) THEN {}
                         ELSE {x} \cup (IF Prev[x] \in Block THEN up[Prev[x]] ELSE {})
  IN  up[b]

\* Any may have been cached for a day, or the last look is not a minute ago
ClearCacheTimeout(s) == {RemoveCacheBlocks(s, old) : old \in SUBSET Cached(s)}

\* The cached blocks that follow b are handed to the dispatcher and leave the
\* cache, whatever it answers; then b and the cached blocks below it leave
AddNextBlock(s, b) ==
  LET next == {x \in Cached(s) : <<b, x>> \in s.mapChnPrevBlock}
      removed == {RemoveCacheBlocks(r, next) : r \in AddNewBlocks(s, next)}
  IN  UNION {ClearCacheTimeout(RemoveCacheBlocks(r, CachedChain(r, b))) : r \in removed}

(***************************************************************************)
(* The events of the channel                                               *)
(***************************************************************************)
Handles(type) == handling = NoBlock /\ c.queue # << >> /\ Head(c.queue).type = type

Pop == [c EXCEPT !.queue = Tail(@)]

\* CEventPeerActive: the peer is asked for every fork of this node
PeerActive ==
  /\ Handles("active")
  /\ LET p == Head(c.queue).peer
     IN  c' = [Pop EXCEPT !.mapChnPeer = [q \in DOMAIN @ \cup {p} |-> IF q = p THEN {} ELSE @[q]],
                          !.told[p] = @ \cup c.mapChnFork]
  /\ UNCHANGED <<conn, handling, posting>>

PeerDeactive ==
  /\ Handles("deactive")
  /\ c' = [Pop EXCEPT !.mapChnPeer = Restrict(@, DOMAIN @ \ {Head(c.queue).peer})]
  /\ UNCHANGED <<conn, handling, posting>>

\* CEventPeerBlockSubscribe and CEventPeerBlockUnsubscribe
PeerSubscribe ==
  /\ Handles("subscribe")
  /\ LET e == Head(c.queue)
     IN  c' = IF e.peer \in DOMAIN c.mapChnPeer
              THEN [Pop EXCEPT !.mapChnPeer[e.peer] = IF e.on THEN @ \cup {e.fork} ELSE @ \ {e.fork}]
              ELSE Pop
  /\ UNCHANGED <<conn, handling, posting>>

\* CEventPeerBlockBks: the chain is asked for the previous block and the block
PeerBlockBks ==
  /\ Handles("bks")
  /\ LET e == Head(c.queue)
     IN  handling' = IF Prev[e.block] \notin c.stored THEN [op |-> "cache", block |-> e.block, peer |-> e.peer]
                     ELSE IF e.block \in c.stored THEN NoBlock
                     ELSE [op |-> "add", block |-> e.block, peer |-> e.peer]
  /\ c' = Pop
  /\ UNCHANGED <<conn, posting>>

\* ... and the block is cached
CacheBks ==
  /\ handling.op = "cache"
  /\ c' = AddCacheBlock(c, handling.block, handling.peer)
  /\ handling' = NoBlock
  /\ UNCHANGED <<conn, posting>>

\* ... or handed to the dispatcher, and those that wait for it after it
AddBks ==
  /\ handling.op = "add"
  /\ \E a \in AddNewBlock(c, handling.block, handling.peer) :
        IF a[2] THEN c' \in AddNextBlock([a[1] EXCEPT !.quiet = @ \ {handling.block}], handling.block)
        ELSE c' = a[1]
  /\ handling' = NoBlock
  /\ UNCHANGED <<conn, posting>>

\* CEventLocalBlockSubscribeFork, of a fork whose origin is stored: every peer
\* is asked for it
LocalBlockSubscribeFork ==
  /\ Handles("fork")
  /\ LET f == Head(c.queue).fork
     IN  c' = [Pop EXCEPT !.mapChnFork = @ \cup {f},
                          !.told = [p \in Peer |-> IF p \in DOMAIN c.mapChnPeer THEN @[p] \cup {f} ELSE @[p]]]
  /\ UNCHANGED <<conn, handling, posting>>

\* Mutant: the blocks that wait for the new block are left to its arrival
LocalBlockBroadcastBksOnly ==
  /\ Handles("broadcast")
  /\ c' \in ClearCacheTimeout(Pop)
  /\ UNCHANGED <<conn, handling, posting>>

\* CEventLocalBlockBroadcastBks: sent to the subscribed peers but the one it
\* came from, and those that wait for it are added
LocalBlockBroadcastBks ==
  /\ Handles("broadcast")
  /\ c' \in AddNextBlock(Pop, Head(c.queue).block)
  /\ UNCHANGED <<conn, handling, posting>>

(***************************************************************************)
(* The peers, and the other threads                                        *)
(***************************************************************************)
Room == Len(c.queue) < MaxEvents

Post(e) == c' = [c EXCEPT !.queue = Append(@, e)] /\ UNCHANGED <<handling, posting>>

PeerConnects(p) ==
  /\ Room /\ conn[p] = "new"
  /\ conn' = [conn EXCEPT ![p] = "open"]
  /\ Post([type |-> "active", peer |-> p])

PeerLeaves(p) ==
  /\ Room /\ conn[p] = "open"
  /\ conn' = [conn EXCEPT ![p] = "closed"]
  /\ Post([type |-> "deactive", peer |-> p])

PeerSends(p) ==
  /\ Room /\ conn[p] = "open"
  /\ \/ \E b \in Block \ Stored : Post([type |-> "bks", block |-> b, peer |-> p])
     \/ \E f \in Fork, on \in BOOLEAN : Post([type |-> "subscribe", peer |-> p, fork |-> f, on |-> on])
  /\ UNCHANGED conn

\* CDispatcher::ActivateFork: CBlockChannel::SubscribeFork
SubscribeFork(f) ==
  /\ Room /\ f \notin c.mapChnFork
  /\ \A i \in DOMAIN c.queue : c.queue[i] # [type |-> "fork", fork |-> f]
  /\ Post([type |-> "fork", fork |-> f])
  /\ UNCHANGED conn

\* The net channel or the block maker stores a block ...
StoreBlock(b) ==
  /\ Addable(c, b)
  /\ \/ c' = [c EXCEPT !.stored = @ \cup {b}] /\ posting' = posting \cup {b}
     \/ c' = [c EXCEPT !.stored = @ \cup {b}, !.quiet = @ \cup {b}] /\ UNCHANGED posting
  /\ UNCHANGED <<conn, handling>>

\* ... and its call of BroadcastBlock follows
BroadcastBlock(b) ==
  /\ b \in posting
  /\ c' = [c EXCEPT !.queue = Append(@, Broadcast(b, 0))]
  /\ posting' = posting \ {b}
  /\ UNCHANGED <<conn, handling>>

Next ==
  \/ PeerActive \/ PeerDeactive \/ PeerSubscribe
  \/ PeerBlockBks \/ CacheBks \/ AddBks
  \/ LocalBlockSubscribeFork \/ LocalBlockBroadcastBks
  \/ \E p \in Peer : PeerConnects(p) \/ PeerLeaves(p) \/ PeerSends(p)
  \/ \E f \in Fork : SubscribeFork(f)
  \/ \E b \in Block : StoreBlock(b) \/ BroadcastBlock(b)

Spec == Init /\ [][Next]_vars

(***************************************************************************)
(* Properties                                                              *)
(***************************************************************************)

\* The two maps of the cache name the same blocks, its bytes are counted and
\* its limits hold: one block more than MAX_CACHE_CHN_BLOCK_SIZE at most
\* (AddCacheBlock, RemoveCacheBlock)
CacheKept ==
  /\ Cached(c) \subseteq Block
  /\ c.mapChnPrevBlock = {<<Prev[b], b>> : b \in Cached(c)}
  /\ c.nCacheBlockByteCount = Bytes(Cached(c))
  /\ Cardinality(Cached(c)) <= MAX_CACHE_CHN_BLOCK_COUNT
  /\ Cached(c) # {} =>
       \E b \in Cached(c) : c.nCacheBlockByteCount - Size[b] < MAX_CACHE_CHN_BLOCK_SIZE

Announced(b) == b \in posting \/ \E i \in DOMAIN c.queue : c.queue[i].type = "broadcast" /\ c.queue[i].block = b

\* No block is left behind in the cache: when the previous block of a cached
\* block is stored, by whatever thread and even while the cached one was on its
\* way into the cache, an event that will add it is on its way.  Left out are
\* previous blocks whose storing was not announced, because they lie beside the
\* long chain or the transaction pool failed: their cached successors wait for
\* another copy, or a day (CDispatcher::AddNewBlock returns before
\* BroadcastBlock).
NoneStranded ==
  \A b \in Cached(c) : b \notin c.stored /\ Prev[b] \in c.stored \ c.quiet => Announced(Prev[b])

\* Every connected peer was asked for every fork of this node, in whichever
\* order forks and peers came (PeerActive, LocalBlockSubscribeFork)
PeersTold == \A p \in DOMAIN c.mapChnPeer : c.told[p] = c.mapChnFork

\* The cache is kept within its limits, no cached block is left behind when its
\* previous block is stored, and every peer is asked for every fork
\* (CBlockChannel)
BlocksPassOn == CacheKept /\ NoneStranded /\ PeersTold
=============================================================================

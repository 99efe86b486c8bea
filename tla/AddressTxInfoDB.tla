-------------------------- MODULE AddressTxInfoDB --------------------------
(***************************************************************************)
(* CForkAddressTxInfoDB: for every block, a trie with the transactions of  *)
(* each address in the order of the chain, made of the trie of the         *)
(* previous block.  The databases of address contexts, forks, votes,       *)
(* contract code and block numbers store their tries in the same way: the  *)
(* nodes first, then a record that gives the block's root.                 *)
(*                                                                         *)
(* Writes are not synced: a crash takes back the latest ones.  The nodes   *)
(* of a block are written in the order of their hashes, that is, in any.   *)
(***************************************************************************)
EXTENDS TrieNode, FiniteSets

CONSTANTS
    Block, Genesis, Prev,   \* the blocks of the fork, as a tree
    Infos,                  \* Infos[b][d]: what b has for address d, in order
    MAX_FETCH_ADDRESS_TX_COUNT,
    MaxLost,                \* bound on the blocks that a crash loses
    MaxFault,               \* bound on crashes and failed writes
    MaxMissing              \* bound on the nodes missing when writes break off

VARIABLES
    log,      \* the writes, one entry a block: [block, nodes, root], with root
              \* Zero if the root record was not written
    nFault

infoVars == <<log, nFault>>

Address == DOMAIN Infos[Genesis]

Nodes == UNION {log[i].nodes : i \in DOMAIN log}

\* Keys: a type, and an address (a byte) with the number of a transaction
InfoKey(d, n) == <<16, d, n>>
LastKey(d) == <<32, d>>
PrevRootKey == <<64, 66>>

-----------------------------------------------------------------------------
\* Zero if there is no record
ReadTrieRoot(b) ==
    LET at == {i \in DOMAIN log : log[i].block = b /\ log[i].root # Zero}
    IN IF at = {} THEN Zero ELSE log[CHOOSE i \in at : TRUE].root

PrevRoot(b) == IF b = Genesis THEN Zero ELSE ReadTrieRoot(Prev[b])

ReadAddressLast(root, d) ==
    LET v == Retrieve(Nodes, root, LastKey(d)) IN IF v = NoValue THEN 0 ELSE v[2]

\* What a block writes.  The numbers of an address's transactions continue those
\* of the previous block.
BlockKv(b, prevRoot) ==
    LET dests == {d \in Address : Infos[b][d] # << >>}
        nTx(d) == ReadAddressLast(prevRoot, d)
        keys == UNION {{InfoKey(d, nTx(d) + i - 1) : i \in DOMAIN Infos[b][d]} \cup {LastKey(d)} : d \in dests}
    IN [k \in keys \cup {PrevRootKey} |->
           CASE k = PrevRootKey -> <<"prev", prevRoot, b>>
             [] k[1] = 32 -> <<"last", nTx(k[2]) + Len(Infos[b][k[2]])>>
             [] k[1] = 16 -> <<"info", Infos[b][k[2]][k[3] - nTx(k[2]) + 1]>>]

\* Mutant: the root record is written before the nodes.
TornRootFirst(entry, S) == [entry EXCEPT !.nodes = S]

\* What is left of the writes of a block when they break off: some nodes, and no
\* root record
Torn(entry, S) == [entry EXCEPT !.nodes = S, !.root = Zero]

Broken(entry) ==
    {Torn(entry, entry.nodes \ S) : S \in UNION {kSubset(k, entry.nodes) : k \in 0 .. MaxMissing}}

InfoInit == log = << >> /\ nFault = 0

AddAddressTxInfo(b) ==
    /\ ReadTrieRoot(b) = Zero
    /\ b # Genesis => PrevRoot(b) # Zero
    /\ \E new \in {CreateTrieNodeList(Nodes, PrevRoot(b), BlockKv(b, PrevRoot(b)))} :
          /\ new.ok
          /\ \E entry \in {[block |-> b, nodes |-> new.cache, root |-> new.root]} :
                \/ log' = Append(log, entry) /\ UNCHANGED nFault
                \/ /\ nFault < MaxFault
                   /\ nFault' = nFault + 1
                   /\ \E torn \in Broken(entry) : log' = Append(log, torn)

Crash ==
    /\ nFault < MaxFault
    /\ nFault' = nFault + 1
    /\ \E i \in DOMAIN log :
         /\ i > Len(log) - MaxLost
         /\ \E torn \in Broken(log[i]) : log' = Append(SubSeq(log, 1, i - 1), torn)

InfoNext == (\E b \in Block : AddAddressTxInfo(b)) \/ Crash

InfoSpec == InfoInit /\ [][InfoNext]_infoVars

-----------------------------------------------------------------------------
\* As the start of the node calls it, without a look at every node of the trie
VerifyAddressTxInfo(b) ==
    /\ ReadTrieRoot(b) # Zero
    /\ b = Genesis \/ PrevRoot(b) # Zero
    /\ Retrieve(Nodes, ReadTrieRoot(b), PrevRootKey) = <<"prev", PrevRoot(b), b>>

ListAddressTxInfo(b, d, nBegin, nGet, fReverse) ==
    LET nCount == IF nGet = 0 \/ nGet > MAX_FETCH_ADDRESS_TX_COUNT THEN MAX_FETCH_ADDRESS_TX_COUNT ELSE nGet
        list == WalkThroughTrie(Nodes, ReadTrieRoot(b), <<16, d>>, IF nBegin > 0 THEN <<nBegin>> ELSE << >>,
                                fReverse, nCount).list
    IN [i \in DOMAIN list |-> <<list[i][1][3], list[i][2][2]>>]

-----------------------------------------------------------------------------
\* The transactions of an address up to a block
RECURSIVE OfChain(_, _)
OfChain(b, d) == IF b = Genesis THEN Infos[b][d] ELSE OfChain(Prev[b], d) \o Infos[b][d]

\* The numbers asked for: from nBegin on, or down from nBegin, where 0 stands for
\* the last one; none if there is no transaction nBegin
Asked(n, nBegin, fReverse) ==
    CASE nBegin > 0 /\ nBegin >= n -> << >>
      [] ~fReverse -> [i \in 1 .. n - nBegin |-> nBegin + i - 1]
      [] fReverse /\ nBegin = 0 -> [i \in 1 .. n |-> n - i]
      [] OTHER -> [i \in 1 .. nBegin + 1 |-> nBegin + 1 - i]

\* A block that the start-up check accepts has its trie whole, whatever a crash or
\* a failed write left behind: GetAddressTxCount and ListAddressTxInfo give, at
\* that block, the transactions of its chain, on whichever branch it is
VerifiedListsChain ==
    \A b \in {bl \in Block : VerifyAddressTxInfo(bl)}, d \in Address :
        LET all == OfChain(b, d)
        IN /\ ReadAddressLast(ReadTrieRoot(b), d) = Len(all)
           /\ \A nBegin \in 0 .. Len(all), nGet \in 0 .. 2, fReverse \in BOOLEAN :
                LET asked == Asked(Len(all), nBegin, fReverse)
                    n == Min2(Len(asked), IF nGet = 0 THEN MAX_FETCH_ADDRESS_TX_COUNT ELSE nGet)
                IN ListAddressTxInfo(b, d, nBegin, nGet, fReverse)
                     = [i \in 1 .. n |-> <<asked[i], all[asked[i] + 1]>>]
=============================================================================

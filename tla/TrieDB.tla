------------------------------- MODULE TrieDB -------------------------------
(***************************************************************************)
(* CTrieDB as its users see it: tries that are made of earlier ones and    *)
(* share nodes with them, and the tries that CForkStateDB computes for a   *)
(* block before it is known whether the block will be saved.               *)
(*                                                                         *)
(* An operation holds the database's lock and is one step.  Nothing is     *)
(* ever removed from the database.                                         *)
(***************************************************************************)
EXTENDS TrieNode, FiniteSets

CONSTANTS
    Values,      \* the values each key may be given
    MaxBatch,    \* bound on the keys written at once
    MaxWritten,  \* bound on the keys written
    MaxFail      \* bound on the writes that fail

VARIABLES
    db,            \* the nodes stored
    tries,         \* the tries stored, in order: their roots, and the maps they stand for
    mapCacheTrie,  \* tries not stored: [root, map, nodes]
    nWritten,
    nFail

trieVars == <<db, tries, mapCacheTrie, nWritten, nFail>>

Key == DOMAIN Values

Batch ==
    {kv \in UNION {[K -> UNION {Values[k] : k \in K}] : K \in {S \in SUBSET Key : Cardinality(S) \in 1 .. MaxBatch}} :
        \A k \in DOMAIN kv : kv[k] \in Values[k]}

Written(map, kv) == [k \in Key |-> IF k \in DOMAIN kv THEN kv[k] ELSE map[k]]

Empty == [root |-> Zero, map |-> [k \in Key |-> NoValue]]

TrieInit ==
    /\ db = {}
    /\ tries = <<Empty>>
    /\ mapCacheTrie = {}
    /\ nWritten = 0
    /\ nFail = 0

MayWrite(kv) ==
    /\ nWritten + Cardinality(DOMAIN kv) <= MaxWritten
    /\ nWritten' = nWritten + Cardinality(DOMAIN kv)

\* The new nodes are written one by one, and a write that fails leaves some of
\* them: here, all but one.  The root of a trie that cannot be made stays 0.
AddNewTrie(t, kv) ==
    /\ MayWrite(kv)
    /\ \E new \in {CreateTrieNodeList(db, t.root, kv)} :
          \/ /\ db' = db \cup new.cache
             /\ tries' = Append(tries, [root |-> IF new.ok THEN new.root ELSE Zero, map |-> Written(t.map, kv)])
             /\ UNCHANGED nFail
          \/ /\ nFail < MaxFail
             /\ \E n \in new.cache : db' = db \cup (new.cache \ {n})
             /\ nFail' = nFail + 1
             /\ UNCHANGED tries
    /\ UNCHANGED mapCacheTrie

\* CForkStateDB::CreateCacheStateTrie
CreateCacheTrie(t, kv) ==
    /\ MayWrite(kv)
    /\ \E new \in {CreateTrieNodeList(db, t.root, kv)} :
          mapCacheTrie' = {c \in mapCacheTrie : c.root # new.root}
                            \cup {[root |-> new.root, map |-> Written(t.map, kv), nodes |-> new.cache]}
    /\ UNCHANGED <<db, tries, nFail>>

\* CForkStateDB::AddBlockState, of a trie that was computed before
SaveCacheTrie(c) ==
    /\ db' = db \cup c.nodes
    /\ tries' = Append(tries, [root |-> c.root, map |-> c.map])
    /\ mapCacheTrie' = mapCacheTrie \ {c}
    /\ UNCHANGED <<nWritten, nFail>>

TrieNext ==
    \/ \E t \in Range(tries), kv \in Batch : AddNewTrie(t, kv) \/ CreateCacheTrie(t, kv)
    \/ \E c \in mapCacheTrie : SaveCacheTrie(c)

TrieSpec == TrieInit /\ [][TrieNext]_trieVars

-----------------------------------------------------------------------------
\* WalkThroughNode's order: a key comes before its continuations, either way
WalkLess(k, l, fReverse) ==
    \/ IsStrictPrefix(k, l)
    \/ ~IsPrefix(l, k) /\ IF fReverse THEN KeyLess(l, k) ELSE KeyLess(k, l)

\* The keys that a walk is to list: those below the prefix, or above it; if it
\* begins at a key, those from the first one below that key, and those above it
Listed(map, prefix, beginTail, fReverse) ==
    LET keys == {k \in Key : map[k] # NoValue /\ Compatible(k, prefix)}
        begin == prefix \o beginTail
        order == SetToSortSeq(keys, LAMBDA k, l : WalkLess(k, l, fReverse))
        from == SelectInSeq(order, LAMBDA k : IsPrefix(begin, k))
    IN IF beginTail = << >> THEN order
       ELSE SelectSeq(order, LAMBDA k : IsStrictPrefix(k, begin)
                                \/ (from > 0 /\ ~WalkLess(k, order[from], fReverse)))

\* What was added is retrieved (CTrieDB::Retrieve), from every trie ever stored
AddedIsRetrieved ==
    \A i \in DOMAIN tries : \A k \in Key : Retrieve(db, tries[i].root, k) = tries[i].map[k]

\* What a trie holds is what was written: CTrieDB::Retrieve finds the value of
\* every key in every trie ever stored, CheckTrieNode finds the trie whole, and
\* WalkThroughTrie lists the entries asked for, in order
TrieHoldsMap ==
    /\ AddedIsRetrieved
    /\ \A i \in DOMAIN tries : CheckTrieNode(db, tries[i].root)
    /\ \A prefix \in {<< >>} \cup {SubSeq(k, 1, 1) : k \in Key}, fReverse \in BOOLEAN :
         \A beginTail \in {<< >>} \cup {Drop(k, Len(prefix)) : k \in {l \in Key : IsPrefix(prefix, l)}} :
            LET last == Last(tries)
                keys == Listed(last.map, prefix, beginTail, fReverse)
            IN WalkThroughTrie(db, last.root, prefix, beginTail, fReverse, 0).list
                 = [i \in DOMAIN keys |-> <<keys[i], last.map[keys[i]]>>]
=============================================================================

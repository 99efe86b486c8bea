------------------------------ MODULE TrieNode ------------------------------
(***************************************************************************)
(* The algorithms of CTrieDB: a map from byte strings to values kept as a  *)
(* trie over the half bytes (nibbles) of the keys, whose nodes refer to    *)
(* one another by hash.                                                    *)
(*                                                                         *)
(* The hash of a node is the node itself, which makes the hash injective;  *)
(* a database of nodes is the set of the nodes it holds.  The operators    *)
(* take the database as an argument and have no state.                     *)
(***************************************************************************)
EXTENDS Integers, Sequences, SequencesExt

CONSTANTS
    Nibble,      \* the half bytes in use, 0 .. 15 in the code
    IndexWidth,  \* 2^8, the values of a branch's index entries
    Zero,        \* the hash 0
    NoValue      \* the empty value, which removes a key

-----------------------------------------------------------------------------
(* Keys as bytes and as nibbles *)

Byte2Nibble(bt, flag) ==
    [i \in 1 .. 2 * Len(bt) - flag |->
        IF i % 2 = 1 THEN bt[(i + 1) \div 2] \div 16 ELSE bt[i \div 2] % 16]

Nibble2Byte(nibble) ==
    [i \in 1 .. (Len(nibble) + 1) \div 2 |->
        16 * nibble[2 * i - 1] + (IF 2 * i <= Len(nibble) THEN nibble[2 * i] ELSE 0)]

Drop(s, n) == SubSeq(s, n + 1, Len(s))

Min2(m, n) == IF m < n THEN m ELSE n

\* One of the two is a prefix of the other
Compatible(s, t) == LET n == Min2(Len(s), Len(t)) IN SubSeq(s, 1, n) = SubSeq(t, 1, n)

-----------------------------------------------------------------------------
(* A branch has, for its next nodes and for its values, an index from      *)
(* nibbles into a list of hashes that only grows.                          *)

NoHashes == [index |-> [n \in Nibble |-> 0], list |-> << >>]

GetHash(s, n) ==
    LET x == s.index[n] IN IF x = 0 \/ x > Len(s.list) THEN Zero ELSE s.list[x]

SetHash(s, n, hash) ==
    LET x == s.index[n]
    IN CASE (x = 0 \/ x > Len(s.list)) /\ hash = Zero -> s
         [] (x = 0 \/ x > Len(s.list)) /\ hash # Zero ->
              [index |-> [s.index EXCEPT ![n] = (Len(s.list) + 1) % IndexWidth],
               list |-> Append(s.list, hash)]
         [] OTHER ->
              [index |-> IF hash = Zero THEN [s.index EXCEPT ![n] = 0] ELSE s.index,
               list |-> [s.list EXCEPT ![x] = hash]]

Branch == [type |-> "branch", next |-> NoHashes, value |-> NoHashes]

\* A branch whose entry n has the next node and the value given
BranchWith(n, next, value) ==
    [Branch EXCEPT !.next = SetHash(@, n, next), !.value = SetHash(@, n, value)]

-----------------------------------------------------------------------------
(* An extension has a key and up to two links, of which the next node is   *)
(* the first unless the value was set first (fValue).                      *)

SetKey(nibble) ==
    [type |-> "extension", odd |-> Len(nibble) % 2, fValue |-> FALSE,
     key |-> Nibble2Byte(nibble), link |-> << >>]

GetKey(e) == Byte2Nibble(e.key, e.odd)

Link(e, i) == IF i <= Len(e.link) THEN e.link[i] ELSE Zero

NextHash(e) == Link(e, IF e.fValue THEN 2 ELSE 1)

ValueHash(e) == Link(e, IF e.fValue THEN 1 ELSE 2)

SetLink(e, i, hash) ==
    [e EXCEPT !.link = IF i <= Len(@) THEN [@ EXCEPT ![i] = hash] ELSE Append(@, hash)]

SetNextHash(e, hash) ==
    IF e.fValue /\ e.link # << >> THEN SetLink(e, 2, hash)
    ELSE SetLink([e EXCEPT !.fValue = FALSE], 1, hash)

SetValueHash(e, hash) ==
    IF e.fValue \/ e.link = << >> THEN SetLink([e EXCEPT !.fValue = TRUE], 1, hash)
    ELSE SetLink(e, 2, hash)

ExtensionWith(nibble, next, value) == SetValueHash(SetNextHash(SetKey(nibble), next), value)

-----------------------------------------------------------------------------
Value(v) == [type |-> "value", vaValue |-> v]

HasValue(node) ==
    CASE node.type = "branch" ->
           \E n \in Nibble : GetHash(node.next, n) # Zero \/ GetHash(node.value, n) # Zero
      [] node.type = "extension" -> NextHash(node) # Zero \/ ValueHash(node) # Zero
      [] node.type = "value" -> node.vaValue # NoValue

CalcHash(node) == IF HasValue(node) THEN node ELSE Zero

-----------------------------------------------------------------------------
(* The path of a key: the nodes of the trie that the key meets, which it   *)
(* shares, and the nodes that splitting the last of them adds, of which    *)
(* the old ones keep what was there and the new ones lead to the key.      *)

PathNode(nKvType, keyOld, keyNew, node) ==
    [nKvType |-> nKvType, keyOld |-> keyOld, keyNew |-> keyNew, node |-> node]

\* What is left of the new key, in a node of its own
NewTail(syKey) ==
    CASE Len(syKey) = 0 -> << >>
      [] Len(syKey) = 1 -> <<PathNode("new", << >>, syKey, Branch)>>
      [] OTHER -> <<PathNode("new", << >>, syKey, SetKey(syKey))>>

\* Mutant: the value at the end of a split extension is left behind.
OldTailBare(key, e) ==
    CASE Len(key) = 0 -> << >>
      [] Len(key) = 1 -> <<PathNode("old", key, << >>, BranchWith(key[1], NextHash(e), ValueHash(e)))>>
      [] OTHER -> <<PathNode("old", key, << >>, SetNextHash(SetKey(key), NextHash(e)))>>

\* What is left of the key of a split extension, with what the extension led to
OldTail(key, e) ==
    CASE Len(key) = 0 -> << >>
      [] Len(key) = 1 -> <<PathNode("old", key, << >>, BranchWith(key[1], NextHash(e), ValueHash(e)))>>
      [] OTHER -> <<PathNode("old", key, << >>, ExtensionWith(key, NextHash(e), ValueHash(e)))>>

\* The branch where the keys part
Fork(key, syKey, e) ==
    PathNode("share", <<key[1]>>, <<syKey[1]>>,
             IF Len(key) = 1 THEN BranchWith(key[1], NextHash(e), ValueHash(e)) ELSE Branch)

GetBranchPath(syKey, b) ==
    LET next == IF Len(syKey) > 1 THEN GetHash(b.next, syKey[1]) ELSE Zero
        shared == PathNode("share", << >>, <<syKey[1]>>, b)
    IN [hash |-> next, syKey |-> Tail(syKey),
        path |-> IF next # Zero THEN <<shared>> ELSE <<shared>> \o NewTail(Tail(syKey))]

SplitPath(key, syKey, e) ==
    LET same == Len(LongestCommonPrefix({key, syKey}))
        n == IF same = 0 THEN 1 ELSE same
        top == IF same <= 1 THEN Fork(key, syKey, e)
               ELSE PathNode("share", SubSeq(key, 1, n), SubSeq(key, 1, n), SetKey(SubSeq(key, 1, n)))
        parts == same >= 1 /\ Len(key) > n /\ Len(syKey) > n
        m == IF parts THEN n + 1 ELSE n
    IN <<top>> \o (IF parts THEN <<Fork(Drop(key, n), Drop(syKey, n), e)>> ELSE << >>)
         \o OldTail(Drop(key, m), e) \o NewTail(Drop(syKey, m))

GetExtensionPath(syKey, e) ==
    LET key == GetKey(e)
        rest == Drop(syKey, Len(key))
        shared == PathNode("share", key, key, e)
    IN IF IsPrefix(key, syKey)
       THEN [hash |-> NextHash(e), syKey |-> rest,
             path |-> IF NextHash(e) # Zero THEN <<shared>> ELSE <<shared>> \o NewTail(rest)]
       ELSE [hash |-> Zero, syKey |-> rest, path |-> SplitPath(key, syKey, e)]

\* The path from the node of the hash on, and the nodes met that are not in the
\* database yet (vRemove)
RECURSIVE GetNodePath(_, _, _, _, _)
GetNodePath(db, cache, root, hash, syKey) ==
    IF syKey = << >> THEN [ok |-> TRUE, path |-> << >>, vRemove |-> {}]
    ELSE IF hash \notin db \cup cache
    THEN [ok |-> hash = root, path |-> NewTail(syKey), vRemove |-> {}]
    ELSE IF hash.type = "value" THEN [ok |-> FALSE, path |-> << >>, vRemove |-> {}]
    ELSE LET step == IF hash.type = "branch" THEN GetBranchPath(syKey, hash)
                     ELSE GetExtensionPath(syKey, hash)
             more == IF step.hash = Zero THEN [ok |-> TRUE, path |-> << >>, vRemove |-> {}]
                     ELSE GetNodePath(db, cache, root, step.hash, step.syKey)
         IN [ok |-> more.ok, path |-> step.path \o more.path,
             vRemove |-> (cache \cap {hash}) \cup more.vRemove]

-----------------------------------------------------------------------------
(* AddNode gives the nodes of the path, from the end to the root, first    *)
(* the hashes of the old nodes below them and then those of the new ones.  *)

LinkOld(p, acc) ==
    LET node ==
          IF p.nKvType = "new" \/ acc.hash = Zero THEN p.node
          ELSE IF p.node.type = "extension" THEN SetNextHash(p.node, acc.hash)
          ELSE IF p.keyOld = << >> THEN p.node
          ELSE [p.node EXCEPT !.next = SetHash(@, p.keyOld[1], acc.hash)]
    IN [hash |-> IF p.nKvType = "new" THEN acc.hash ELSE CalcHash(node),
        path |-> <<[p EXCEPT !.node = node]>> \o acc.path]

SetAt(p, fIsValue, hash) ==
    CASE p.node.type = "branch" /\ fIsValue -> [p.node EXCEPT !.value = SetHash(@, p.keyNew[1], hash)]
      [] p.node.type = "branch" /\ ~fIsValue -> [p.node EXCEPT !.next = SetHash(@, p.keyNew[1], hash)]
      [] p.node.type = "extension" /\ fIsValue -> SetValueHash(p.node, hash)
      [] p.node.type = "extension" /\ ~fIsValue -> SetNextHash(p.node, hash)

OldValue(p) ==
    IF p.node.type = "branch" THEN GetHash(p.node.value, p.keyNew[1]) ELSE ValueHash(p.node)

LinkNew(p, acc) ==
    IF acc.fSame \/ p.nKvType = "old" THEN [acc EXCEPT !.path = <<p>> \o @]
    ELSE IF acc.fIsValue /\ acc.hash # Zero /\ OldValue(p) = acc.hash THEN [acc EXCEPT !.fSame = TRUE]
    ELSE LET node == SetAt(p, acc.fIsValue, acc.hash)
         IN [hash |-> CalcHash(node), fIsValue |-> FALSE, fSame |-> FALSE,
             path |-> <<[p EXCEPT !.node = node]>> \o acc.path]

\* The path with all its links, and the hash of its first node
LinkPath(path, hash) ==
    FoldRight(LinkNew, FoldRight(LinkOld, path, [hash |-> Zero, path |-> << >>]).path,
              [hash |-> hash, fIsValue |-> TRUE, fSame |-> FALSE, path |-> << >>])

PathHashes(path) == {CalcHash(path[i].node) : i \in DOMAIN path}

\* The linked nodes take the place of the ones they were made of; nothing changes
\* if the key had the value already
PutPath(cache, root, hash, vRemove, new) ==
    IF new.fSame THEN [ok |-> TRUE, root |-> root, cache |-> cache]
    ELSE [ok |-> TRUE, root |-> new.hash,
          cache |-> (cache \ vRemove) \cup ((PathHashes(new.path) \cup {hash}) \ {Zero})]

AddPath(cache, root, hash, found) ==
    IF found.ok THEN PutPath(cache, root, hash, found.vRemove, LinkPath(found.path, hash))
    ELSE [ok |-> FALSE, root |-> root, cache |-> cache]

AddNode(db, cache, root, nibble, v) ==
    AddPath(cache, root, CalcHash(Value(v)), GetNodePath(db, cache, root, root, nibble))

\* The order of std::map<bytes, bytes>
KeyLess(k, l) ==
    \/ IsStrictPrefix(k, l)
    \/ \E i \in 1 .. Min2(Len(k), Len(l)) : SubSeq(k, 1, i - 1) = SubSeq(l, 1, i - 1) /\ k[i] < l[i]

\* The root and the new nodes of the trie that the keys of mapKv, in their order,
\* make of the trie of root
CreateTrieNodeList(db, root, mapKv) ==
    FoldLeft(LAMBDA acc, k :
                IF acc.ok THEN AddNode(db, acc.cache, acc.root, Byte2Nibble(k, 0), mapKv[k]) ELSE acc,
             [ok |-> TRUE, root |-> root, cache |-> {}],
             SetToSortSeq(DOMAIN mapKv, KeyLess))

-----------------------------------------------------------------------------
(* Reading *)

\* The value of a key, NoValue when it has none
RECURSIVE GetKeyValue(_, _, _)
GetKeyValue(db, hash, syKey) ==
    IF hash \notin db THEN NoValue
    ELSE IF syKey = << >> THEN IF hash.type = "value" THEN hash.vaValue ELSE NoValue
    ELSE CASE hash.type = "value" -> NoValue
           [] hash.type = "branch" ->
                GetKeyValue(db, GetHash(IF Len(syKey) = 1 THEN hash.value ELSE hash.next, syKey[1]), Tail(syKey))
           [] hash.type = "extension" ->
                LET key == GetKey(hash)
                IN IF ~IsPrefix(key, syKey) THEN NoValue
                   ELSE GetKeyValue(db, IF key = syKey THEN ValueHash(hash) ELSE NextHash(hash), Drop(syKey, Len(key)))

Retrieve(db, root, key) == GetKeyValue(db, root, Byte2Nibble(key, 0))

Ascending == SelectSeq([i \in 1 .. 16 |-> i - 1], LAMBDA n : n \in Nibble)

\* The links of a node that a walk with this prefix follows, each with its key
Links(node, prefix, key, fReverse) ==
    LET to(hash, pre, k) == IF hash = Zero THEN << >> ELSE <<[hash |-> hash, prefix |-> pre, key |-> k]>>
        rest == IF prefix = << >> THEN << >> ELSE Tail(prefix)
        of(n) == IF prefix # << >> /\ prefix[1] # n THEN << >>
                 ELSE to(GetHash(node.value, n), rest, Append(key, n)) \o to(GetHash(node.next, n), rest, Append(key, n))
        order == IF fReverse THEN Reverse(Ascending) ELSE Ascending
    IN CASE node.type = "value" -> << >>
         [] node.type = "branch" -> FlattenSeq([i \in DOMAIN order |-> of(order[i])])
         [] node.type = "extension" ->
              LET k == GetKey(node)
                  pre == Drop(prefix, Min2(Len(prefix), Len(k)))
              IN IF ~Compatible(prefix, k) THEN << >>
                 ELSE to(ValueHash(node), pre, key \o k) \o to(NextHash(node), pre, key \o k)

\* w is the walk so far: [fOk, fWalkOver, begin, list]; the walker stops the walk
\* when it has nCount entries, if nCount > 0
RECURSIVE WalkThroughNode(_, _, _, _, _)
WalkThroughNode(db, w, at, fReverse, nCount) ==
    IF w.fWalkOver \/ ~w.fOk THEN w
    ELSE IF at.hash \notin db THEN [w EXCEPT !.fOk = FALSE]
    ELSE IF w.begin # << >> /\ ~Compatible(w.begin, at.key) THEN w
    ELSE LET w1 == IF Len(w.begin) <= Len(at.key) THEN [w EXCEPT !.begin = << >>] ELSE w
             list == Append(w1.list, <<Nibble2Byte(at.key), at.hash.vaValue>>)
         IN IF at.hash.type = "value"
            THEN [w1 EXCEPT !.list = list, !.fWalkOver = nCount > 0 /\ Len(list) >= nCount]
            ELSE FoldLeft(LAMBDA acc, next : WalkThroughNode(db, acc, next, fReverse, nCount),
                          w1, Links(at.hash, at.prefix, at.key, fReverse))

WalkThroughTrie(db, root, prefix, beginTail, fReverse, nCount) ==
    LET pre == Byte2Nibble(prefix, 0)
        begin == IF beginTail = << >> THEN << >> ELSE pre \o Byte2Nibble(beginTail, 0)
        w == [fOk |-> TRUE, fWalkOver |-> FALSE, begin |-> begin, list |-> << >>]
    IN IF root = Zero THEN w
       ELSE WalkThroughNode(db, w, [hash |-> root, prefix |-> pre, key |-> << >>], fReverse, nCount)

CheckTrieNode(db, root) == WalkThroughTrie(db, root, << >>, << >>, FALSE, 0).fOk
=============================================================================

------------------------------- MODULE MCTrie -------------------------------
(***************************************************************************)
(* A trie database, one whose writes may fail, and a database of address   *)
(* transactions.  A behaviour is one of them, chosen in the initial state. *)
(***************************************************************************)
EXTENDS TrieDB

VARIABLES part, log, nFault

infoVars == <<log, nFault>>

\* Keys of which some continue another and some share a part; one may be removed
MCValues == (<<17>> :> {"a"}) @@ (<<17, 17>> :> {"b"}) @@ (<<17, 18>> :> {"c", NoValue}) @@ (<<18, 17>> :> {"d"})

\* One key may have either of two values
MoreValues == [MCValues EXCEPT ![<<17, 17>>] = {"b", "c"}]

Failing == INSTANCE TrieDB WITH Values <- MoreValues, MaxWritten <- 3, MaxFail <- 1

\* Two addresses in four blocks, the last two on two branches
InfoPrev == [b1 |-> "g", b2 |-> "b1", c2 |-> "b1"]
AddressInfos == [g |-> (17 :> <<"r">>) @@ (18 :> << >>), b1 |-> (17 :> <<"s">>) @@ (18 :> <<"s">>),
                 b2 |-> (17 :> <<"t", "u">>) @@ (18 :> << >>), c2 |-> (17 :> <<"t">>) @@ (18 :> <<"t">>)]

AddressInfo == INSTANCE AddressTxInfoDB WITH
    Block <- {"g", "b1", "b2", "c2"}, Genesis <- "g", Prev <- InfoPrev,
    Infos <- AddressInfos, MAX_FETCH_ADDRESS_TX_COUNT <- 3, MaxLost <- 2, MaxFault <- 1, MaxMissing <- 1

PartInit ==
    /\ part \in {"tries", "failing", "address info"}
    /\ TrieInit /\ AddressInfo!InfoInit

PartNext ==
    /\ UNCHANGED part
    /\ \/ part = "tries" /\ TrieNext /\ UNCHANGED infoVars
       \/ part = "failing" /\ Failing!TrieNext /\ UNCHANGED infoVars
       \/ part = "address info" /\ AddressInfo!InfoNext /\ UNCHANGED trieVars

PartSpec == PartInit /\ [][PartNext]_<<part, trieVars, infoVars>>

\* What a trie holds is what was written (CTrieDB): in the tries of whichever
\* keys, and in those that list the transactions of an address along a chain,
\* at every block that the check at the start accepts (CForkAddressTxInfoDB)
TriesHoldMaps ==
    /\ part = "tries" => TrieHoldsMap
    /\ part = "failing" => Failing!TrieHoldsMap
    /\ part = "address info" => AddressInfo!VerifiedListsChain
=============================================================================

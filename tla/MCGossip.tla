------------------------------ MODULE MCGossip ------------------------------
(***************************************************************************)
(* The forks of a node and the channel that passes their blocks on.  A     *)
(* behaviour is one of the fork manager, or of one of two instances of the *)
(* block channel, chosen in the initial state.                             *)
(***************************************************************************)
EXTENDS BlockChannel

VARIABLES part, chain, config, setCurActiveFork, mapSched, mapChnFork, todo, starts, failed, early

\* A chain that forks after its second block.  One branch makes the fork F, with
\* G below it; the other F too, after H, which has its name and is cancelled.
ForkBlock == {"g", "a1", "a2", "b1", "b2"}
ForkPrev == [g |-> "none", a1 |-> "g", a2 |-> "a1", b1 |-> "a1", b2 |-> "b1"]
ForkTime == [g |-> 1, a1 |-> 1, a2 |-> 2, b1 |-> 2, b2 |-> 1]
Makes(f) == [type |-> "fork", fork |-> f]
ForkVtx == [g |-> << >>, a1 |-> << >>, a2 |-> <<Makes("F"), Makes("G")>>,
          b1 |-> <<Makes("H"), [type |-> "spend", address |-> "h"], Makes("F")>>, b2 |-> << >>]
Made(n, i, par, adr, jnt, tim, hsh) ==
    [name |-> n, id |-> i, parent |-> par, address |-> adr, joint |-> jnt, time |-> tim, hash |-> hsh]
ForkProfile == [F |-> Made("n1", 1, "g", "f", "a1", 2, 2),
              G |-> Made("n2", 2, "F", "f", "a1", 2, 1),
              H |-> Made("n1", 3, "g", "h", "a1", 2, 3)]
ForkConfigs == {[fAllowAnyFork |-> FALSE, setForkAllowed |-> {"g"}, setGroupAllowed |-> {"F"}, setForkExcluded |-> {}],
              [fAllowAnyFork |-> TRUE, setForkAllowed |-> {}, setGroupAllowed |-> {}, setForkExcluded |-> {"F"}]}

Forks == INSTANCE ForkManager WITH
    Block <- ForkBlock, Genesis <- "g", Prev <- ForkPrev, Time <- ForkTime, Vtx <- ForkVtx,
    Fork <- {"F", "G", "H"}, Profile <- ForkProfile, Configs <- ForkConfigs,
    Thread <- {"t1", "t2"}, MaxStart <- 1

\* Blocks 3, 1, 4 on one another and an invalid one beside them
MCPrev == <<3, 5, 5, 1, 0>>
MCSize == <<1, 1, 1, 2, 1>>

\* Two of them only, with two peers and two forks
Peers == INSTANCE BlockChannel WITH
    Block <- {3, 5}, Valid <- {3}, Fork <- {"g", "F"}, Peer <- {1, 2}

forkVars == <<chain, config, setCurActiveFork, mapSched, mapChnFork, todo, starts, failed, early>>
gossipVars == <<part, vars, forkVars>>

GossipInit(parts) ==
    /\ part \in parts
    /\ Forks!Init /\ (part = "forks" \/ config = CHOOSE cfg \in ForkConfigs : TRUE)
    /\ IF part = "peers" THEN Peers!Init ELSE Init

GossipNext ==
    /\ UNCHANGED part
    /\ \/ part = "forks" /\ Forks!Next /\ UNCHANGED vars
       \/ part = "cache" /\ Next /\ UNCHANGED forkVars
       \/ part = "peers" /\ Peers!Next /\ UNCHANGED forkVars

GossipSpec == GossipInit({"forks", "cache", "peers"}) /\ [][GossipNext]_gossipVars

(***************************************************************************)
(* The property of the forks; BlocksPassOn is the one of the channel       *)
(***************************************************************************)

\* Every allowed fork of the chain is open when the threads have done their
\* work, and no two have one name or chain id (CForkManager::ForkUpdate,
\* CDispatcher::ActivateFork, CBlockBase::VerifyBlockForkTx)
ForksFollowChain == part = "forks" => Forks!ForksOpen /\ Forks!NamesDiffer
=============================================================================

---------------------------- MODULE MCDispatcher ----------------------------
(***************************************************************************)
(* What the dispatcher keeps up with the chain: the transaction pool of a  *)
(* fork, and the set of forks.  A behaviour is one of either, chosen in    *)
(* the initial state.  The instance of the forks is the one that liveness  *)
(* is checked on; MCGossip has a larger one.                               *)
(***************************************************************************)
EXTENDS TxPool

VARIABLES part, chain, config, setCurActiveFork, mapSched, mapChnFork, calls, starts, failed, early

forkVars == <<chain, config, setCurActiveFork, mapSched, mapChnFork, calls, starts, failed, early>>

\* The chain b1, b2 and, beside it, c1, which the trust puts between the two, and
\* c2, which has the trust of b2
MCBlock == {"g", "b1", "b2", "c1", "c2"}
MCPrev == [b1 |-> "g", b2 |-> "b1", c1 |-> "g", c2 |-> "c1"]
MCHeight == [g |-> 0, b1 |-> 1, b2 |-> 2, c1 |-> 1, c2 |-> 2]
MCTrust == [g |-> 0, b1 |-> 1, b2 |-> 3, c1 |-> 2, c2 |-> 3]

\* The sender p has three transactions, one that creates a contract, and another
\* one with the nonce of the first; q pays p; p is a delegate that enrols
MCTx == {"p1", "p2", "p3", "p1x", "q1", "e"}
MCFrom == [p1 |-> "p", p2 |-> "p", p3 |-> "p", p1x |-> "p", q1 |-> "q", e |-> "p"]
MCTo == [p1 |-> "q", p2 |-> "none", p3 |-> "q", p1x |-> "p", q1 |-> "p", e |-> "p"]
MCNonce == [p1 |-> 1, p2 |-> 2, p3 |-> 3, p1x |-> 1, q1 |-> 1, e |-> 0]
MCBlockTx == [g |-> {}, b1 |-> {"p1"}, b2 |-> {"p2", "q1", "e"}, c1 |-> {"e"}, c2 |-> {"p1x"}]

\* A chain that forks after its second block.  One branch makes the fork F; the
\* other F too, after H, which has its name and is cancelled.
ForkPrev == [g |-> "none", a1 |-> "g", a2 |-> "a1", b1 |-> "a1", b2 |-> "b1"]
ForkTime == [g |-> 1, a1 |-> 1, a2 |-> 2, b1 |-> 2, b2 |-> 1]
Makes(f) == [type |-> "fork", fork |-> f]
ForkVtx == [g |-> << >>, a1 |-> << >>, a2 |-> <<Makes("F")>>,
            b1 |-> <<Makes("H"), [type |-> "spend", address |-> "h"], Makes("F")>>, b2 |-> << >>]
ForkProfile ==
    [F |-> [name |-> "n1", id |-> 1, parent |-> "g", address |-> "f", joint |-> "a1", time |-> 2, hash |-> 2],
     H |-> [name |-> "n1", id |-> 3, parent |-> "g", address |-> "h", joint |-> "a1", time |-> 2, hash |-> 3]]
ForkConfigs ==
    {[fAllowAnyFork |-> TRUE, setForkAllowed |-> {}, setGroupAllowed |-> {}, setForkExcluded |-> {ex}] : ex \in {"F", "H"}}

Forks == INSTANCE ForkManager WITH
    Block <- DOMAIN ForkPrev, Prev <- ForkPrev, Time <- ForkTime, Vtx <- ForkVtx, Fork <- {"F", "H"},
    Profile <- ForkProfile, Configs <- ForkConfigs, Thread <- {"t1", "t2"}, MaxStart <- 0, todo <- calls

DispatcherInit ==
    /\ part \in {"pool", "forks"}
    /\ Init /\ Forks!Init /\ (part = "forks" \/ config = CHOOSE cfg \in ForkConfigs : TRUE)

DispatcherNext ==
    /\ UNCHANGED part
    /\ \/ part = "pool" /\ Next /\ UNCHANGED forkVars
       \/ part = "forks" /\ Forks!Next /\ UNCHANGED vars

\* With the fairness that ForkManager assumes
DispatcherSpec ==
    /\ DispatcherInit /\ [][DispatcherNext]_<<part, vars, forkVars>>
    /\ \A t \in Forks!Threads : WF_forkVars(part = "forks" /\ Forks!Step(t))
    /\ WF_forkVars(part = "forks" /\ Forks!ForkUpdateTimerFunc)
    /\ WF_forkVars(part = "forks" /\ Forks!UpdateValidFork)

\* The subscriptions of the net channel come to agree with the chain
\* (ForkUpdateTimerFunc)
SubscriptionsSettle == part = "forks" => Forks!Settles
=============================================================================

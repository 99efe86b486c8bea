------------------------ MODULE MCDelegatedChannel ------------------------
(***************************************************************************)
(* Four instances of DelegatedChannel, one of which is chosen in the       *)
(* initial state: two nodes whose connection may break, three nodes that   *)
(* stay connected, two nodes whose chain is reorganised, and two nodes     *)
(* that stay connected, for liveness.                                      *)
(***************************************************************************)
EXTENDS Integers

CONSTANTS NoPeer, NoBlock, g, b1, b2, c2, c3, n1, n2, n3, d1, d2

VARIABLES instance, sched, chain, known, fTimer, fBulletin, tip, evolved, chan, nBreaks, jumped

vars == <<instance, sched, chain, known, fTimer, fBulletin, tip, evolved, chan, nBreaks, jumped>>

\* A chain of two blocks, and a branch on the first of them
Tree == [b \in {b1, b2, c2, c3} |-> CASE b = b1 -> g [] b = b2 -> b1 [] b = c2 -> b1 [] b = c3 -> c2]
TreeHeight == [b \in {g, b1, b2, c2, c3} |-> CASE b = g -> 0 [] b = b1 -> 1 [] b \in {b2, c2} -> 2 [] OTHER -> 3]
TreeTrust == [b \in {g, b1, b2, c2, c3} |-> CASE b = g -> 0 [] b = b1 -> 1 [] b = b2 -> 2 [] b = c2 -> 3 [] OTHER -> 4]
PrevOf(B) == [b \in B \ {g} |-> Tree[b]]
HeightOf(B) == [b \in B |-> TreeHeight[b]]
TrustOf(B) == [b \in B |-> TreeTrust[b]]
Idents(B, D) == [hashAnchor : B \ {g}, nInvType : {"distribute", "publish"}, destDelegated : D]
OwnOf(P, D) == [n \in P |-> CASE n = n1 -> {d1} [] n = n2 -> {d2} \cap D [] OTHER -> {}]

Chain == {g, b1, b2}
All == {g, b1, b2, c2, c3}

Breaks == INSTANCE DelegatedChannel WITH
  Peer <- {n1, n2}, Genesis <- g, Block <- Chain, Prev <- PrevOf(Chain), Height <- HeightOf(Chain),
  Trust <- TrustOf(Chain), Dest <- {d1, d2}, Ident <- Idents(Chain, {d1, d2}),
  Own <- OwnOf({n1, n2}, {d1, d2}), CONSENSUS_DISTRIBUTE_INTERVAL <- 1, MaxBreaks <- 1

Three == INSTANCE DelegatedChannel WITH
  Peer <- {n1, n2, n3}, Genesis <- g, Block <- {g, b1}, Prev <- PrevOf({g, b1}), Height <- HeightOf({g, b1}),
  Trust <- TrustOf({g, b1}), Dest <- {d1}, Ident <- Idents({g, b1}, {d1}),
  Own <- OwnOf({n1, n2, n3}, {d1}), CONSENSUS_DISTRIBUTE_INTERVAL <- 0, MaxBreaks <- 0

Reorg == INSTANCE DelegatedChannel WITH
  Peer <- {n1, n2}, Genesis <- g, Block <- All, Prev <- PrevOf(All), Height <- HeightOf(All),
  Trust <- TrustOf(All), Dest <- {d1}, Ident <- Idents(All, {d1}),
  Own <- OwnOf({n1, n2}, {d1}), CONSENSUS_DISTRIBUTE_INTERVAL <- 1, MaxBreaks <- 0

Live == INSTANCE DelegatedChannel WITH
  Peer <- {n1, n2}, Genesis <- g, Block <- Chain, Prev <- PrevOf(Chain), Height <- HeightOf(Chain),
  Trust <- TrustOf(Chain), Dest <- {d1, d2}, Ident <- Idents(Chain, {d1, d2}),
  Own <- OwnOf({n1, n2}, {d1, d2}), CONSENSUS_DISTRIBUTE_INTERVAL <- 1, MaxBreaks <- 0

Init ==
  \/ instance = "breaks" /\ Breaks!Init
  \/ instance = "three" /\ Three!InitConnected
  \/ instance = "reorg" /\ Reorg!Init
  \/ instance = "live" /\ Live!InitConnected

Next ==
  /\ UNCHANGED instance
  /\ \/ instance = "breaks" /\ Breaks!Next
     \/ instance = "three" /\ Three!Next
     \/ instance = "reorg" /\ Reorg!Next
     \/ instance = "live" /\ Live!Next

\* The fairness of DelegatedChannel, for the instance that needs it
Spec ==
  /\ Init
  /\ [][Next]_vars
  /\ \A n \in {n1, n2} :
       /\ []<>(instance # "live" \/ ~fTimer[n]) \/ []<><<Live!PushBulletinTimerFunc(n)>>_vars
       /\ \/ []<>(instance # "live" \/ \A b \in Chain : TreeTrust[b] <= TreeTrust[tip[n]])
          \/ []<><<\E b \in Chain : Live!PrimaryUpdate(n, b)>>_vars
  /\ \A nm \in {<<n1, n2>>, <<n2, n1>>} :
       []<>(instance # "live" \/ chan[nm[2]][nm[1]] = << >>) \/ []<><<Live!Handle(nm[1], nm[2])>>_vars

\* CDataScheduler: what each peer is known to have, and what is known of each
\* datum, are the two sides of one relation
SchedConsistent ==
  CASE instance = "breaks" -> Breaks!TypeOK /\ Breaks!SchedConsistent
    [] instance = "three" -> Three!TypeOK /\ Three!SchedConsistent
    [] instance = "reorg" -> Reorg!TypeOK /\ Reorg!SchedConsistent
    [] instance = "live" -> Live!TypeOK /\ Live!SchedConsistent

\* CDelegatedChannel: a peer that is busy has a request or its answer on its way
BusyIsPending ==
  CASE instance = "breaks" -> Breaks!BusyIsPending [] instance = "three" -> Three!BusyIsPending
    [] instance = "reorg" -> Reorg!BusyIsPending [] instance = "live" -> Live!BusyIsPending

\* CDelegatedChannelChain::Update: the list of blocks is the end of the chain
FollowsChain == instance = "reorg" => Reorg!FollowsChain

\* CDelegatedChannel: nodes that stay connected come to have the same data
Spreads == instance = "live" => Live!Spreads
=============================================================================

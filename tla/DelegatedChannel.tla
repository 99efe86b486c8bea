-------------------------- MODULE DelegatedChannel --------------------------
(***************************************************************************)
(* CDelegatedChannel at every node: how the distributions and publications *)
(* of the delegates spread. A node keeps the data of its last blocks       *)
(* (CDelegatedChannelChain), tells its peers in bulletins what it has, and *)
(* asks each peer for one missing piece at a time (DataScheduler).         *)
(*                                                                         *)
(* A handler runs under the lock rwPeer and is one action. Messages of a   *)
(* connection arrive in order; a connection may break, and then both ends  *)
(* learn of it when they have handled what they had received. A bitmap is  *)
(* the set of the delegates whose bit is set.                              *)
(***************************************************************************)
EXTENDS DataScheduler, Integers, FiniteSets

CONSTANTS
    Block, Prev, Height, Trust,      \* the primary chain's blocks, as a tree
    Genesis,                         \* the block all nodes begin with
    Dest,                            \* the enrolled delegates
    Own,                             \* the delegates of each node
    NoBlock,
    CONSENSUS_DISTRIBUTE_INTERVAL,
    MaxBreaks                        \* bound on broken connections

Node == Peer

VARIABLES
    sched,      \* schedPeer of each node
    chain,      \* dataChain: [list, nLastBlockHeight, dist, pub]
    known,      \* what a node believes a peer knows: CDelegatedChannelPeer
    fTimer,     \* nTimerBulletin # 0
    fBulletin,
    tip,        \* the last block of the node's primary chain
    evolved,    \* at a height, the block that the delegate's vote is anchored at
    chan,       \* chan[n][m], the messages from n that m has not handled
    nBreaks,
    jumped      \* history: nodes that took several blocks in one update

vars == <<sched, chain, known, fTimer, fBulletin, tip, evolved, chan, nBreaks, jumped>>

I == CONSENSUS_DISTRIBUTE_INTERVAL

MaxHeight == CHOOSE h \in {Height[b] : b \in Block} : \A b \in Block : Height[b] <= h

Pairs == {nm \in Node \X Node : nm[1] # nm[2]}

RECURSIVE Ancestors(_)
Ancestors(b) == {b} \cup (IF b \in DOMAIN Prev THEN Ancestors(Prev[b]) ELSE {})

NoBits == [b \in Block |-> {}]

Unknown == [hashAnchor |-> NoBlock, bmDistribute |-> {}, bmPublish |-> {},
            mapDistributeBitmap |-> [b \in {} |-> {}]]

EmptyChain == [list |-> << >>, nLastBlockHeight |-> -1, dist |-> NoBits, pub |-> NoBits]

Connected(n, m) == m \in sched[n].mapPeer

-----------------------------------------------------------------------------
(* The data of the last blocks; the newest block is the head of the list *)

Full(c) == Len(c.list) = I + 1

\* Forget the data of a block that leaves the list.
Erase(c, b) == [c EXCEPT !.dist[b] = {}, !.pub[b] = {}]

PopFront(c) == [Erase(c, Head(c.list)) EXCEPT !.list = Tail(@), !.nLastBlockHeight = @ - 1]

RECURSIVE PopTo(_, _)
PopTo(c, h) ==
    IF c.nLastBlockHeight > h /\ c.list # << >> THEN PopTo(PopFront(c), h) ELSE c

TrimBack(c) ==
    IF Len(c.list) > I + 1 THEN [Erase(c, Last(c.list)) EXCEPT !.list = Front(@)] ELSE c

\* Mutant: blocks that the update left are not taken off the list.
UpdateChainKeep(c, nStartHeight, b, distribute, publish, anchor) ==
    LET popped == IF c.nLastBlockHeight < nStartHeight THEN EmptyChain ELSE c
        pushed == TrimBack([popped EXCEPT !.list = <<b>> \o @, !.nLastBlockHeight = nStartHeight + 1,
                                  !.dist[b] = @ \cup distribute])
    IN  IF Full(pushed) /\ Last(pushed.list) = anchor
        THEN [pushed EXCEPT !.pub[anchor] = @ \cup publish] ELSE pushed

\* CDelegatedChannelChain::Update for one evolved block, the newest.
UpdateChain(c, nStartHeight, b, distribute, publish, anchor) ==
    LET popped == IF c.nLastBlockHeight < nStartHeight THEN EmptyChain ELSE c
        cut == PopTo(popped, nStartHeight)
        pushed == TrimBack([cut EXCEPT !.list = <<b>> \o @, !.nLastBlockHeight = nStartHeight + 1,
                                  !.dist[b] = @ \cup distribute])
    IN  IF Full(pushed) /\ Last(pushed.list) = anchor
        THEN [pushed EXCEPT !.pub[anchor] = @ \cup publish] ELSE pushed

\* IsOutOfDistributeRange, IsOutOfPublishRange.
OutOfRange(c, i) ==
    IF i.nInvType = "distribute" THEN i.hashAnchor \notin Range(c.list)
    ELSE ~(Full(c) /\ Last(c.list) = i.hashAnchor)

\* AskForDistribute, AskForPublish: what the bitmap has and the node has not.
AskFor(c, type, b, bits) ==
    LET i(d) == [hashAnchor |-> b, nInvType |-> type, destDelegated |-> d]
        have == IF type = "distribute" THEN c.dist[b] ELSE c.pub[b]
    IN  {i(d) : d \in {d \in bits \ have : ~OutOfRange(c, i(d))}}

\* InsertDistributeData, InsertPublishData: what the data is after it.
Insert(c, i) ==
    IF OutOfRange(c, i) THEN c
    ELSE IF i.nInvType = "distribute" THEN [c EXCEPT !.dist[i.hashAnchor] = @ \cup {i.destDelegated}]
    ELSE [c EXCEPT !.pub[i.hashAnchor] = @ \cup {i.destDelegated}]

\* GetDistributeData, GetPublishData.
HasData(c, i) ==
    i.destDelegated \in (IF i.nInvType = "distribute" THEN c.dist ELSE c.pub)[i.hashAnchor]

-----------------------------------------------------------------------------
(* Bulletins *)

\* The bulletin of a node: the oldest block of the list with both bitmaps, the
\* others with the distributions only.
Bulletin(c) ==
    LET a == Last(c.list)
        others == SelectSeq(c.list, LAMBDA b : b # a /\ c.dist[b] # {})
    IN  [type |-> "bulletin", hashAnchor |-> a, bmDistribute |-> c.dist[a],
         bmPublish |-> IF Full(c) THEN c.pub[a] ELSE {},
         vBitmap |-> [k \in DOMAIN others |-> [hashAnchor |-> others[k], bitmap |-> c.dist[others[k]]]]]

BitsAt(f, b) == IF b \in DOMAIN f THEN f[b] ELSE {}

\* The positions of vBitmap that tell the peer something new.
NewAt(k, bu) ==
    {j \in DOMAIN bu.vBitmap :
        ~(bu.vBitmap[j].bitmap \subseteq BitsAt(k.mapDistributeBitmap, bu.vBitmap[j].hashAnchor))}

\* Mutant: what the peer has of the oldest block is not compared.
SameAnchorOnly(k, bu) == k.hashAnchor = bu.hashAnchor

SameAnchor(k, bu) ==
    /\ k.hashAnchor = bu.hashAnchor
    /\ bu.bmDistribute \subseteq k.bmDistribute /\ bu.bmPublish \subseteq k.bmPublish

\* CDelegatedChannelPeer::HaveUnknown.
HaveUnknown(k, bu) == ~SameAnchor(k, bu) \/ NewAt(k, bu) # {}

\* The entries that HaveUnknown's lookups create, up to the first that is new.
Looked(k, bu) ==
    IF ~SameAnchor(k, bu) THEN {}
    ELSE {bu.vBitmap[j].hashAnchor : j \in {j \in DOMAIN bu.vBitmap : \A l \in NewAt(k, bu) : j <= l}}

WithLooked(k, bu) ==
    [k EXCEPT !.mapDistributeBitmap = [b \in DOMAIN @ \cup Looked(k, bu) |-> BitsAt(@, b)]]

\* CDelegatedChannelPeer::Update: only the anchors the peer itself has named.
UpdateKnown(k, bu) ==
    LET told(b) == UNION {bu.vBitmap[j].bitmap : j \in {j \in DOMAIN bu.vBitmap : bu.vBitmap[j].hashAnchor = b}}
                   \cup (IF b = bu.hashAnchor /\ k.hashAnchor # b THEN bu.bmDistribute ELSE {})
        same == k.hashAnchor = bu.hashAnchor
    IN  [k EXCEPT !.bmDistribute = IF same THEN @ \cup bu.bmDistribute ELSE @,
                  !.bmPublish = IF same THEN @ \cup bu.bmPublish ELSE @,
                  !.mapDistributeBitmap = [b \in DOMAIN @ |-> @[b] \cup told(b)]]

\* CDelegatedChannelPeer::Renew.
Renew(bu) ==
    [hashAnchor |-> bu.hashAnchor, bmDistribute |-> bu.bmDistribute, bmPublish |-> bu.bmPublish,
     mapDistributeBitmap |->
        [b \in {bu.vBitmap[j].hashAnchor : j \in DOMAIN bu.vBitmap} |->
            bu.vBitmap[CHOOSE j \in DOMAIN bu.vBitmap : bu.vBitmap[j].hashAnchor = b].bitmap]]

\* PushBulletin: the peers that get it, and what is known of the peers after it.
Told(n, s, c, k) ==
    IF c.list = << >> THEN {} ELSE {m \in s.mapPeer : HaveUnknown(k[m], Bulletin(c))}

PushKnown(n, s, c, k) ==
    [m \in Node |->
        IF c.list = << >> \/ m \notin s.mapPeer THEN k[m]
        ELSE IF m \in Told(n, s, c, k) THEN UpdateKnown(WithLooked(k[m], Bulletin(c)), Bulletin(c))
        ELSE WithLooked(k[m], Bulletin(c))]

-----------------------------------------------------------------------------
(* Steps of a node: its new state and the messages it sends *)

\* PeerNet sends to a peer whose connection is up.
Up(n, m) == ~(chan[m][n] # << >> /\ Last(chan[m][n]).type = "deactive")

\* The channels after n took the first message of `from` (or nothing, when
\* from = n) and sent the requests and, to `told`, the bulletin; PrimaryUpdate
\* sends the bulletin first.
Sent(n, from, requests, told, bu, answer) ==
    LET gets(m) == [k \in DOMAIN SelectSeq(requests, LAMBDA r : r.to = m) |->
                        [type |-> "get", ident |-> SelectSeq(requests, LAMBDA r : r.to = m)[k].ident]]
        bulletin(m) == IF m \in told THEN <<bu>> ELSE << >>
        to(m) == IF from = n THEN bulletin(m) \o gets(m)
                 ELSE (IF m = from THEN answer ELSE << >>) \o gets(m) \o bulletin(m)
    IN  [a \in Node |-> [b \in Node |->
            CASE a = n /\ b # n /\ Up(n, b) -> chan[a][b] \o to(b)
              [] a = from /\ b = n /\ from # n -> Tail(chan[a][b])
              [] OTHER -> chan[a][b]]]

\* DispatchGetDelegated.
Dispatch(s, c, order) ==
    Schedule(s, order, {i \in Ident : i.hashAnchor \in Range(c.list)})

Sched(t) == [f \in {"mapPeer", "listDataIdent", "fAssigned", "setKnownPeer", "nAssigned"} |-> t[f]]

\* The order of the peers by their nonces, which are random.
Orders(n) == SetToSeqs(sched[n].mapPeer)

\* The end of a handler of n, which handled a message of `from`: the scheduler
\* s, the data c and what is known k, with the requests of t and, when
\* `push` says so, BroadcastBulletin ("forced", "later").
Finish(n, from, t, c, k, push, answer) ==
    LET now == push = "forced" \/ (push = "later" /\ ~fTimer[n])
        bu == IF c.list = << >> THEN [type |-> "none"] ELSE Bulletin(c)
    IN  /\ sched' = [sched EXCEPT ![n] = Sched(t)]
        /\ chain' = [chain EXCEPT ![n] = c]
        /\ known' = [known EXCEPT ![n] = IF now THEN PushKnown(n, t, c, k) ELSE k]
        /\ fTimer' = [fTimer EXCEPT ![n] = @ \/ now]
        /\ fBulletin' = [fBulletin EXCEPT ![n] =
                            IF push = "forced" /\ fTimer[n] THEN FALSE
                            ELSE @ \/ (push = "later" /\ fTimer[n])]
        /\ chan' = Sent(n, from, t.out, IF now THEN Told(n, t, c, k) ELSE {}, bu, answer)

Handles(n, m, type) == chan[m][n] # << >> /\ Head(chan[m][n]).type = type

Quiet(s) == [x \in DOMAIN s \cup {"out"} |-> IF x = "out" THEN << >> ELSE s[x]]

-----------------------------------------------------------------------------
(* Actions *)

Init ==
    /\ sched = [n \in Node |-> NoData]
    /\ chain = [n \in Node |-> EmptyChain]
    /\ known = [n \in Node |-> [m \in Node |-> Unknown]]
    /\ fTimer = [n \in Node |-> FALSE]
    /\ fBulletin = [n \in Node |-> FALSE]
    /\ tip = [n \in Node |-> Genesis]
    /\ evolved = [n \in Node |-> [h \in 0..MaxHeight |-> NoBlock]]
    /\ chan = [n \in Node |-> [m \in Node |-> IF n = m THEN << >> ELSE <<[type |-> "active"]>>]]
    /\ nBreaks = 0
    /\ jumped = {}

\* The nodes are connected before the first of the blocks comes. (A new
\* connection tells a peer nothing until the next block or the next data.)
InitConnected ==
    /\ sched = [n \in Node |-> [NoData EXCEPT !.mapPeer = Node \ {n}]]
    /\ chan = [n \in Node |-> [m \in Node |-> << >>]]
    /\ chain = [n \in Node |-> EmptyChain]
    /\ known = [n \in Node |-> [m \in Node |-> Unknown]]
    /\ fTimer = [n \in Node |-> FALSE]
    /\ fBulletin = [n \in Node |-> FALSE]
    /\ tip = [n \in Node |-> Genesis]
    /\ evolved = [n \in Node |-> [h \in 0..MaxHeight |-> NoBlock]]
    /\ nBreaks = 0
    /\ jumped = {}

\* A block becomes the last of n's primary chain, with those of its branch:
\* CConsensus::PrimaryUpdate evolves the delegate with the newest block only,
\* and CDelegatedChannel::PrimaryUpdate takes what it returns.
PrimaryUpdate(n, b) ==
    LET add == Ancestors(b) \ Ancestors(tip[n])
        nStartHeight == Height[b] - Cardinality(add)
        anchor == IF Height[b] >= I THEN (evolved'[n])[Height[b] - I] ELSE NoBlock
        c == UpdateChain(chain[n], nStartHeight, b, Own[n],
                         IF anchor = NoBlock THEN {} ELSE Own[n], anchor)
    IN  /\ Trust[b] > Trust[tip[n]]
        /\ tip' = [tip EXCEPT ![n] = b]
        /\ evolved' = [evolved EXCEPT ![n][Height[b]] = b]
        /\ jumped' = IF Cardinality(add) > 1 THEN jumped \cup {n} ELSE jumped
        /\ UNCHANGED nBreaks
        /\ \E order \in Orders(n) :
              LET t == Dispatch(sched[n], c, order)
              IN  Finish(n, n, t, c, known[n], "forced", << >>)

HandlePeerActive(n, m) ==
    /\ Handles(n, m, "active")
    /\ Finish(n, m, Quiet(ActivatePeer(sched[n], m)), chain[n], [known[n] EXCEPT ![m] = Unknown],
              "no", << >>)
    /\ UNCHANGED <<tip, evolved, nBreaks, jumped>>

HandlePeerDeactive(n, m) ==
    /\ Handles(n, m, "deactive")
    /\ \E order \in Orders(n) :
          Finish(n, m, Dispatch(DeactivatePeer(sched[n], m), chain[n], order), chain[n], known[n],
                 "no", << >>)
    /\ UNCHANGED <<tip, evolved, nBreaks, jumped>>

\* What a bulletin announces that n lacks, in the order of AddPeerKnown*.
Announced(c, bu) ==
    SetToSeq(AskFor(c, "distribute", bu.hashAnchor, bu.bmDistribute))
    \o SetToSeq(AskFor(c, "publish", bu.hashAnchor, bu.bmPublish))
    \o FlattenSeq([k \in DOMAIN bu.vBitmap |->
          SetToSeq(AskFor(c, "distribute", bu.vBitmap[k].hashAnchor, bu.vBitmap[k].bitmap))])

HandlePeerBulletin(n, m) ==
    /\ Handles(n, m, "bulletin")
    /\ LET bu == Head(chan[m][n])
           s == FoldLeft(LAMBDA t, i : AddKnownData(t, m, i), sched[n], Announced(chain[n], bu))
       IN  \E order \in Orders(n) :
              Finish(n, m, Dispatch(s, chain[n], order), chain[n],
                     IF Connected(n, m) THEN [known[n] EXCEPT ![m] = Renew(bu)] ELSE known[n],
                     "no", << >>)
    /\ UNCHANGED <<tip, evolved, nBreaks, jumped>>

\* The answer is empty when the data is gone.
HandlePeerGetDelegated(n, m) ==
    /\ Handles(n, m, "get")
    /\ LET i == Head(chan[m][n]).ident
       IN  Finish(n, m, Quiet(sched[n]), chain[n], known[n], "no",
                  <<[type |-> "data", ident |-> i, full |-> HasData(chain[n], i)]>>)
    /\ UNCHANGED <<tip, evolved, nBreaks, jumped>>

\* CDispatcher::AddNewDistribute, AddNewPublish: the vote must be anchored there.
Accepted(n, i) == evolved[n][Height[i.hashAnchor]] = i.hashAnchor

\* HandleEvent of CEventPeerDistribute and CEventPeerPublish. Nothing is
\* scheduled after an empty or a refused answer.
HandlePeerData(n, m) ==
    /\ Handles(n, m, "data")
    /\ LET i == Head(chan[m][n]).ident
           full == Head(chan[m][n]).full
           s == RemoveKnownData(sched[n], i)
           c == Insert(chain[n], i)
       IN  IF sched[n].nAssigned[i] # m
           THEN Finish(n, m, Quiet(sched[n]), chain[n], known[n], "no", << >>)
           ELSE IF OutOfRange(chain[n], i)
           THEN \E order \in Orders(n) :
                   Finish(n, m, Dispatch(s, chain[n], order), chain[n], known[n], "no", << >>)
           ELSE IF ~full \/ ~Accepted(n, i)
           THEN Finish(n, m, Quiet(s), chain[n], known[n], "no", << >>)
           ELSE \E order \in Orders(n) :
                   LET t == Dispatch(s, chain[n], order)
                   IN  Finish(n, m, t, c, known[n],
                              IF c = chain[n] THEN "no" ELSE IF t.out = << >> THEN "forced" ELSE "later",
                              << >>)
    /\ UNCHANGED <<tip, evolved, nBreaks, jumped>>

PushBulletinTimerFunc(n) ==
    /\ fTimer[n]
    /\ fTimer' = [fTimer EXCEPT ![n] = fBulletin[n]]
    /\ fBulletin' = [fBulletin EXCEPT ![n] = FALSE]
    /\ IF fBulletin[n] /\ chain[n].list # << >>
       THEN /\ known' = [known EXCEPT ![n] = PushKnown(n, sched[n], chain[n], known[n])]
            /\ chan' = Sent(n, n, << >>, Told(n, sched[n], chain[n], known[n]), Bulletin(chain[n]), << >>)
       ELSE UNCHANGED <<known, chan>>
    /\ UNCHANGED <<sched, chain, tip, evolved, nBreaks, jumped>>

\* A connection breaks, by either end or by a request's timer: what was under
\* way is lost in part, and both ends are told after what they had received.
Break(n, m) ==
    /\ nBreaks < MaxBreaks
    /\ Up(n, m) /\ Up(m, n)
    /\ nBreaks' = nBreaks + 1
    /\ \E k \in 0..Len(chan[n][m]), l \in 0..Len(chan[m][n]) :
          /\ k = 0 => n \in sched[m].mapPeer
          /\ l = 0 => m \in sched[n].mapPeer
          /\ chan' = [chan EXCEPT ![n][m] = Append(SubSeq(@, 1, k), [type |-> "deactive"]),
                                  ![m][n] = Append(SubSeq(@, 1, l), [type |-> "deactive"])]
    /\ UNCHANGED <<sched, chain, known, fTimer, fBulletin, tip, evolved, jumped>>

\* A new connection of two nodes, once both have handled the end of the last.
Connect(n, m) ==
    /\ m \notin sched[n].mapPeer /\ n \notin sched[m].mapPeer
    /\ chan[n][m] = << >> /\ chan[m][n] = << >>
    /\ chan' = [chan EXCEPT ![n][m] = <<[type |-> "active"]>>, ![m][n] = <<[type |-> "active"]>>]
    /\ UNCHANGED <<sched, chain, known, fTimer, fBulletin, tip, evolved, nBreaks, jumped>>

Handle(n, m) ==
    \/ HandlePeerActive(n, m)
    \/ HandlePeerDeactive(n, m)
    \/ HandlePeerBulletin(n, m)
    \/ HandlePeerGetDelegated(n, m)
    \/ HandlePeerData(n, m)

Next ==
    \/ \E n \in Node : PushBulletinTimerFunc(n) \/ \E b \in Block : PrimaryUpdate(n, b)
    \/ \E nm \in Pairs : Handle(nm[1], nm[2]) \/ Break(nm[1], nm[2]) \/ Connect(nm[1], nm[2])

Spec == Init /\ [][Next]_vars

ConnectedSpec == InitConnected /\ [][Next]_vars

\* Weak fairness: the channel's thread handles its events, timers fire, and
\* the nodes learn of the blocks. (The guards are written out; they are what
\* enables the actions.)
FairSpec ==
    /\ ConnectedSpec
    /\ \A n \in Node :
          /\ []<>~fTimer[n] \/ []<><<PushBulletinTimerFunc(n)>>_vars
          /\ \/ []<>(\A b \in Block : Trust[b] <= Trust[tip[n]])
             \/ []<><<\E b \in Block : PrimaryUpdate(n, b)>>_vars
    /\ \A nm \in Pairs : []<>(chan[nm[2]][nm[1]] = << >>) \/ []<><<Handle(nm[1], nm[2])>>_vars

-----------------------------------------------------------------------------
(* Properties *)

TypeOK ==
    /\ \A n \in Node :
          /\ sched[n].mapPeer \subseteq Node /\ sched[n].fAssigned \subseteq sched[n].mapPeer
          /\ chain[n].dist \in [Block -> SUBSET Dest] /\ chain[n].pub \in [Block -> SUBSET Dest]
          /\ Range(chain[n].list) \subseteq Block /\ Len(chain[n].list) <= I + 1
          /\ tip[n] \in Block
    /\ nBreaks \in 0..MaxBreaks

\* The index of announced data stays consistent through announcements, answers,
\* refusals and broken connections (DataScheduler's Consistent).
SchedConsistent == \A n \in Node : Consistent(sched[n])

\* A peer that counts as busy owes an answer: the request or its answer is on
\* the way, or the connection's end is. fAssigned has no timeout of its own, so
\* a peer busy with nothing would never be asked again.
BusyIsPending ==
    \A n \in Node : \A m \in sched[n].fAssigned :
        \/ \E k \in DOMAIN chan[n][m] : chan[n][m][k].type = "get"
                                         /\ sched[n].nAssigned[chan[n][m][k].ident] = m
        \/ \E k \in DOMAIN chan[m][n] : chan[m][n][k].type = "data"
                                         /\ sched[n].nAssigned[chan[m][n][k].ident] = m
        \/ \E k \in DOMAIN chan[m][n] : chan[m][n][k].type = "deactive"

\* The list holds exactly the last blocks of the node's chain, and data for no
\* other block, as long as every update brought one block. (Consensus evolves
\* with the newest block of an update only, so after an update of several the
\* height that the channel counts is too low, and the next update clears it.)
FollowsChain ==
    \A n \in Node \ jumped :
        /\ \A k \in DOMAIN chain[n].list :
              /\ chain[n].list[k] \in Ancestors(tip[n])
              /\ Height[chain[n].list[k]] = Height[tip[n]] - (k - 1)
        /\ tip[n] # Genesis => chain[n].list # << >>
        /\ \A b \in Block : b \notin Range(chain[n].list) => chain[n].dist[b] = {} /\ chain[n].pub[b] = {}

\* When no more blocks come, nodes with the same blocks end up with the same
\* distributions, and with the same publications of the round that is due:
\* bulletins put off, dropped before their block is known or lost with a
\* connection are made up for by what the nodes tell each other later.
Spreads ==
    <>[](\A n, m \in Node : \A b \in Range(chain[n].list) \cap Range(chain[m].list) :
            /\ chain[n].dist[b] = chain[m].dist[b]
            /\ chain[n].pub[b] = chain[m].pub[b])
=============================================================================

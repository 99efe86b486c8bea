------------------------------ MODULE PeerNet ------------------------------
(***************************************************************************)
(* CBbPeerNet on top of CPeerNet and CIOProc: the peers, their timers and  *)
(* what the channels are told of them.  Everything runs in the io thread,  *)
(* so a completion handler, an event from a channel or one poll of the     *)
(* timers, with all it calls, is one step.  A message is what its handler  *)
(* does with it; the times of the timers are abstracted, so that any may   *)
(* expire at a poll.                                                       *)
(***************************************************************************)
EXTENDS EndpointManager, Sequences, SequencesExt, Folds

CONSTANTS Nonce,        \* of the peers, each used once
          Inv,          \* what may be requested from a peer
          MaxTimerId,   \* timer ids wrap around after this one
          MaxDue,       \* bound on the timers that expire at one poll
          MaxAsk,       \* bound on the queue of what a peer has asked for
          MaxOutBounds,
          Config        \* the nodes of the configuration

TimerId == 1..MaxTimerId

VARIABLES em,          \* the endpoint manager
          net,         \* peers and timers, a record:
          connecting,  \* how many connections to each node are under way
          used,        \* the nonces that have been used
          running      \* the io thread is in its loop

\* net.peer: NoPeer or the peer of each nonce; net.timer: the nonce of each
\* live timer, or NoNonce; net.expiry: its entries in mapTimerByExpiry;
\* net.nTimerId: the id given last; net.setDNSeed.  History: net.told, what
\* the channels were told of each peer; net.waiting, the requests whose end
\* the channels have not been told of; net.seeds, the peers that are dnseeds;
\* net.reused, an id was given away again within the poll that had collected it.

vars == <<em, net, connecting, used, running>>

NoPeer == [ep |-> "none"]
NoNonce == 0

Alive(n) == net.peer[n] # NoPeer
Peers == {n \in Nonce : Alive(n)}

\* The addresses with a connection, or one under way
Connected(peer, conn) ==
  {Address[peer[n].ep] : n \in {m \in Nonce : peer[m] # NoPeer}} \cup
  {Address[ep] : ep \in {e \in Node : conn[e] > 0}}

Init ==
  /\ em = [NewManager EXCEPT !.node = Config, !.mapIdle = [n \in Node |-> IF n \in Config THEN 1 ELSE 0]]
  /\ net = [peer |-> [n \in Nonce |-> NoPeer], timer |-> [t \in TimerId |-> NoNonce],
            expiry |-> [t \in TimerId |-> 0], nTimerId |-> 0, setDNSeed |-> {},
            told |-> [n \in Nonce |-> << >>], waiting |-> {}, seeds |-> {}, reused |-> FALSE]
  /\ connecting = [ep \in Node |-> 0]
  /\ used = {}
  /\ running = TRUE

(***************************************************************************)
(* Timers                                                                  *)
(***************************************************************************)
Free(w, t) == w.timer[t] = NoNonce

\* The id given last when its timer is gone, else the next free one
NextTimerId(w) ==
  IF w.nTimerId # 0 /\ Free(w, w.nTimerId) THEN w.nTimerId
  ELSE LET After(k) == ((w.nTimerId + k - 1) % MaxTimerId) + 1
       IN  After(CHOOSE k \in 1..MaxTimerId :
                   Free(w, After(k)) /\ \A j \in 1..(k - 1) : ~Free(w, After(j)))

CanSet(w) == \E t \in TimerId : Free(w, t)

SetTimer(w, n) ==
  [w EXCEPT !.timer[NextTimerId(w)] = n, !.expiry[NextTimerId(w)] = @ + 1, !.nTimerId = NextTimerId(w)]

\* Mutant: the timer stays in mapTimerById
CancelTimerHalf(w, t) ==
  IF t = 0 \/ (t # 0 /\ Free(w, t)) THEN w ELSE [w EXCEPT !.expiry[t] = IF @ > 0 THEN @ - 1 ELSE @]

CancelTimer(w, t) ==
  IF t = 0 THEN w
  ELSE IF Free(w, t) THEN w
  ELSE [w EXCEPT !.timer[t] = NoNonce, !.expiry[t] = IF @ > 0 THEN @ - 1 ELSE @]

CancelClientTimers(w, n) == FoldSet(LAMBDA t, v : CancelTimer(v, t), w, {t \in TimerId : w.timer[t] = n})

(***************************************************************************)
(* Peers                                                                   *)
(***************************************************************************)

\* CPeer::WriteStream: a write is begun, or more is queued behind the one that
\* is under way.  Writes matter to what the peer has asked for only, and are
\* not followed where it asks for nothing.
SendMessage(w, n) == IF MaxAsk = 0 THEN w ELSE [w EXCEPT !.peer[n].writing = IF @ = 0 THEN 1 ELSE 2]

\* CreatePeer with its handshake timer, and AddNewPeer; an outbound peer says
\* hello
AddNewPeer(w, n, ep, fInBound) ==
  LET v == SetTimer(w, n)
      u == [v EXCEPT !.peer[n] = [ep |-> ep, fInBound |-> fInBound, hello |-> FALSE,
                                  nHsTimerId |-> v.nTimerId, nPingTimerId |-> 0,
                                  mapRequest |-> [i \in Inv |-> 0], ask |-> 0, writing |-> 0]]
  IN  IF fInBound THEN u ELSE SendMessage(u, n)

\* Mutant: a peer that did not complete the handshake is reported too
DestroyPeerAlways(w, n) ==
  [w EXCEPT !.peer[n] = NoPeer,
            !.told[n] = Append(@, "deactive"),
            !.waiting = {r \in @ : r[1] # n}]

\* CBbPeerNet::DestroyPeer: the channels are told of a peer that had completed
\* the handshake
DestroyPeer(w, n) ==
  [w EXCEPT !.peer[n] = NoPeer,
            !.told[n] = IF w.peer[n].nHsTimerId = 0 THEN Append(@, "deactive") ELSE @,
            !.waiting = IF w.peer[n].nHsTimerId = 0 THEN {r \in @ : r[1] # n} ELSE @]

\* CPeerNet::RemovePeer, the results for the endpoint manager and the rest
RemovePeer(e, w, n, reason) ==
  {<<f, DestroyPeer(CancelClientTimers(w, n), n)>> :
     f \in CloseEndpoint(e, w.peer[n].ep, reason, Connected([w.peer EXCEPT ![n] = NoPeer], connecting))}

Becomes(results) == \E r \in results : em' = r[1] /\ net' = r[2]

(***************************************************************************)
(* Connections                                                             *)
(***************************************************************************)
OutBound == Cardinality({n \in Peers : ~net.peer[n].fInBound}) + SumFunction(connecting)

\* Connect() may fail at once
HeartBeat(ep) ==
  /\ OutBound < MaxOutBounds
  /\ em.mapIdle[ep] > 0
  /\ \/ \E e \in FetchOutBound(em, ep) :
          \/ em' = e /\ connecting' = [connecting EXCEPT ![ep] = @ + 1]
          \/ em' \in CloseEndpoint(e, ep, "CONNECT_FAILURE", Connected(net.peer, connecting))
             /\ UNCHANGED connecting
     \/ em' \in FetchRefused(em, ep) /\ UNCHANGED connecting
  /\ UNCHANGED <<net, used, running>>

ClientConnected(ep, n) ==
  /\ connecting[ep] > 0
  /\ n \notin used /\ CanSet(net)
  /\ connecting' = [connecting EXCEPT ![ep] = @ - 1]
  /\ net' = AddNewPeer(net, n, ep, FALSE)
  /\ used' = used \cup {n}
  /\ UNCHANGED <<em, running>>

\* The attempt failed or timed out
ClientFailToConnect(ep) ==
  /\ connecting[ep] > 0
  /\ connecting' = [connecting EXCEPT ![ep] = @ - 1]
  /\ em' \in CloseEndpoint(em, ep, "CONNECT_FAILURE", Connected(net.peer, connecting'))
  /\ UNCHANGED <<net, used, running>>

\* Refused for its attempts, a ban or the limit, or made a peer
ClientAccepted(ep, n) ==
  /\ n \notin used /\ CanSet(net)
  /\ \/ em' = Status(em, Address[ep]) /\ UNCHANGED <<net, used>>
     \/ /\ em' \in AcceptInBound(em, ep)
        /\ net' = AddNewPeer(net, n, ep, TRUE)
        /\ used' = used \cup {n}
  /\ UNCHANGED <<connecting, running>>

(***************************************************************************)
(* The handshake                                                           *)
(***************************************************************************)

\* CBbPeerNet::HandlePeerHandshaked when it accepts the peer, then
\* HandshakeCompleted.  The channels are told, unless the peer is a dnseed;
\* it is asked for addresses.
HandlePeerHandshaked(w, n) ==
  LET p == w.peer[n]
      v == CancelTimer(w, p.nHsTimerId)
      seeds == IF ~p.fInBound /\ p.ep \in Seed THEN v.setDNSeed \cup {p.ep} ELSE v.setDNSeed
      u == SendMessage([v EXCEPT !.setDNSeed = seeds, !.peer[n].nHsTimerId = 0], n)
      t == SetTimer([u EXCEPT !.told[n] = Append(@, "active")], n)
  IN  IF p.ep \in seeds THEN [u EXCEPT !.seeds = @ \cup {n}]
      ELSE [t EXCEPT !.peer[n].nPingTimerId = t.nTimerId]

\* Refused for its version or its genesis block, or because it is this node
\* itself: that endpoint is not to be connected to again
HandshakeRefused(n) ==
  LET w == CancelTimer(net, net.peer[n].nHsTimerId)
      p == net.peer[n]
  IN  \/ Becomes(RemovePeer(em, w, n, "PROTOCOL_INVALID"))
      \/ /\ ~p.fInBound
         /\ \E m \in Peers \ {n} : net.peer[m].fInBound
         /\ Becomes(RemovePeer(RemoveOutBound(em, p.ep), w, n, "PROTOCOL_INVALID"))

Handshaking(n) == Alive(n) /\ net.peer[n].nHsTimerId # 0

\* HELLO: an outbound peer acknowledges it and is done, an inbound one answers
RecvHello(n) ==
  /\ Handshaking(n)
  /\ ~net.peer[n].hello
  /\ LET w == SendMessage([net EXCEPT !.peer[n].hello = TRUE], n)
     IN  IF net.peer[n].fInBound THEN net' = w /\ UNCHANGED em
         ELSE \/ CanSet(net) /\ net' = HandlePeerHandshaked(w, n) /\ UNCHANGED em
              \/ HandshakeRefused(n)
  /\ UNCHANGED <<connecting, used, running>>

RecvHelloAck(n) ==
  /\ Handshaking(n)
  /\ net.peer[n].fInBound /\ net.peer[n].hello
  /\ \/ CanSet(net) /\ net' = HandlePeerHandshaked(net, n) /\ UNCHANGED em
     \/ HandshakeRefused(n)
  /\ UNCHANGED <<connecting, used, running>>

\* The socket fails, or what was read is no message: HandlePeerError,
\* HandlePeerViolate; or the operator's or a channel's CEventPeerNetClose
PeerEnds(n) ==
  /\ Alive(n)
  /\ \E reason \in {"NETWORK_ERROR", "PROTOCOL_INVALID", "HOST_CLOSE"} : Becomes(RemovePeer(em, net, n, reason))
  /\ UNCHANGED <<connecting, used, running>>

(***************************************************************************)
(* Messages of a peer that has completed the handshake                     *)
(***************************************************************************)
Ready(n) == Alive(n) /\ net.peer[n].nHsTimerId = 0

\* ADDRESS: a node that is no dnseed is added
RecvAddress(n, ep) ==
  /\ Ready(n)
  /\ ep \notin net.setDNSeed
  /\ em' \in AddNew(em, ep)
  /\ UNCHANGED <<net, connecting, used, running>>

\* PING and GETADDRESS, and what the channels send without waiting for an answer
Send(n) ==
  /\ Ready(n)
  /\ net' = SendMessage(net, n)
  /\ UNCHANGED <<em, connecting, used, running>>

\* One of the things the peer has asked for is passed on to the net channel
ProcessAskFor(w, n) == [w EXCEPT !.peer[n].ask = IF @ > 0 THEN @ - 1 ELSE @]

\* GETDATA: all are queued, and the first is passed on
RecvGetData(n) ==
  /\ Ready(n)
  /\ net.peer[n].ask < MaxAsk
  /\ net' = ProcessAskFor([net EXCEPT !.peer[n].ask = MaxAsk], n)
  /\ UNCHANGED <<em, connecting, used, running>>

\* Mutant: the next thing asked for is not passed on
HandleWritenIdle(n) ==
  /\ Alive(n)
  /\ net.peer[n].writing > 0
  /\ net' = [net EXCEPT !.peer[n].writing = @ - 1]
  /\ UNCHANGED <<em, connecting, used, running>>

\* CPeer::HandleWriten, HandlePeerWriten
HandleWriten(n) ==
  /\ Alive(n)
  /\ net.peer[n].writing > 0
  /\ net' = ProcessAskFor([net EXCEPT !.peer[n].writing = @ - 1], n)
  /\ UNCHANGED <<em, connecting, used, running>>

\* The timer of a request that was answered is cancelled
Responded(w, n, i) ==
  [CancelTimer(w, w.peer[n].mapRequest[i]) EXCEPT !.peer[n].mapRequest[i] = 0, !.waiting = @ \ {<<n, i>>}]

\* TX, BLOCK, DISTRIBUTE, PUBLISH, or GETFAIL for several
RecvResponse(n, invs) ==
  /\ Ready(n)
  /\ net' = FoldSet(LAMBDA i, w : Responded(w, n, i), net, invs)
  /\ UNCHANGED <<em, connecting, used, running>>

(***************************************************************************)
(* Requests of the channels                                                *)
(***************************************************************************)

\* One round of SetInvTimer
Request(w, n, i) ==
  LET v == SetTimer(w, n)
  IN  [CancelTimer(v, v.peer[n].mapRequest[i]) EXCEPT !.peer[n].mapRequest[i] = v.nTimerId]

\* CEventPeerGetData and CEventPeerGetDelegated, from a channel that was told
\* of the peer at some time: sent and timed, or the net channel gets a failure
EventGetData(n, i) ==
  /\ net.told[n] # << >>
  /\ CanSet(net)
  /\ net' = IF Alive(n) THEN [Request(SendMessage(net, n), n, i) EXCEPT !.waiting = @ \cup {<<n, i>>}]
            ELSE net
  /\ UNCHANGED <<em, connecting, used, running>>

(***************************************************************************)
(* The poll of the timers                                                  *)
(***************************************************************************)

\* The timer has left mapTimerById; the ping timer is set again, any other
\* ends the peer (CPeerNet::Timeout).  due are the ids still to come.
FireTimer(e, w, t, due) ==
  LET n == w.timer[t]
      v == [w EXCEPT !.timer[t] = NoNonce]
      u == SetTimer(SendMessage(v, n), n)
  IN  IF n = NoNonce THEN {<<e, w>>}
      ELSE IF w.peer[n] = NoPeer THEN {<<e, v>>}
      ELSE IF w.peer[n].nPingTimerId = t
      THEN {<<e, [u EXCEPT !.peer[n].nPingTimerId = u.nTimerId, !.reused = @ \/ u.nTimerId \in due]>>}
      ELSE RemovePeer(e, v, n, "RESPONSE_FAILURE")

\* The timers in the order of their expiry
RECURSIVE Fire(_, _)
Fire(results, due) ==
  IF due = << >> THEN results
  ELSE Fire(UNION {FireTimer(r[1], r[2], Head(due), ToSet(Tail(due))) : r \in results}, Tail(due))

\* The timers that may expire together
Due == {d \in UNION {[1..k -> TimerId] : k \in 1..MaxDue} :
          IsInjective(d) /\ \A i \in DOMAIN d : net.expiry[d[i]] > 0}

\* The expired timers leave mapTimerByExpiry, then fire one by one
Poll(d) ==
  Becomes(Fire({<<em, [net EXCEPT !.expiry = [t \in TimerId |-> IF t \in ToSet(d) THEN @[t] - 1 ELSE @[t]]]>>}, d))

IOProcPollTimer ==
  /\ \E d \in Due : Poll(d)
  /\ UNCHANGED <<connecting, used, running>>

(***************************************************************************)
(* The operator's events, and the end of the io thread                     *)
(***************************************************************************)
EventAddNode(ep) ==
  /\ em' \in AddNew(em, ep)
  /\ UNCHANGED <<net, connecting, used, running>>

\* The node is forgotten and a peer at that endpoint is closed
EventRemoveNode(ep) ==
  /\ LET at == {n \in Peers : net.peer[n].ep = ep}
     IN  IF at = {} THEN em' = RemoveOutBound(em, ep) /\ UNCHANGED net
         ELSE \E n \in at : Becomes(RemovePeer(RemoveOutBound(em, ep), net, n, "HOST_CLOSE"))
  /\ UNCHANGED <<connecting, used, running>>

\* CEventPeerNetSetBan, CEventPeerNetClrBanned, and CEventPeerNetReward, which
\* cleans up
EventBan(a) == em' = Status(em, a) /\ UNCHANGED <<net, connecting, used, running>>

EventClrBanned(a) ==
  /\ em' = ClearBanned(em, a, Connected(net.peer, connecting))
  /\ UNCHANGED <<net, connecting, used, running>>

EventReward(n) ==
  /\ Alive(n)
  /\ em' \in CleanInactiveAddress(Status(em, Address[net.peer[n].ep]), Connected(net.peer, connecting))
  /\ UNCHANGED <<net, connecting, used, running>>

\* Every peer is removed; then the manager and the timers are cleared
LeaveLoop ==
  /\ running' = FALSE
  /\ net' = [FoldSet(LAMBDA n, w : DestroyPeer(CancelClientTimers(w, n), n), net, Peers)
              EXCEPT !.timer = [t \in TimerId |-> NoNonce], !.expiry = [t \in TimerId |-> 0]]
  /\ em' = NewManager
  /\ connecting' = [ep \in Node |-> 0]
  /\ UNCHANGED used

\* A loop that does not end, or an id that was given away again, ends what the
\* properties say
Going == running /\ ~em.stuck /\ ~net.reused

Next ==
  /\ Going
  /\ \/ \E ep \in Node : \/ HeartBeat(ep) \/ ClientFailToConnect(ep)
                         \/ EventAddNode(ep) \/ EventRemoveNode(ep)
                         \/ \E n \in Nonce : ClientConnected(ep, n) \/ RecvAddress(n, ep)
     \/ \E ep \in Remote, n \in Nonce : ClientAccepted(ep, n)
     \/ \E n \in Nonce : \/ RecvHello(n) \/ RecvHelloAck(n) \/ PeerEnds(n)
                         \/ Send(n) \/ RecvGetData(n) \/ HandleWriten(n) \/ EventReward(n)
                         \/ \E i \in Inv : EventGetData(n, i)
                         \/ \E invs \in SUBSET Inv \ {{}} : RecvResponse(n, invs)
     \/ \E a \in Addr : EventBan(a) \/ EventClrBanned(a)
     \/ IOProcPollTimer
     \/ LeaveLoop

Spec == Init /\ [][Next]_vars

\* The write of a message is completed, or fails; a ping timer expires
Pinged(n) ==
  /\ Going /\ Alive(n)
  /\ \E d \in Due : net.peer[n].nPingTimerId \in ToSet(d) /\ Poll(d)
  /\ UNCHANGED <<connecting, used, running>>

FairSpec ==
  /\ Spec
  /\ \A n \in Nonce : WF_vars(Going /\ HandleWriten(n)) /\ WF_vars(Pinged(n))

(***************************************************************************)
(* Properties                                                              *)
(***************************************************************************)
Timers(n) ==
  LET p == net.peer[n]
  IN  <<p.nHsTimerId, p.nPingTimerId>> \o SetToSeq({p.mapRequest[i] : i \in Inv})

\* Every live timer is the handshake timer, the ping timer or the timer of one
\* request of one live peer, and each of these has its timer: no timer of an
\* answered request or of a removed peer can end a later peer's connection,
\* and no request waits without one.  An id that SetTimer gave away again
\* within the poll that had already collected it is the one exception: the new
\* timer is fired at once and its entry in mapTimerByExpiry stays behind.
TimersMatch ==
  ~net.reused =>
    /\ \A t \in TimerId :
         /\ net.expiry[t] = (IF net.timer[t] = NoNonce THEN 0 ELSE 1)
         /\ net.timer[t] # NoNonce =>
              Alive(net.timer[t]) /\ t \in ToSet(Timers(net.timer[t]))
    /\ \A n \in Peers :
         /\ \A t \in ToSet(Timers(n)) \ {0} : net.timer[t] = n
         /\ net.peer[n].nHsTimerId # 0 => net.peer[n].nPingTimerId = 0
         /\ \A i, j \in Inv : i # j /\ net.peer[n].mapRequest[i] # 0 =>
              net.peer[n].mapRequest[i] # net.peer[n].mapRequest[j]

\* The channels are told of a peer once when it has completed the handshake and
\* once when it goes, and never of one that did not (only a dnseed's end is
\* announced without its beginning); and every request they have made and not
\* been told the end of is timed at a live peer.
ChannelsTold ==
  /\ \A n \in Nonce :
       /\ net.told[n] \in {<< >>, <<"active">>, <<"active", "deactive">>}
            \cup (IF n \in net.seeds THEN {<<"deactive">>} ELSE {})
       /\ net.told[n] = <<"active">> <=> Ready(n) /\ n \notin net.seeds
  /\ \A r \in net.waiting : Alive(r[1]) /\ net.peer[r[1]].mapRequest[r[2]] # 0

ConnectionsAt(a) ==
  SumFunctionOnSet(connecting, {ep \in Node : Address[ep] = a})
    + Cardinality({n \in Peers : Address[net.peer[n].ep] = a})

Employed(ep) == connecting[ep] > 0 \/ \E n \in Peers : net.peer[n].ep = ep

\* A node that is known is waiting for its turn or is connected, so none is left
\* out for good; the count of every address is the number of its connections,
\* so the limits hold: one outbound connection to an address, and
\* CONNECTION_LIMIT in all.  Left out are dnseeds, which have no limit, and
\* addresses whose status ClearBanned or CleanInactiveAddress erased while they
\* were connected: their count falls below the truth.
NodesKept ==
  running /\ ~em.stuck =>
    /\ \A ep \in em.node : em.mapIdle[ep] > 0 \/ Employed(ep)
    /\ \A a \in Addr \ em.forgot :
         /\ em.conn[a] = ConnectionsAt(a)
         /\ a \notin {Address[ep] : ep \in Seed} =>
              /\ em.conn[a] <= CONNECTION_LIMIT
              /\ SumFunctionOnSet(connecting, {ep \in Node : Address[ep] = a})
                   + Cardinality({n \in Peers : Address[net.peer[n].ep] = a /\ ~net.peer[n].fInBound}) <= 1

\* What a peer has asked for is passed on in time while it stays connected:
\* every write that completes takes the next from the queue, and a peer that
\* nothing is sent to is pinged.  A dnseed is not.
AskServed ==
  \A n \in Nonce :
    (Alive(n) /\ n \notin net.seeds /\ net.peer[n].ask > 0) ~> ~(Going /\ Alive(n) /\ net.peer[n].ask > 0)
=============================================================================

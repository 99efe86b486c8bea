------------------------------- MODULE MCNet -------------------------------
(***************************************************************************)
(* The peer network: the sockets of a CIOProc, one direction of a          *)
(* connection between two CPeers, and the peers of a CBbPeerNet.  They     *)
(* meet in the calls of a socket and of a peer only, which each module     *)
(* models from its side; a behaviour is one of one instance, chosen in the *)
(* initial state, while the others stay as they began.  Liveness is        *)
(* checked on smaller instances.                                           *)
(***************************************************************************)
EXTENDS IOPool

CONSTANTS i1, i2, i3, i4

VARIABLES part,
    sent, ssTunSend, writing, wire, reading, ssTunRecv, nPacketSize,
    ssHisRecv, nReadLength, hdrRecv, received, closed,
    em, net, connecting, used, running

tunnelVars == <<sent, ssTunSend, writing, wire, reading, ssTunRecv, nPacketSize,
                ssHisRecv, nReadLength, hdrRecv, received, closed>>

peerVars == <<em, net, connecting, used, running>>

netVars == <<part, s, tunnelVars, peerVars>>

FewSockets == INSTANCE IOPool WITH InClient <- {i1, i2, i3}

\* Two tunnels; packets shorter and longer than a chunk
Tunnels == INSTANCE PeerTunnel WITH
    Tunnel <- {1, 2}, SizeBytes <- 2, HeaderBytes <- 1, Payloads <- {0, 2},
    ChunkBytes <- 4, WriteBytes <- 7, MaxMessages <- 3

FewMessages == INSTANCE PeerTunnel WITH
    Tunnel <- {1, 2}, SizeBytes <- 1, HeaderBytes <- 1, Payloads <- {0, 3},
    ChunkBytes <- 4, WriteBytes <- 7, MaxMessages <- 2

\* Inbound peers with requests: three timers may expire at one poll
Timers == INSTANCE PeerNet WITH
    Node <- {}, Seed <- {}, Remote <- {"r1"}, Address <- [e \in {"r1"} |-> "a1"],
    MAX_IDLENODES <- 2, MAX_RETRIES <- 0, MAX_ADDRESS_COUNT <- 1, CONNECTION_LIMIT <- 2,
    Nonce <- {1, 2}, Inv <- {"x", "y"}, MaxTimerId <- 4, MaxDue <- 3, MaxAsk <- 0,
    MaxOutBounds <- 1, Config <- {}

\* A node, a dnseed and an inbound peer at the node's address
NodeAddress == [n1 |-> "a1", d1 |-> "a2", r1 |-> "a1"]

Nodes == INSTANCE PeerNet WITH
    Node <- {"n1", "d1"}, Seed <- {"d1"}, Remote <- {"r1"}, Address <- NodeAddress,
    MAX_IDLENODES <- 2, MAX_RETRIES <- 0, MAX_ADDRESS_COUNT <- 1, CONNECTION_LIMIT <- 2,
    Nonce <- {1, 2}, Inv <- {}, MaxTimerId <- 2, MaxDue <- 1, MaxAsk <- 0,
    MaxOutBounds <- 1, Config <- {"d1"}

\* One node, and outbound connections for more
Reconnect == INSTANCE PeerNet WITH
    Node <- {"n1"}, Seed <- {}, Remote <- {"r1"}, Address <- [e \in {"n1", "r1"} |-> "a1"],
    MAX_IDLENODES <- 2, MAX_RETRIES <- 0, MAX_ADDRESS_COUNT <- 1, CONNECTION_LIMIT <- 2,
    Nonce <- {1, 2}, Inv <- {}, MaxTimerId <- 2, MaxDue <- 1, MaxAsk <- 0,
    MaxOutBounds <- 2, Config <- {"n1"}

\* A peer that asks
Asking == INSTANCE PeerNet WITH
    Node <- {}, Seed <- {}, Remote <- {"r1"}, Address <- [e \in {"r1"} |-> "a1"],
    MAX_IDLENODES <- 2, MAX_RETRIES <- 0, MAX_ADDRESS_COUNT <- 1, CONNECTION_LIMIT <- 2,
    Nonce <- {1}, Inv <- {"x"}, MaxTimerId <- 3, MaxDue <- 1, MaxAsk <- 2,
    MaxOutBounds <- 1, Config <- {}

NetInit(parts) ==
    /\ part \in parts
    /\ IF part = "few sockets" THEN FewSockets!Init ELSE Init
    /\ IF part = "few messages" THEN FewMessages!Init ELSE Tunnels!Init
    /\ CASE part = "nodes" -> Nodes!Init
         [] part = "reconnect" -> Reconnect!Init
         [] part = "asking" -> Asking!Init
         [] OTHER -> Timers!Init

NetNext ==
    /\ UNCHANGED part
    /\ \/ part = "sockets" /\ Next /\ UNCHANGED <<tunnelVars, peerVars>>
       \/ part = "few sockets" /\ FewSockets!Next /\ UNCHANGED <<tunnelVars, peerVars>>
       \/ part = "tunnels" /\ Tunnels!Next /\ UNCHANGED <<s, peerVars>>
       \/ part = "few messages" /\ FewMessages!Next /\ UNCHANGED <<s, peerVars>>
       \/ part = "timers" /\ Timers!Next /\ UNCHANGED <<s, tunnelVars>>
       \/ part = "nodes" /\ Nodes!Next /\ UNCHANGED <<s, tunnelVars>>
       \/ part = "reconnect" /\ Reconnect!Next /\ UNCHANGED <<s, tunnelVars>>
       \/ part = "asking" /\ Asking!Next /\ UNCHANGED <<s, tunnelVars>>

NetSpec == NetInit({"sockets", "tunnels", "timers", "nodes", "reconnect"}) /\ [][NetNext]_netVars

\* The fairness that the modules assume
NetLive ==
    /\ NetInit({"few sockets", "few messages", "asking"})
    /\ [][NetNext]_netVars
    /\ \A c \in {i1, i2, i3} \cup OutClient \cup SSLClient :
          /\ WF_s(part = "few sockets" /\ \E op \in Op : FewSockets!HandleCompleted(c, op))
          /\ WF_s(part = "few sockets" /\ c \notin s.open
                    /\ (FewSockets!HandleConnect(c) \/ FewSockets!HandleSSLConnect(c)))
    /\ WF_tunnelVars(part = "few messages" /\ FewMessages!HandleWriten)
    /\ WF_tunnelVars(part = "few messages" /\ FewMessages!HandleReadHeader)
    /\ WF_tunnelVars(part = "few messages" /\ FewMessages!HandleReadBody)
    /\ WF_tunnelVars(part = "few messages" /\ FewMessages!Complete)
    /\ WF_peerVars(part = "asking" /\ Asking!Going /\ Asking!HandleWriten(1))
    /\ WF_peerVars(part = "asking" /\ Asking!Pinged(1))

(***************************************************************************)
(* The properties, put together from the ones that the modules state       *)
(***************************************************************************)

\* A socket that was given up or timed out comes back to its container
SocketsReturn == part = "few sockets" => FewSockets!Returns

\* CPeerTunnel: the messages of a channel arrive whole, once and in order, and
\* no byte between the ends is lost or sent twice
ChannelInOrder ==
    part = "tunnels" => Tunnels!TypeOK /\ Tunnels!InOrder /\ Tunnels!InStep /\ Tunnels!NothingLost

\* What is sent arrives, or waits complete in the tunnel's buffer for the
\* channel's next chunk; the first message of a channel never waits so
ChannelArrives == part = "few messages" => FewMessages!Arrives /\ FewMessages!FirstDelivered

\* CBbPeerNet: every timer belongs to one peer and one use (SetTimer,
\* CancelTimer, IOProcPollTimer)
TimersMatch ==
    /\ part = "timers" => Timers!TimersMatch
    /\ part = "nodes" => Nodes!TimersMatch
    /\ part = "reconnect" => Reconnect!TimersMatch

\* The channels are told of a peer's beginning and end once each, and of the
\* end of each request (HandlePeerHandshaked, DestroyPeer)
ChannelsTold ==
    /\ part = "timers" => Timers!ChannelsTold
    /\ part = "nodes" => Nodes!ChannelsTold
    /\ part = "reconnect" => Reconnect!ChannelsTold

\* No node is left out and the connections of an address are counted
\* (CNodeManager, CEndpointManager)
NodesKept ==
    /\ part = "timers" => Timers!NodesKept
    /\ part = "nodes" => Nodes!NodesKept
    /\ part = "reconnect" => Reconnect!NodesKept

\* What a peer has asked for is passed on (HandlePeerWriten, the ping timer)
AskServed == part = "asking" => Asking!AskServed
=============================================================================

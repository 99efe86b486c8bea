------------------------------- MODULE IOPool -------------------------------
(***************************************************************************)
(* The sockets of one CIOProc (CIOClient, CIOInBound, CIOOutBound,         *)
(* CIOSSLOutBound). Socket objects are counted by reference: one reference *)
(* from Accept or Connect until Close, one for every asynchronous read or  *)
(* write whose completion handler has not run. When the count reaches zero *)
(* the object goes back to its container: the inbound and the plain        *)
(* outbound container queue it for reuse, the SSL container deletes it     *)
(* when the next one is closed. All handlers run in the one io thread, so  *)
(* a handler with everything it calls is one action; handlers of closed    *)
(* sockets still run later.                                                *)
(***************************************************************************)
EXTENDS Integers, Sequences, FiniteSets, Functions

CONSTANTS
    InClient,    \* objects of the inbound container: nMaxConnection + 2
    OutClient,   \* objects of the plain outbound container
    SSLClient,   \* objects that the SSL container may allocate at a time
    nMaxConn     \* CIOSSLOutBound's limit

VARIABLE
    s            \* the state of the sockets and containers, a record:
    \* open, inuse, owner \in SUBSET Client; ref \in [Client -> Int];
    \* ops \in [Client -> SUBSET Op], operations whose handler has not run;
    \* idleIn, idleOut \in Seq(Client); nAcceptCount \in Int;
    \* pending \in SUBSET Client, mapPending; garbage \in SUBSET SSLClient

Client == InClient \cup OutClient \cup SSLClient

Op == {"accept", "connect", "read", "write"}

ASSUME PoolAssumption ==
    /\ InClient \cap OutClient = {} /\ InClient \cap SSLClient = {} /\ OutClient \cap SSLClient = {}
    /\ IsFiniteSet(InClient) /\ IsFiniteSet(OutClient) /\ IsFiniteSet(SSLClient)
    /\ nMaxConn \in Nat

TypeOK ==
    /\ s.open \subseteq Client /\ s.inuse \subseteq Client /\ s.owner \subseteq Client
    /\ s.ref \in [Client -> 0..3]
    /\ s.ops \in [Client -> SUBSET Op]
    /\ Range(s.idleIn) \subseteq InClient /\ Range(s.idleOut) \subseteq OutClient
    /\ s.nAcceptCount \in {0, 1}
    /\ s.pending \subseteq OutClient \cup SSLClient
    /\ s.garbage \subseteq SSLClient /\ Cardinality(s.garbage) <= 1
    /\ Cardinality(s.inuse \cap SSLClient) <= nMaxConn

-----------------------------------------------------------------------------
(* What the methods do to the state *)

\* CIOInBound::IOInAccept with ClientAlloc and CIOClient::Accept.
IOInAccept(t) ==
    IF t.nAcceptCount <= 0 /\ Len(t.idleIn) > 2
    THEN LET c == Head(t.idleIn)
         IN  [t EXCEPT !.idleIn = Tail(@), !.inuse = @ \cup {c}, !.ref[c] = @ + 1,
                       !.ops[c] = @ \cup {"accept"}, !.nAcceptCount = @ + 1]
    ELSE t

\* ClientClose of the three containers.
ClientClose(t, c) ==
    LET back == [t EXCEPT !.inuse = @ \ {c}]
    IN  CASE c \in InClient ->
               IOInAccept(IF c \in t.inuse THEN [back EXCEPT !.idleIn = Append(@, c)] ELSE t)
          [] c \in OutClient ->
               IF c \in t.inuse THEN [back EXCEPT !.idleOut = Append(@, c)] ELSE t
          [] c \in SSLClient ->
               IF c \in t.inuse THEN [back EXCEPT !.garbage = {c}] ELSE t

\* CIOClient::Shutdown: the socket is closed, its handlers run later.
Shutdown(t, c) == [t EXCEPT !.open = @ \ {c}]

\* CIOClient::Release.
Release(t, c) ==
    LET u == [t EXCEPT !.ref[c] = @ - 1]
    IN  IF u.ref[c] <= 0 THEN ClientClose(Shutdown(u, c), c) ELSE u

\* Mutant: Close returns the object to its container at once.
CloseAtOnce(t, c) == ClientClose([Shutdown(t, c) EXCEPT !.ref[c] = 0], c)

\* CIOClient::Close.
Close(t, c) == Release(Shutdown(t, c), c)

\* CIOClient::Read, ReadUntil and Write, and Connect.
Start(t, c, op) == [t EXCEPT !.ref[c] = @ + 1, !.ops[c] = @ \cup {op}]

Done(t, c, op) == [t EXCEPT !.ops[c] = @ \ {op}]

\* Mutant: the reference of a connection attempt that was shut down is kept.
ConnCompletedKept(t, c) == t

\* The end of CIOClient::HandleConnCompleted: a socket that was closed in or
\* before the callback gives up the reference of its connection.
ConnCompleted(t, c) == IF c \notin t.open /\ t.ref[c] # 0 THEN Release(t, c) ELSE t

\* AddNewPeer, AddNewClient, ActivateConn: the connection has an owner, who
\* begins with these operations.
Activate(t, c, ops) ==
    LET u == [t EXCEPT !.owner = @ \cup {c}]
    IN  [u EXCEPT !.ref[c] = @ + Cardinality(ops), !.ops[c] = @ \cup ops]

-----------------------------------------------------------------------------
(* The actions *)

\* PrepareClient queues the new objects.
PrepareClient(objects) == CHOOSE q \in Bijection(1..Cardinality(objects), objects) : TRUE

Init ==
    LET t == [open |-> {}, inuse |-> {}, owner |-> {}, ref |-> [c \in Client |-> 0],
              ops |-> [c \in Client |-> {}], idleIn |-> PrepareClient(InClient),
              idleOut |-> PrepareClient(OutClient), nAcceptCount |-> 0,
              pending |-> {}, garbage |-> {}]
    IN  s = IOInAccept(t)

\* CIOInBound::HandleAccept: the accept failed, or the remote is refused (by
\* the allow list or by ClientAccepted), or the connection gets an owner.
HandleAccept(c) ==
    /\ "accept" \in s.ops[c]
    /\ LET t == [Done(s, c, "accept") EXCEPT !.nAcceptCount = @ - 1]
           u == [t EXCEPT !.open = @ \cup {c}]
       IN  \/ s' = ConnCompleted(Close(t, c), c)
           \/ s' = ConnCompleted(Close(u, c), c)
           \/ s' = ConnCompleted(IOInAccept(Activate(u, c, {"read"})), c)

\* CIOOutBound::ConnectTo and ConnectToByBindAddress, from HeartBeat; the
\* attempt to bind the local address may fail.
ConnectTo ==
    /\ s.idleOut # << >>
    /\ LET c == Head(s.idleOut)
           t == [s EXCEPT !.idleOut = Tail(@), !.inuse = @ \cup {c}]
           u == [Start(t, c, "connect") EXCEPT !.open = @ \cup {c}, !.pending = @ \cup {c}]
       IN  \/ s' = u
           \/ s' = Release([t EXCEPT !.ref[c] = @ + 1], c)

\* CIOSSLOutBound::ConnectTo: a new object, unless the limit is reached.
SSLConnectTo(c) ==
    /\ c \notin s.inuse /\ c \notin s.garbage
    /\ Cardinality(s.inuse \cap SSLClient) < nMaxConn
    /\ s' = [Start(s, c, "connect") EXCEPT !.open = @ \cup {c}, !.inuse = @ \cup {c},
                                           !.pending = @ \cup {c}]

\* CIOOutBound::Timeout and CIOSSLOutBound::Timeout.
Timeout(c) ==
    /\ c \in s.pending
    /\ s' = [Shutdown(s, c) EXCEPT !.pending = @ \ {c}]

\* CIOOutBound::HandleConnect. A socket that Timeout closed completes as
\* aborted even when it had connected: then only HandleConnCompleted acts.
HandleConnect(c) ==
    /\ "connect" \in s.ops[c] /\ c \in OutClient
    /\ LET t == Done(s, c, "connect")
           u == [t EXCEPT !.pending = @ \ {c}]
       IN  IF c \notin s.open
           THEN s' = ConnCompleted(t, c)
           ELSE \/ s' = ConnCompleted(Activate(u, c, {"read", "write"}), c)
                \/ s' = ConnCompleted(Close(u, c), c)

\* CIOSSLOutBound::HandleConnect, with the handshake before it: success with
\* an owner, success that nobody waits for any more, or failure.
HandleSSLConnect(c) ==
    /\ "connect" \in s.ops[c] /\ c \in SSLClient
    /\ LET u == [Done(s, c, "connect") EXCEPT !.pending = @ \ {c}]
       IN  IF c \notin s.open
           THEN s' = ConnCompleted(u, c)
           ELSE \/ s' = ConnCompleted(Activate(u, c, {"write"}), c)
                \/ s' = ConnCompleted(Shutdown(u, c), c)

\* The owner gives the connection up: RemovePeer, RemoveClient, CloseConn.
GiveUp(t, c) == Close([t EXCEPT !.owner = @ \ {c}], c)

\* CIOClient::HandleCompleted: the reference is released, and the callback is
\* called when the socket is still open. The owner then starts its next
\* operations, waits, or gives the connection up.
HandleCompleted(c, op) ==
    /\ op \in s.ops[c] \cap {"read", "write"}
    /\ LET t == Release(Done(s, c, op), c)
       IN  IF c \notin t.open
           THEN s' = t
           ELSE \/ s' = t
                \/ \E next \in {"read", "write"} \ t.ops[c] : s' = Start(t, c, next)
                \/ s' = GiveUp(t, c)

\* The owner writes (SendMessage, SendResponse, the next request of a
\* connection that is kept) or gives the connection up, in a timer's or an
\* event's handler.
OwnerWrite(c) == c \in s.owner /\ "write" \notin s.ops[c] /\ s' = Start(s, c, "write")

OwnerClose(c) == c \in s.owner /\ s' = GiveUp(s, c)

Next ==
    \/ ConnectTo
    \/ \E c \in Client :
          \/ HandleAccept(c)
          \/ SSLConnectTo(c) /\ c \in SSLClient
          \/ Timeout(c)
          \/ HandleConnect(c)
          \/ HandleSSLConnect(c)
          \/ \E op \in Op : HandleCompleted(c, op)
          \/ OwnerWrite(c)
          \/ OwnerClose(c)

Spec == Init /\ [][Next]_s

\* Closing a socket makes its outstanding operations complete, and the io
\* thread runs the handlers.
FairSpec ==
    Spec /\ \A c \in Client :
              /\ WF_s(\E op \in Op : HandleCompleted(c, op))
              /\ WF_s(c \notin s.open /\ (HandleConnect(c) \/ HandleSSLConnect(c)))

-----------------------------------------------------------------------------
(* Properties *)

Idle(c) == c \in Range(s.idleIn) \cup Range(s.idleOut) \cup (SSLClient \ s.inuse)

\* A socket object is offered for reuse (or deletion) only when it is closed,
\* nobody owns it and no completion handler of its last use can still run:
\* a late handler would release, and close, the next user's connection.
IdleIsQuiet ==
    \A c \in Client : Idle(c) =>
        s.ref[c] = 0 /\ s.ops[c] = {} /\ c \notin s.open /\ c \notin s.owner

\* The count of references is exactly one for the owner (or for a connection
\* under way) and one for every outstanding read and write, so that neither
\* Close nor the last handler ends a connection that is still in use.
RefsCounted ==
    \A c \in Client :
        s.ref[c] = Cardinality(s.ops[c]) + (IF c \in s.owner THEN 1 ELSE 0)

\* Every object is either queued once or in use, and one in use has an owner
\* or a handler to come: none drops out of the pool when connections fail,
\* time out, are refused or are closed by both ends at once.
NoLeak ==
    /\ \A c \in s.inuse : c \in s.owner \/ s.ops[c] # {}
    /\ s.inuse \cap (Range(s.idleIn) \cup Range(s.idleOut)) = {}
    /\ Len(s.idleIn) = Cardinality(InClient \ s.inuse)
    /\ Len(s.idleOut) = Cardinality(OutClient \ s.inuse)

\* While the inbound container has more than its two spare objects an accept
\* is outstanding: no refusal, error or closing order leaves the node deaf.
Listening == Len(s.idleIn) > 2 => \E c \in InClient : "accept" \in s.ops[c]

\* CIOClient's references: an object is reused only when no handler of its
\* last use can run, and none drops out of the pool; while there are spare
\* objects an accept is outstanding (CIOInBound::ClientClose)
SocketsAccounted == TypeOK /\ IdleIsQuiet /\ RefsCounted /\ NoLeak /\ Listening

\* A connection that its owner gave up, or that timed out, comes back to the
\* pool whatever was outstanding on it.
Returns == \A c \in Client : (c \in s.inuse /\ c \notin s.open /\ "accept" \notin s.ops[c]) ~> Idle(c)
=============================================================================

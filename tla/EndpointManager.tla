-------------------------- MODULE EndpointManager --------------------------
(***************************************************************************)
(* CEndpointManager and its CNodeManager: which endpoints the node may     *)
(* connect to and how many connections every address has.  The methods are *)
(* operators on a record em with                                           *)
(*   node     the keys of mapNode                                          *)
(*   nRetries of every node                                                *)
(*   mapIdle  how often each endpoint is listed in mapIdle                 *)
(*   status   the keys of mapAddressStatus, conn its nConnections          *)
(*   forgot   history: addresses whose status was erased while connected   *)
(*   stuck    the loop of RemoveInactiveNodes does not end                 *)
(* Times, scores and bans are abstracted: any idle node may be due, any    *)
(* entry may be the last, any inbound attempt may be refused.  A method    *)
(* whose outcome depends on them is the set of its results.                *)
(***************************************************************************)
EXTENDS Integers, FiniteSets, FiniteSetsExt, Functions

CONSTANTS Node,              \* the endpoints the node may connect to
          Seed,              \* those named "dnseed"
          Remote,            \* the endpoints that others connect from
          Address,           \* the address of every endpoint
          MAX_IDLENODES, MAX_RETRIES, MAX_ADDRESS_COUNT, CONNECTION_LIMIT

Addr == {Address[ep] : ep \in Node \cup Remote}

NewManager == [node |-> {}, nRetries |-> [n \in Node |-> 0], mapIdle |-> [n \in Node |-> 0],
               status |-> {}, conn |-> [a \in Addr |-> 0], forgot |-> {}, stuck |-> FALSE]

IdleCount(em) == SumFunction(em.mapIdle)

\* The entries of mapIdle, and those whose GetName is "dnseed"
Idle(em) == {n \in Node : em.mapIdle[n] > 0}
IdleSeed(em) == Idle(em) \cap Seed \cap em.node

\* One entry too many: the one with the latest time goes, with its node.  When
\* that one is a dnseed the iterator is not moved on and the loop never ends.
RemoveInactiveNodes(em) ==
  {[em EXCEPT !.node = @ \ {n}, !.mapIdle[n] = @ - 1] : n \in Idle(em) \ IdleSeed(em)}
    \cup {[em EXCEPT !.stuck = TRUE] : n \in IdleSeed(em)}

AddIdleNode(em, ep) ==
  LET added == [em EXCEPT !.mapIdle[ep] = @ + 1]
  IN  IF IdleCount(added) > MAX_IDLENODES THEN RemoveInactiveNodes(added) ELSE {added}

AddNew(em, ep) ==
  IF ep \in em.node THEN {em}
  ELSE AddIdleNode([em EXCEPT !.node = @ \cup {ep}, !.nRetries[ep] = 0], ep)

\* The first entry of the endpoint is erased
RemoveOutBound(em, ep) ==
  IF ep \in em.node
  THEN [em EXCEPT !.node = @ \ {ep}, !.mapIdle[ep] = IF @ > 0 THEN @ - 1 ELSE @]
  ELSE em

\* A connection has ended: the node waits for its next turn, or has had enough
Dismiss(em, ep, fForceRetry) ==
  IF ep \notin em.node THEN {em}
  ELSE IF ep \in Seed THEN AddIdleNode(em, ep)
  ELSE LET nRetries == IF fForceRetry THEN 0 ELSE em.nRetries[ep] + 1
       IN  IF nRetries <= MAX_RETRIES THEN AddIdleNode([em EXCEPT !.nRetries[ep] = nRetries], ep)
           ELSE {[em EXCEPT !.node = @ \ {ep}]}

\* Erasing the status of addresses, of which connected have connections
Forget(em, gone, connected) ==
  [em EXCEPT !.status = @ \ gone, !.forgot = @ \cup (gone \cap connected),
             !.conn = [a \in Addr |-> IF a \in gone THEN 0 ELSE @[a]]]

\* Which are erased depends on when they were last seen
CleanInactiveAddress(em, connected) ==
  IF Cardinality(em.status) <= MAX_ADDRESS_COUNT THEN {em}
  ELSE {Forget(em, gone, connected) :
          gone \in {g \in SUBSET em.status : Cardinality(em.status \ g) <= MAX_ADDRESS_COUNT}}

\* mapAddressStatus[address], which makes an entry where there is none
Status(em, a) == [em EXCEPT !.status = @ \cup {a}]

\* Empty when the connection is refused
AddConnection(em, a, fInBound, fLimitConnect) ==
  IF fLimitConnect /\ em.conn[a] >= (IF fInBound THEN CONNECTION_LIMIT ELSE 1)
  THEN {} ELSE {[Status(em, a) EXCEPT !.conn[a] = @ + 1]}

\* Employ takes an entry that is due
FetchOutBound(em, ep) ==
  AddConnection([em EXCEPT !.mapIdle[ep] = @ - 1], Address[ep], FALSE, ep \notin IdleSeed(em))

\* An entry whose address has a connection is listed again if it has a node,
\* and the loop takes the next
FetchRefused(em, ep) ==
  IF FetchOutBound(em, ep) # {} THEN {}
  ELSE {[em EXCEPT !.mapIdle[ep] = IF ep \in em.node THEN @ ELSE @ - 1]}

AcceptInBound(em, ep) == AddConnection(em, Address[ep], TRUE, TRUE)

\* Mutant: the connection is not taken off the address
CloseEndpointCounted(em, ep, reason, connected) ==
  LET noted == Status(em, Address[ep])
  IN  UNION {CleanInactiveAddress(d, connected) :
               d \in IF ep \in Node THEN Dismiss(noted, ep, reason = "NETWORK_ERROR") ELSE {noted}}

CloseEndpoint(em, ep, reason, connected) ==
  LET a == Address[ep]
      noted == [Status(em, a) EXCEPT !.conn[a] = @ - 1]
  IN  UNION {CleanInactiveAddress(d, connected) :
               d \in IF ep \in Node THEN Dismiss(noted, ep, reason = "NETWORK_ERROR") ELSE {noted}}

\* The status of an address that is banned is erased whole
ClearBanned(em, a, connected) == Forget(em, {a} \cap em.status, connected)
=============================================================================

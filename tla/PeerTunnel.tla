----------------------------- MODULE PeerTunnel -----------------------------
(***************************************************************************)
(* One direction of a connection between two peers (CPeer, CPeerTunnel).   *)
(* Every protocol channel is a tunnel of its own: a message is put in the  *)
(* tunnel's send buffer behind its length, the tunnels are cut into chunks *)
(* that share the socket, and the receiver puts the chunks of each tunnel  *)
(* together again and hands whole packets to the message parser, which     *)
(* reads a fixed header and then the payload that the header announces.    *)
(* Both ends run in one thread each; the socket is a reliable stream.      *)
(***************************************************************************)
EXTENDS Naturals, Sequences, SequencesExt, FiniteSets

CONSTANTS
    Tunnel,        \* tunnel ids in the order of mapPeerTunnel: 1..n
    SizeBytes,     \* bytes of a packet's length: sizeof(uint32)
    HeaderBytes,   \* bytes of a message header: MESSAGE_HEADER_SIZE
    Payloads,      \* payload lengths a message may have
    ChunkBytes,    \* most bytes in one chunk: 256
    WriteBytes,    \* a write takes no further round from here on: 1200
    MaxMessages    \* bound on the messages of one tunnel

VARIABLES
    sent,          \* [Tunnel -> Seq(Nat)]: payload lengths given to WriteStream
    ssTunSend,     \* [Tunnel -> Seq(byte)], the sender's buffers
    writing,       \* the sender's ssWrite is not empty
    wire,          \* Seq([tid, data]): chunks in the socket, header before body
    reading,       \* the chunk whose header the receiver has read, or NoChunk
    ssTunRecv,     \* [Tunnel -> Seq(byte)], the receiver's buffers
    nPacketSize,   \* [Tunnel -> Nat], length of the packet being assembled, or 0
    ssHisRecv,     \* assembled packets that the parser has not read yet
    nReadLength,   \* the bytes the parser waits for
    hdrRecv,       \* the message whose header was read, or NoMessage
    received,      \* Seq(message): what the parser delivered
    closed         \* HandlePeerError or HandlePeerViolate removed the peer

vars == <<sent, ssTunSend, writing, wire, reading, ssTunRecv, nPacketSize,
          ssHisRecv, nReadLength, hdrRecv, received, closed>>

NoChunk == [tid |-> 0, data |-> << >>]

NoMessage == [tid |-> 0, n |-> 0, payload |-> 0]

\* A message is named by its tunnel, its number there and its payload length.
\* Its packet's bytes are numbered from the first byte of the length on.
PacketLength(m) == HeaderBytes + m.payload

Packet(m) == [i \in 1..(SizeBytes + PacketLength(m)) |-> [msg |-> m, i |-> i]]

First(s, n) == SubSeq(s, 1, n)

Rest(s, n) == SubSeq(s, n + 1, Len(s))

\* What a uint32 read from these bytes is: the packet's length when they are
\* the length bytes of a packet. Any other bytes make no length at all.
IsSize(s) == \A i \in 1..SizeBytes : s[i] = [msg |-> s[1].msg, i |-> i]

IsHeader(s) == \A i \in 1..HeaderBytes : s[i] = [msg |-> s[1].msg, i |-> SizeBytes + i]

MinOf(a, b) == IF a < b THEN a ELSE b

TypeOK ==
    /\ \A t \in Tunnel : Len(sent[t]) <= MaxMessages /\ Range(sent[t]) \subseteq Payloads
    /\ writing \in BOOLEAN /\ closed \in BOOLEAN
    /\ \A c \in Range(wire) \cup ({reading} \ {NoChunk}) :
          c.tid \in Tunnel /\ Len(c.data) \in 1..ChunkBytes
    /\ \A t \in Tunnel : nPacketSize[t] \in {0} \cup {HeaderBytes + p : p \in Payloads}
    /\ nReadLength \in {HeaderBytes} \cup (Payloads \ {0})

Init ==
    /\ sent = [t \in Tunnel |-> << >>]
    /\ ssTunSend = [t \in Tunnel |-> << >>]
    /\ writing = FALSE
    /\ wire = << >>
    /\ reading = NoChunk
    /\ ssTunRecv = [t \in Tunnel |-> << >>]
    /\ nPacketSize = [t \in Tunnel |-> 0]
    /\ ssHisRecv = << >>
    /\ nReadLength = HeaderBytes
    /\ hdrRecv = NoMessage
    /\ received = << >>
    /\ closed = FALSE

-----------------------------------------------------------------------------
(* The sender *)

\* CPeerTunnel::GetSendData: the next chunk of a tunnel that has one.
Chunk(t, q) == [tid |-> t, data |-> First(q, MinOf(Len(q), ChunkBytes))]

\* One pass of CPeer::Write over the tunnels: a chunk of every tunnel that has
\* bytes, in the order of the map.
Round(q) ==
    LET ready == SelectSeq([t \in 1..Cardinality(Tunnel) |-> t], LAMBDA t : q[t] # << >>)
    IN  [i \in 1..Len(ready) |-> Chunk(ready[i], q[ready[i]])]

AfterRound(q) == [t \in Tunnel |-> Rest(q[t], MinOf(Len(q[t]), ChunkBytes))]

\* The bytes of ssWrite: each chunk has a two-byte header.
WriteSize(chunks) == FoldSeq(LAMBDA c, n : n + 2 + Len(c.data), 0, chunks)

\* Mutant: a round forgets to take what it sent out of the last tunnel.
RECURSIVE GatherAgain(_, _)
GatherAgain(q, out) ==
    LET round == Round(q)
    IN  IF round = << >> THEN [q |-> q, chunks |-> out]
        ELSE IF WriteSize(out \o round) < WriteBytes
             THEN GatherAgain(AfterRound(q), out \o round)
             ELSE [q |-> [AfterRound(q) EXCEPT ![Cardinality(Tunnel)] = q[Cardinality(Tunnel)]],
                   chunks |-> out \o round]

\* The loop of CPeer::Write: rounds until ssWrite is large enough or nothing
\* is left.
RECURSIVE Gather(_, _)
Gather(q, out) ==
    LET round == Round(q)
    IN  IF round = << >> THEN [q |-> q, chunks |-> out]
        ELSE IF WriteSize(out \o round) < WriteBytes
             THEN Gather(AfterRound(q), out \o round)
             ELSE [q |-> AfterRound(q), chunks |-> out \o round]

\* CPeer::Write with ssWrite empty: the chunks go to the socket.
Write(q) ==
    LET g == Gather(q, << >>)
    IN  /\ ssTunSend' = g.q
        /\ wire' = wire \o g.chunks
        /\ writing' = (g.chunks # << >>)

\* CPeer::WriteStream from CBbPeer::SendMessage: the packet behind its length
\* is appended to the tunnel, and Write returns at once while a write is on.
WriteStream(t, p) ==
    /\ ~closed
    /\ Len(sent[t]) < MaxMessages
    /\ sent' = [sent EXCEPT ![t] = Append(@, p)]
    /\ LET m == [tid |-> t, n |-> Len(sent[t]) + 1, payload |-> p]
           q == [ssTunSend EXCEPT ![t] = @ \o Packet(m)]
       IN  IF writing
           THEN ssTunSend' = q /\ UNCHANGED <<wire, writing>>
           ELSE Write(q)
    /\ UNCHANGED <<reading, ssTunRecv, nPacketSize, ssHisRecv, nReadLength,
                   hdrRecv, received, closed>>

\* Mutant: a completed write does not look at the tunnels again.
HandleWritenIdle ==
    /\ ~closed
    /\ writing
    /\ writing' = FALSE
    /\ UNCHANGED <<sent, ssTunSend, wire, reading, ssTunRecv, nPacketSize,
                   ssHisRecv, nReadLength, hdrRecv, received, closed>>

\* CPeer::HandleWriten: the write is complete, ssWrite is cleared and filled
\* again from the tunnels.
HandleWriten ==
    /\ ~closed
    /\ writing
    /\ Write(ssTunSend)
    /\ UNCHANGED <<sent, reading, ssTunRecv, nPacketSize, ssHisRecv,
                   nReadLength, hdrRecv, received, closed>>

-----------------------------------------------------------------------------
(* The receiver *)

\* CPeer::HandleRead of a chunk's two-byte header. The asynchronous read is on
\* only while the parser has too little.
HandleReadHeader ==
    /\ ~closed
    /\ reading = NoChunk /\ wire # << >>
    /\ Len(ssHisRecv) < nReadLength
    /\ reading' = Head(wire)
    /\ wire' = Tail(wire)
    /\ UNCHANGED <<sent, ssTunSend, writing, ssTunRecv, nPacketSize,
                   ssHisRecv, nReadLength, hdrRecv, received, closed>>

\* CPeerTunnel::AddRecvData on the tunnel's buffer with the chunk appended:
\* take the length when it is due and there, then at most one packet.
AddRecvData(t, buf) ==
    LET fresh  == nPacketSize[t] = 0 /\ Len(buf) >= SizeBytes
        sized  == nPacketSize[t] # 0 \/ fresh
        size   == IF fresh THEN PacketLength(buf[1].msg) ELSE nPacketSize[t]
        body   == IF fresh THEN Rest(buf, SizeBytes) ELSE buf
    IN  IF sized /\ Len(body) >= size
        THEN /\ ssHisRecv' = ssHisRecv \o First(body, size)
             /\ ssTunRecv' = [ssTunRecv EXCEPT ![t] = Rest(body, size)]
             /\ nPacketSize' = [nPacketSize EXCEPT ![t] = 0]
        ELSE /\ ssTunRecv' = [ssTunRecv EXCEPT ![t] = body]
             /\ nPacketSize' = [nPacketSize EXCEPT ![t] = IF sized THEN size ELSE 0]
             /\ UNCHANGED ssHisRecv

\* CPeer::HandleRead of a chunk's body. A length that is no length of a packet
\* would be found out later by the parser: the peer is removed here.
HandleReadBody ==
    /\ ~closed
    /\ reading # NoChunk
    /\ LET t   == reading.tid
           buf == ssTunRecv[t] \o reading.data
       IN  IF nPacketSize[t] = 0 /\ Len(buf) >= SizeBytes /\ ~IsSize(buf)
           THEN closed' = TRUE /\ UNCHANGED <<ssTunRecv, nPacketSize, ssHisRecv>>
           ELSE AddRecvData(t, buf) /\ UNCHANGED closed
    /\ reading' = NoChunk
    /\ UNCHANGED <<sent, ssTunSend, writing, wire, nReadLength, hdrRecv, received>>

\* CBbPeer::HandleReadHeader: a message without payload is complete with its
\* header.
ParseHeader ==
    LET m == ssHisRecv[1].msg
    IN  IF m.payload # 0
        THEN hdrRecv' = m /\ nReadLength' = m.payload /\ UNCHANGED received
        ELSE received' = Append(received, m) /\ UNCHANGED <<hdrRecv, nReadLength>>

\* CBbPeer::HandleReadCompleted: the message is handled, the next header read.
ParsePayload ==
    /\ received' = Append(received, hdrRecv)
    /\ hdrRecv' = NoMessage
    /\ nReadLength' = HeaderBytes

\* The completion function of CPeer::Read. A header that fails to verify, or a
\* payload that is not the one its checksum is of, removes the peer.
Complete ==
    /\ ~closed
    /\ Len(ssHisRecv) >= nReadLength
    /\ ssHisRecv' = Rest(ssHisRecv, nReadLength)
    /\ LET s == First(ssHisRecv, nReadLength)
           good == IF hdrRecv = NoMessage
                   THEN IsHeader(s)
                   ELSE \A i \in 1..nReadLength :
                           s[i] = [msg |-> hdrRecv, i |-> SizeBytes + HeaderBytes + i]
       IN  /\ closed' = ~good
           /\ IF ~good THEN UNCHANGED <<hdrRecv, nReadLength, received>>
              ELSE IF hdrRecv = NoMessage THEN ParseHeader
              ELSE ParsePayload
    /\ UNCHANGED <<sent, ssTunSend, writing, wire, reading, ssTunRecv, nPacketSize>>

Next ==
    \/ \E t \in Tunnel, p \in Payloads : WriteStream(t, p)
    \/ HandleWriten
    \/ HandleReadHeader
    \/ HandleReadBody
    \/ Complete

Spec == Init /\ [][Next]_vars

\* The io threads of both ends run their completion handlers, and the socket
\* delivers what was written to it.
FairSpec == Spec /\ WF_vars(HandleWriten) /\ WF_vars(HandleReadHeader)
                 /\ WF_vars(HandleReadBody) /\ WF_vars(Complete)

-----------------------------------------------------------------------------
(* Properties *)

MessageSeq(t) == [n \in 1..Len(sent[t]) |-> [tid |-> t, n |-> n, payload |-> sent[t][n]]]

ReceivedOn(t) == SelectSeq(received, LAMBDA m : m.tid = t)

\* However the chunks of the tunnels share the socket, the messages of a
\* channel arrive whole, once and in the order in which SendMessage got them.
InOrder == \A t \in Tunnel : IsPrefix(ReceivedOn(t), MessageSeq(t))

\* The lengths in the tunnels, the chunk headers and the message headers never
\* get out of step: no peer that follows the protocol is removed for a length,
\* header or checksum that does not fit (HandlePeerViolate).
InStep == ~closed

\* Bytes of tunnel t that are between the two ends, oldest first.
Between(t) ==
    LET chunks == SelectSeq((IF reading = NoChunk THEN << >> ELSE <<reading>>) \o wire,
                            LAMBDA c : c.tid = t)
    IN  ssTunRecv[t] \o FlattenSeq([i \in 1..Len(chunks) |-> chunks[i].data]) \o ssTunSend[t]

\* Whatever the parser has not seen of a channel is in the buffers between the
\* ends in one piece and ends where the last message ends: no byte is lost or
\* sent twice when a write is completed and the buffers are filled again.
NothingLost ==
    \A t \in Tunnel :
        LET all == FlattenSeq([n \in 1..Len(sent[t]) |-> Packet(MessageSeq(t)[n])])
        IN  IsSuffix(Between(t), all)

\* The packets of a tunnel that are complete at the receiver and still in its
\* tunnel buffer: AddRecvData takes one packet for a chunk that may end several.
Held(t) ==
    {m \in Range(MessageSeq(t)) :
        Len(SelectSeq(ssTunRecv[t], LAMBDA b : b.msg = m /\ b.i > SizeBytes)) = PacketLength(m)}

\* Nothing of a channel stays behind on the sender's side or in the socket, and
\* everything before the last chunk of the channel reaches the parser or waits
\* complete in the tunnel's buffer for the channel's next chunk.
Arrives ==
    \A t \in Tunnel : \A n \in 1..MaxMessages :
        (Len(sent[t]) >= n) ~>
            \/ Len(ReceivedOn(t)) >= n
            \/ /\ Len(sent[t]) >= n
               /\ [tid |-> t, n |-> n, payload |-> sent[t][n]] \in Held(t)

\* The message at the head of a tunnel is never one of those that wait: a
\* channel that has messages under way delivers at least its first one.
FirstDelivered ==
    \A t \in Tunnel : (sent[t] # << >>) ~> (ReceivedOn(t) # << >>)
=============================================================================

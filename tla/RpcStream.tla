----------------------------- MODULE RpcStream -----------------------------
(***************************************************************************)
(* The receiving side of a connection: TcpConnection::handleRead moves     *)
(* what has arrived into the Buffer, piece by piece, and RpcCodec with     *)
(* ProtocolUtil::Decode cuts it into RPC frames.  A byte is known by the   *)
(* frame it belongs to and its place in it; of a frame only its size and   *)
(* what Decode finds in it matter.  The connection ends in every way the   *)
(* code has: a malformed frame, the end of the stream, a failed recv(),    *)
(* the keep-alive timer, and a client's disconnect().                      *)
(***************************************************************************)
EXTENDS Buffer, SequencesExt

CONSTANTS
    HeaderSize,  \* sizeof(RpcHeader), 16 in the code
    MaxPayload,  \* largest meta and body together that is accepted
    ChunkSize,   \* bytes recv() returns at most, 1024 in the code
    Payloads,    \* the sizes of meta and body together
    MaxFrames    \* bound: frames the peer sends

ASSUME SizesAssumption ==
    /\ HeaderSize \in Nat \ {0}
    /\ ChunkSize \in Nat \ {0}
    /\ MaxPayload \in Nat
    /\ Payloads \subseteq Nat
    /\ MaxFrames \in Nat
ASSUME BytesAssumption ==
    \A n \in 1..MaxFrames, p \in Payloads : \A i \in 1..HeaderSize + p : <<n, i>> \in Bytes

\* "badMagic": not an RPC header; "badMeta": the meta does not parse.  A frame that
\* is too large is refused for that alone.
Frames ==
    {f \in [payload : Payloads, kind : {"good", "badMagic", "badMeta"}] :
        f.payload > MaxPayload => f.kind = "good"}

VARIABLES
    frames,     \* history: the frames the peer has sent
    ends,       \* history: where in the stream of bytes each of them ends
    wire,       \* the bytes on their way
    arrived,    \* the bytes that have arrived
    ready,      \* the connection is on epoll's ready list
    peer,       \* "open", "closed" its side, or "reset" the connection
    phase,      \* "poll", "handleRead" or "parseMessage"
    state,      \* state_ of the TcpConnection
    armed,      \* keepAliveTimer_ is set
    cause,      \* history: what ended the connection, or a malformed frame met later
    received,   \* history: the bytes received
    delivered   \* history: the frames handed to messageCallback_, by number

peerVars == <<frames, ends, wire, peer>>
connVars == <<state, armed, cause>>
streamVars == <<bufferVars, peerVars, arrived, ready, phase, connVars, received, delivered>>

Causes == {"end", "error", "timeout", "disconnect", "malformed"}

Size(frame) == HeaderSize + frame.payload

\* Where in the stream frame n ends; the first begins behind 0 bytes.
EndOf(n) == IF n = 0 THEN 0 ELSE ends[n]

\* Types; the readable bytes stay behind the reserve, recv() is called only on a
\* connection that is up, and one that is not has a cause.
StreamTypeOK ==
    /\ BufferTypeOK
    /\ CheapPrepend <= readerIndex
    /\ frames \in Seq(Frames)
    /\ ends \in Seq(Nat)
    /\ wire \in Seq(Bytes)
    /\ arrived \in Seq(Bytes)
    /\ {ready, armed} \subseteq BOOLEAN
    /\ peer \in {"open", "closed", "reset"}
    /\ phase \in {"poll", "handleRead", "parseMessage"}
    /\ state \in {"kConnected", "kDisconnecting"}
    /\ cause \in Causes \cup {"none"}
    /\ phase = "handleRead" => state = "kConnected"
    /\ state = "kConnected" <=> cause = "none"
    /\ received \in Seq(Bytes)
    /\ delivered \in Seq(1..MaxFrames)

\* The timer is set on the server, where newConnection calls extendLife(), and not
\* on the client, before anything has been received.
StreamInit ==
    /\ BufferInit
    /\ frames = <<>>
    /\ ends = <<>>
    /\ wire = <<>>
    /\ arrived = <<>>
    /\ ready = FALSE
    /\ peer = "open"
    /\ phase = "poll"
    /\ state = "kConnected"
    /\ armed \in BOOLEAN
    /\ cause = "none"
    /\ received = <<>>
    /\ delivered = <<>>

----------------------------------------------------------------------------
\* The peer and the network, as long as the connection is up: what comes after its
\* end reaches nobody.

\* ProtocolUtil::Encode and the transport.
PeerSends(frame) ==
    /\ state = "kConnected" /\ peer = "open"
    /\ Len(frames) < MaxFrames
    /\ frames' = Append(frames, frame)
    /\ ends' = Append(ends, EndOf(Len(frames)) + Size(frame))
    /\ wire' = wire \o [i \in 1..Size(frame) |-> <<Len(frames) + 1, i>>]
    /\ UNCHANGED <<bufferVars, arrived, ready, peer, phase, connVars, received, delivered>>

PeerCloses ==
    /\ state = "kConnected" /\ peer = "open"
    /\ peer' = "closed"
    /\ ready' = (ready \/ wire = <<>>)
    /\ UNCHANGED <<bufferVars, frames, ends, wire, arrived, phase, connVars, received,
                   delivered>>

\* The connection breaks: what is on the way will not arrive.
PeerResets ==
    /\ state = "kConnected" /\ peer # "reset"
    /\ peer' = "reset"
    /\ ready' = TRUE
    /\ UNCHANGED <<bufferVars, frames, ends, wire, arrived, phase, connVars, received,
                   delivered>>

\* Some bytes arrive, without regard to the boundaries of frames, and with the
\* last of them the end of the stream, if the peer has closed it.
Transmit ==
    /\ state = "kConnected" /\ peer # "reset"
    /\ \E n \in 1..Len(wire) :
          /\ arrived' = arrived \o SubSeq(wire, 1, n)
          /\ wire' = SubSeq(wire, n + 1, Len(wire))
    /\ ready' = TRUE
    /\ UNCHANGED <<bufferVars, frames, ends, peer, phase, connVars, received, delivered>>

----------------------------------------------------------------------------
\* TcpConnection::handleRead

\* epoll reports the connection, registered edge-triggered.
ReadEvent ==
    /\ phase = "poll"
    /\ ready
    /\ state = "kConnected"
    /\ ready' = FALSE
    /\ phase' = "handleRead"
    /\ UNCHANGED <<bufferVars, peerVars, arrived, connVars, received, delivered>>

Least(m, n) == IF m < n THEN m ELSE n

\* Mutant: one recv() per event.
RecvOnce ==
    /\ phase = "handleRead"
    /\ arrived # <<>>
    /\ LET n == Least(ChunkSize, Len(arrived))
       IN  /\ AppendBytes(SubSeq(arrived, 1, n))
           /\ received' = received \o SubSeq(arrived, 1, n)
           /\ arrived' = SubSeq(arrived, n + 1, Len(arrived))
    /\ armed' = TRUE
    /\ phase' = "parseMessage"
    /\ UNCHANGED <<peerVars, ready, state, cause, delivered>>

\* recv() takes what has arrived, as much as its array holds; extendLife() sets
\* the keep-alive timer anew.
Recv ==
    /\ phase = "handleRead"
    /\ arrived # <<>>
    /\ LET n == Least(ChunkSize, Len(arrived))
       IN  /\ AppendBytes(SubSeq(arrived, 1, n))
           /\ received' = received \o SubSeq(arrived, 1, n)
           /\ arrived' = SubSeq(arrived, n + 1, Len(arrived))
    /\ armed' = TRUE
    /\ UNCHANGED <<peerVars, ready, phase, state, cause, delivered>>

\* EAGAIN: everything that had arrived is in the buffer.
RecvAgain ==
    /\ phase = "handleRead"
    /\ arrived = <<>>
    /\ peer # "reset" /\ (wire # <<>> \/ peer = "open")
    /\ phase' = "parseMessage"
    /\ UNCHANGED <<bufferVars, peerVars, arrived, ready, connVars, received, delivered>>

\* state_ = kDisconnecting, out of epoll, and the close callback.
Ends(why) ==
    /\ state' = "kDisconnecting"
    /\ cause' = why
    /\ UNCHANGED armed

\* recv() returns 0, or fails: handleRead closes the connection and returns
\* without calling messageCallback_, whatever it has read before.
RecvCloses(why) ==
    /\ phase = "handleRead"
    /\ Ends(why)
    /\ phase' = "poll"
    /\ UNCHANGED <<bufferVars, peerVars, arrived, ready, received, delivered>>

RecvEnd ==
    /\ arrived = <<>> /\ wire = <<>> /\ peer = "closed"
    /\ RecvCloses("end")

RecvFails ==
    /\ peer = "reset"
    /\ RecvCloses("error")

----------------------------------------------------------------------------
\* Other ends

\* handleTimeout: the keep-alive timer has run out.
Timeout ==
    /\ phase = "poll"
    /\ state = "kConnected"
    /\ armed
    /\ Ends("timeout")
    /\ UNCHANGED <<bufferVars, peerVars, arrived, ready, phase, received, delivered>>

\* TcpClient::disconnect(), in the connection's loop, forces it shut, between two
\* events or in a callback that parseMessage has called, which then goes on.
Disconnect ==
    /\ phase # "handleRead"
    /\ state = "kConnected"
    /\ Ends("disconnect")
    /\ UNCHANGED <<bufferVars, peerVars, arrived, ready, phase, received, delivered>>

----------------------------------------------------------------------------
\* RpcCodec::parseMessage

\* The frame that the readable bytes begin with; a header is read wherever the
\* read index stands.
HeadFrame == frames[Readable[1][1]]

\* Mutant: a frame is complete as soon as its header is.
DecodeEager ==
    IF ReadableBytes < HeaderSize THEN "kHalfPacket"
    ELSE IF Readable[1][2] # 1 \/ HeadFrame.kind = "badMagic" THEN "kError"
    ELSE IF HeadFrame.payload > MaxPayload \/ HeadFrame.kind = "badMeta" THEN "kError"
    ELSE "kSuccess"

\* ProtocolUtil::Decode: no header yet, no magic number, not all of it yet, too
\* large, malformed, or a frame.  Bytes that are not the start of a frame are no
\* header.
Decode ==
    IF ReadableBytes < HeaderSize THEN "kHalfPacket"
    ELSE IF Readable[1][2] # 1 \/ HeadFrame.kind = "badMagic" THEN "kError"
    ELSE IF ReadableBytes < Size(HeadFrame) THEN "kHalfPacket"
    ELSE IF HeadFrame.payload > MaxPayload \/ HeadFrame.kind = "badMeta" THEN "kError"
    ELSE "kSuccess"

\* Mutant: one frame per event.
ParseFrameOnce ==
    /\ phase = "parseMessage"
    /\ ReadableBytes > 0
    /\ Decode = "kSuccess"
    /\ delivered' = Append(delivered, Readable[1][1])
    /\ Retrieve(Size(HeadFrame))
    /\ phase' = "poll"
    /\ UNCHANGED <<peerVars, arrived, ready, connVars, received>>

\* A frame is cut off and handed to the layer above.
ParseFrame ==
    /\ phase = "parseMessage"
    /\ ReadableBytes > 0
    /\ Decode = "kSuccess"
    /\ delivered' = Append(delivered, Readable[1][1])
    /\ Retrieve(Size(HeadFrame))
    /\ UNCHANGED <<peerVars, arrived, ready, phase, connVars, received>>

\* The rest, if any, waits for more.
ParseEnds ==
    /\ phase = "parseMessage"
    /\ ReadableBytes = 0 \/ Decode = "kHalfPacket"
    /\ phase' = "poll"
    /\ UNCHANGED <<bufferVars, peerVars, arrived, ready, connVars, received, delivered>>

\* forceClose, which does nothing if disconnect() has come before.
ParseFails ==
    /\ phase = "parseMessage"
    /\ ReadableBytes > 0
    /\ Decode = "kError"
    /\ Ends("malformed")
    /\ phase' = "poll"
    /\ UNCHANGED <<bufferVars, peerVars, arrived, ready, received, delivered>>

----------------------------------------------------------------------------
\* A connection that recv() ends with a complete frame in the buffer loses it.
HandleRead ==
    \/ ReadEvent \/ Recv \/ RecvAgain
    \/ Decode # "kSuccess" /\ RecvEnd
    \/ Decode = "kSuccess" /\ RecvEnd
    \/ Decode # "kSuccess" /\ RecvFails
    \/ Decode = "kSuccess" /\ RecvFails

ParseMessage == ParseFrame \/ ParseEnds \/ ParseFails

StreamNext ==
    \/ \E frame \in Frames : PeerSends(frame)
    \/ PeerCloses
    \/ PeerResets
    \/ Transmit
    \/ HandleRead
    \/ ParseMessage
    \/ Timeout
    \/ Disconnect

StreamSpec == StreamInit /\ [][StreamNext]_streamVars

\* The network delivers, the loop reports what has arrived, callbacks return.
StreamFairSpec == StreamSpec /\ WF_streamVars(Transmit) /\ WF_streamVars(HandleRead \/ ParseMessage)

----------------------------------------------------------------------------
\* Properties

\* The readable bytes are exactly those received and not yet cut into frames, in
\* order, wherever moving and enlarging have put them.
NothingScrambled ==
    Readable = SubSeq(received, EndOf(Len(delivered)) + 1, Len(received))

\* Frames are delivered complete, in the order they were sent, each once, none
\* left out, and none from a malformed one on.
FramesInOrder ==
    /\ delivered = [i \in 1..Len(delivered) |-> i]
    /\ EndOf(Len(delivered)) <= Len(received)
    /\ \A i \in DOMAIN delivered :
          frames[i].kind = "good" /\ frames[i].payload <= MaxPayload

\* No complete frame is left in the buffer of a connection that waits for more:
\* with edge-triggered events nothing would ever come back for it.  Nor is one left
\* by the timer or by disconnect(): only the end of the stream or an error, met by
\* handleRead before it calls messageCallback_, leaves complete frames behind.
NoFrameStranded ==
    phase = "poll" /\ cause \in {"none", "timeout", "disconnect"} =>
        \/ ReadableBytes < HeaderSize
        \/ ReadableBytes < Size(frames[Len(delivered) + 1])
             /\ frames[Len(delivered) + 1].kind # "badMagic"

\* The memory is enlarged only when the readable bytes and the new ones exceed
\* all of it but the reserve.
GrowsOnlyWhenFull ==
    [][Len(buf') > Len(buf) =>
          ReadableBytes + Len(received') - Len(received) > Len(buf) - CheapPrepend]_streamVars

Malformed(frame) == frame.kind # "good" \/ frame.payload > MaxPayload

\* A frame that is sent is delivered, or the connection ends, and that has a cause
\* outside: this frame or an earlier one is malformed, the peer closed its side or
\* the connection broke, the keep-alive timer ran out or the user disconnected.
FrameDelivered ==
    \A n \in 1..MaxFrames :
        Len(frames) >= n ~>
            \/ n \in ToSet(delivered)
            \/ /\ state = "kDisconnecting"
               /\ cause = "malformed" => \E i \in 1..n : Malformed(frames[i])
               /\ cause = "end" => peer # "open"
               /\ cause = "error" => peer = "reset"
============================================================================

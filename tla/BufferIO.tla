------------------------------ MODULE BufferIO -----------------------------
(***************************************************************************)
(* A Buffer in use: every operation it offers, in any order, and readFd(), *)
(* which moves what has arrived at a socket into the free room of the      *)
(* Buffer and an array on the stack, in turns, until nothing is left.      *)
(***************************************************************************)
EXTENDS Buffer

CONSTANTS
    Pieces,     \* the byte strings that are appended, prepended and received
    Targets,    \* the byte strings that findCRLF() looks for
    ExtraSize,  \* sizeof(extrabuf), 65536 in the code
    MaxBytes    \* bound: the bytes in the Buffer and at the socket

ASSUME IOAssumption ==
    /\ Pieces \subseteq Seq(Bytes)
    /\ Targets \subseteq Seq(Bytes) \ {<<>>}
    /\ ExtraSize \in Nat \ {0}

VARIABLES
    socket,      \* the bytes that have arrived
    closed,      \* the peer has closed its side: no more will arrive
    pc,          \* "user", "readv" or "append" (both in readFd)
    extrabuf,    \* the bytes in the array on the stack
    totalBytes,  \* the bytes this readFd() has read
    string,      \* the bytes the last operation returned, if it returns bytes
    number       \* the number it returned, if it returns one

vars == <<buf, readerIndex, writerIndex, socket, closed, pc, extrabuf, totalBytes,
          string, number>>
arriving == <<socket, closed>>
answer == <<string, number>>
reading == <<pc, extrabuf, totalBytes>>

TypeOK ==
    /\ BufferTypeOK
    /\ socket \in Seq(Bytes)
    /\ closed \in BOOLEAN
    /\ pc \in {"user", "readv", "append"}
    /\ extrabuf \in Seq(Bytes)
    /\ extrabuf # <<>> <=> pc = "append"
    /\ totalBytes \in Nat
    /\ Len(extrabuf) <= totalBytes
    /\ string \in Seq(Bytes)
    /\ number \in Nat \cup {-1}

Init ==
    /\ BufferInit
    /\ socket = <<>> /\ closed = FALSE
    /\ pc = "user" /\ extrabuf = <<>> /\ totalBytes = 0
    /\ string = <<>> /\ number = 0

Returns(s, n) == string' = s /\ number' = n

RoomFor(piece) == ReadableBytes + Len(extrabuf) + Len(socket) + Len(piece) <= MaxBytes

Arrive(piece) ==
    /\ ~closed
    /\ RoomFor(piece)
    /\ socket' = socket \o piece
    /\ UNCHANGED <<bufferVars, closed, reading, answer>>

EndArrives ==
    /\ ~closed
    /\ closed' = TRUE
    /\ UNCHANGED <<bufferVars, socket, reading, answer>>

----------------------------------------------------------------------------
\* The operations of the user

UserAppends(piece) ==
    /\ pc = "user"
    /\ RoomFor(piece)
    /\ AppendBytes(piece)
    /\ Returns(<<>>, 0)
    /\ UNCHANGED <<arriving, reading>>

UserPrepends(piece) ==
    /\ pc = "user"
    /\ RoomFor(piece)
    /\ PrependBytes(piece)
    /\ Returns(<<>>, 0)
    /\ UNCHANGED <<arriving, reading>>

\* retrieve() of len bytes.
UserRetrieves(len) ==
    /\ pc = "user"
    /\ Retrieve(len)
    /\ Returns(<<>>, 0)
    /\ UNCHANGED <<arriving, reading>>

\* retrieveAsString() of len bytes, retrieveAllAsString() of all.
UserRetrievesAsString(len) ==
    /\ pc = "user"
    /\ Retrieve(len)
    /\ Returns(SubSeq(buf, readerIndex + 1, readerIndex + len), 0)
    /\ UNCHANGED <<arriving, reading>>

\* findCRLF(): the first place of target; npos is -1 here.
UserFinds(target) ==
    /\ pc = "user"
    /\ \/ OffsetsOf(target) = {} /\ Returns(<<>>, -1)
       \/ \E i \in OffsetsOf(target) :
             Returns(<<>>, i) /\ \A j \in OffsetsOf(target) : i <= j
    /\ UNCHANGED <<bufferVars, arriving, reading>>

----------------------------------------------------------------------------
\* readFd

ReadFd ==
    /\ pc = "user"
    /\ pc' = "readv"
    /\ totalBytes' = 0
    /\ Returns(<<>>, 0)
    /\ UNCHANGED <<bufferVars, arriving, extrabuf>>

\* What one readv() takes: as much as the free room holds, and the array behind
\* it, which is not used when the free room is as large.
Capacity == WritableBytes + (IF WritableBytes < ExtraSize THEN ExtraSize ELSE 0)

Lesser(m, n) == IF m < n THEN m ELSE n

\* readv() fills the free room, then the array.
Readv ==
    /\ pc = "readv"
    /\ socket # <<>>
    /\ LET n     == Lesser(Capacity, Len(socket))
           inBuf == Lesser(WritableBytes, n)
       IN  /\ PutBehind(SubSeq(socket, 1, inBuf))
           /\ extrabuf' = SubSeq(socket, inBuf + 1, n)
           /\ socket' = SubSeq(socket, n + 1, Len(socket))
           /\ totalBytes' = totalBytes + n
           /\ pc' = IF inBuf < n THEN "append" ELSE "readv"
    /\ UNCHANGED <<closed, answer>>

\* What fell into the array is appended.
AppendExtra ==
    /\ pc = "append"
    /\ AppendBytes(extrabuf)
    /\ extrabuf' = <<>>
    /\ pc' = "readv"
    /\ UNCHANGED <<arriving, totalBytes, answer>>

\* EAGAIN: nothing is left at the open socket.  A readFd() that has read nothing
\* returns 0 here as well.
ReadvAgain ==
    /\ pc = "readv"
    /\ socket = <<>> /\ ~closed
    /\ pc' = "user"
    /\ Returns(<<>>, totalBytes)
    /\ UNCHANGED <<bufferVars, arriving, extrabuf, totalBytes>>

\* readv() returns 0, the end of the stream: readFd() returns what it has read
\* before, and 0 only if that is nothing.
ReadvEnd ==
    /\ pc = "readv"
    /\ socket = <<>> /\ closed
    /\ pc' = "user"
    /\ Returns(<<>>, totalBytes)
    /\ UNCHANGED <<bufferVars, arriving, extrabuf, totalBytes>>

\* Any other error: what was read before it stays in the Buffer.
ReadvFails ==
    /\ pc = "readv"
    /\ pc' = "user"
    /\ Returns(<<>>, -1)
    /\ UNCHANGED <<bufferVars, arriving, extrabuf, totalBytes>>

----------------------------------------------------------------------------
UserWrites == \E piece \in Pieces : UserAppends(piece) \/ UserPrepends(piece)

UserReads ==
    \/ \E len \in 0..ReadableBytes : UserRetrieves(len) \/ UserRetrievesAsString(len)
    \/ \E target \in Targets : UserFinds(target)

Next ==
    \/ \E piece \in Pieces : Arrive(piece)
    \/ EndArrives
    \/ UserWrites
    \/ UserReads
    \/ ReadFd
    \/ Readv
    \/ AppendExtra
    \/ ReadvAgain
    \/ ReadvEnd
    \/ ReadvFails

Spec == Init /\ [][Next]_vars

----------------------------------------------------------------------------
\* What lies in the array has left the socket in the eyes of the kernel only.
Queue == INSTANCE ByteQueue WITH
            content <- Readable,
            source  <- extrabuf \o socket,
            reading <- pc # "user",
            moved   <- totalBytes - Len(extrabuf)

\* The Buffer is a queue of bytes: whatever is moved, copied to larger memory or
\* put into the reserve, what is read, found and searched for are the bytes that
\* were put in, in order.  A readFd() that does not fail has emptied the socket and
\* returns how many bytes it has added, be the peer's side open or closed: its
\* result 0 does not say that the peer has closed, as its comment has it.
IsByteQueue == Queue!Spec
============================================================================

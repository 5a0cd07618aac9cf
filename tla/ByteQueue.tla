----------------------------- MODULE ByteQueue -----------------------------
(***************************************************************************)
(* What a Buffer promises its user: a queue of bytes that can be extended  *)
(* at either end and searched, and that a read fills, piece by piece, with *)
(* what has arrived at a socket.  Nothing is said of where the bytes lie.  *)
(***************************************************************************)
EXTENDS Integers, Sequences

CONSTANTS
    Pieces,  \* the byte strings that are appended, prepended and received
    Targets  \* the byte strings that are searched for

VARIABLES
    content,  \* the bytes in the queue
    source,   \* the bytes that have arrived at the socket
    closed,   \* none will arrive any more: the peer has closed its side
    reading,  \* a read is under way
    moved,    \* the bytes it has moved so far
    string,   \* the bytes the last operation returned, if it returns bytes
    number    \* the number it returned, if it returns one

vars == <<content, source, closed, reading, moved, string, number>>

Init ==
    /\ content = <<>> /\ source = <<>> /\ closed = FALSE
    /\ reading = FALSE /\ moved = 0
    /\ string = <<>> /\ number = 0

Returns(s, n) == string' = s /\ number' = n

Arrive(piece) ==
    /\ ~closed
    /\ source' = source \o piece
    /\ UNCHANGED <<content, closed, reading, moved, string, number>>

EndArrives ==
    /\ ~closed
    /\ closed' = TRUE
    /\ UNCHANGED <<content, source, reading, moved, string, number>>

\* Bytes are added behind the others, or in front of them.
Extend(piece) ==
    /\ ~reading
    /\ content' \in {content \o piece, piece \o content}
    /\ Returns(<<>>, 0)
    /\ UNCHANGED <<source, closed, reading, moved>>

\* The first len bytes leave, and are returned or not.
Take(len) ==
    /\ ~reading
    /\ content' = SubSeq(content, len + 1, Len(content))
    /\ number' = 0
    /\ string' \in {SubSeq(content, 1, len), <<>>}
    /\ UNCHANGED <<source, closed, reading, moved>>

Occurs(target, offset) ==
    /\ offset \in 0..Len(content) - Len(target)
    /\ \A k \in DOMAIN target : content[offset + k] = target[k]

\* A search returns the first place of target, or -1 if there is none.
Search(target) ==
    /\ ~reading
    /\ string' = <<>>
    /\ \/ number' = -1 /\ \A i \in 0..Len(content) : ~Occurs(target, i)
       \/ Occurs(target, number') /\ \A i \in 0..number' - 1 : ~Occurs(target, i)
    /\ UNCHANGED <<content, source, closed, reading, moved>>

ReadBegins ==
    /\ ~reading
    /\ reading' = TRUE
    /\ moved' = 0
    /\ Returns(<<>>, 0)
    /\ UNCHANGED <<content, source, closed>>

ReadMoves(n) ==
    /\ reading
    /\ content' = content \o SubSeq(source, 1, n)
    /\ source' = SubSeq(source, n + 1, Len(source))
    /\ moved' = moved + n
    /\ UNCHANGED <<closed, reading, string, number>>

\* A read ends with how many bytes it has moved once none is left at the socket:
\* because the peer has closed its side, or because no more have come so far.  The
\* number does not tell which: 0 is returned for an open socket too, and an end
\* behind some bytes is not reported by the read that moves them.
ReadEnds ==
    /\ reading
    /\ reading' = FALSE
    /\ source = <<>>
    /\ Returns(<<>>, moved)
    /\ UNCHANGED <<content, source, closed, moved>>

ReadFails ==
    /\ reading
    /\ reading' = FALSE
    /\ Returns(<<>>, -1)
    /\ UNCHANGED <<content, source, closed, moved>>

Next ==
    \/ \E piece \in Pieces : Arrive(piece) \/ Extend(piece)
    \/ \E len \in 0..Len(content) : Take(len)
    \/ \E target \in Targets : Search(target)
    \/ \E n \in 0..Len(source) : ReadMoves(n)
    \/ EndArrives
    \/ ReadBegins
    \/ ReadEnds
    \/ ReadFails

Spec == Init /\ [][Next]_vars
============================================================================

------------------------------- MODULE Buffer ------------------------------
(***************************************************************************)
(* MyRPC::Buffer: a growing block of memory with a read and a write index. *)
(* Bytes are consumed at the one and appended at the other; when there is  *)
(* no room behind the write index the readable bytes are moved to the      *)
(* front or the memory is enlarged.                                        *)
(***************************************************************************)
EXTENDS Integers, Sequences

CONSTANTS
    Bytes,         \* what a byte can be
    Zero,          \* the byte fresh memory holds
    CheapPrepend,  \* kCheapPrepend, 8 in the code
    InitialSize    \* kInitialSize, 1024 in the code

ASSUME BufferAssumption ==
    /\ Zero \in Bytes
    /\ CheapPrepend \in Nat
    /\ InitialSize \in Nat

VARIABLES
    buf,          \* buf_; index i of the code is i + 1 here
    readerIndex,  \* readerIndex_
    writerIndex   \* writerIndex_

bufferVars == <<buf, readerIndex, writerIndex>>

BufferTypeOK ==
    /\ buf \in Seq(Bytes)
    /\ readerIndex \in Nat
    /\ writerIndex \in Nat
    /\ CheapPrepend <= Len(buf)
    /\ readerIndex <= writerIndex
    /\ writerIndex <= Len(buf)

BufferInit ==
    /\ buf = [i \in 1..CheapPrepend + InitialSize |-> Zero]
    /\ readerIndex = CheapPrepend
    /\ writerIndex = CheapPrepend

ReadableBytes == writerIndex - readerIndex
WritableBytes == Len(buf) - writerIndex

\* The bytes between the indices: peek() and its length.
Readable == SubSeq(buf, readerIndex + 1, writerIndex)

\* Memory mem with bytes put in from index at on.
Overwrite(mem, at, bytes) ==
    [i \in DOMAIN mem |->
        IF i - at \in DOMAIN bytes THEN bytes[i - at] ELSE mem[i]]

Enlarged(size) == [i \in 1..size |-> IF i \in DOMAIN buf THEN buf[i] ELSE Zero]

\* Mutant: moving is never tried.
FitsByMovingNever(len) == FALSE

\* makeSpace: moving the readable bytes to the front makes enough room.
FitsByMoving(len) == WritableBytes + readerIndex >= len + CheapPrepend

\* Bytes for which there is room are put behind the write index.
PutBehind(bytes) ==
    /\ buf' = Overwrite(buf, writerIndex, bytes)
    /\ writerIndex' = writerIndex + Len(bytes)
    /\ UNCHANGED readerIndex

\* append() of some bytes: behind the write index if they fit, else after moving
\* the readable bytes to the front, else in enlarged memory.
AppendBytes(bytes) ==
    \/ WritableBytes >= Len(bytes) /\ PutBehind(bytes)
    \/ /\ WritableBytes < Len(bytes)
       /\ FitsByMoving(Len(bytes))
       /\ buf' = Overwrite(Overwrite(buf, CheapPrepend, Readable),
                           CheapPrepend + ReadableBytes, bytes)
       /\ readerIndex' = CheapPrepend
       /\ writerIndex' = CheapPrepend + ReadableBytes + Len(bytes)
    \/ /\ WritableBytes < Len(bytes)
       /\ ~FitsByMoving(Len(bytes))
       /\ buf' = Overwrite(Enlarged(writerIndex + Len(bytes)), writerIndex, bytes)
       /\ writerIndex' = writerIndex + Len(bytes)
       /\ UNCHANGED readerIndex

\* Mutant: the bytes are copied before the read index is taken back.
PrependBytesLate(bytes) ==
    /\ Len(bytes) <= readerIndex
    /\ buf' = Overwrite(buf, readerIndex, bytes)
    /\ readerIndex' = readerIndex - Len(bytes)
    /\ UNCHANGED writerIndex

\* prepend(): into the room before the read index, the reserve included.
PrependBytes(bytes) ==
    /\ Len(bytes) <= readerIndex
    /\ buf' = Overwrite(buf, readerIndex - Len(bytes), bytes)
    /\ readerIndex' = readerIndex - Len(bytes)
    /\ UNCHANGED writerIndex

\* Where the readable bytes hold target, as offsets from the read index.
OffsetsOf(target) ==
    {i \in 0..ReadableBytes - Len(target) :
        \A k \in DOMAIN target : buf[readerIndex + i + k] = target[k]}

\* Mutant: an emptied buffer resets only the read index.
RetrieveHalf(len) ==
    /\ UNCHANGED buf
    /\ IF len < ReadableBytes
       THEN readerIndex' = readerIndex + len /\ UNCHANGED writerIndex
       ELSE readerIndex' = CheapPrepend /\ UNCHANGED writerIndex

\* retrieve() of at most the readable bytes; an emptied buffer starts over
\* (retrieveAll).
Retrieve(len) ==
    /\ UNCHANGED buf
    /\ IF len < ReadableBytes
       THEN readerIndex' = readerIndex + len /\ UNCHANGED writerIndex
       ELSE readerIndex' = CheapPrepend /\ writerIndex' = CheapPrepend
============================================================================

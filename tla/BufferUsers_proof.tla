------------------------- MODULE BufferUsers_proof -------------------------
(***************************************************************************)
(* Proofs about the two users of Buffer.  BufferIO, for any bytes, sizes,  *)
(* pieces and targets: every operation of Buffer, and readFd() step by     *)
(* step, implements ByteQueue.  RpcStream, for any sizes of frames,        *)
(* header, chunks and buffer: frames come out of handleRead and            *)
(* parseMessage whole, once and in order, and none is left behind.         *)
(***************************************************************************)
EXTENDS BufferIO, RpcStream, Buffer_proof

\* Concatenation with nothing.
LEMMA WithNothing == ASSUME NEW s \in Seq(Bytes) PROVE s \o <<>> = s /\ <<>> \o s = s
BY ConcatEmptySeq

\* In whatever order three sequences are put together.
LEMMA Together ==
    ASSUME NEW s \in Seq(Bytes), NEW t \in Seq(Bytes), NEW u \in Seq(Bytes)
    PROVE  s \o t \in Seq(Bytes) /\ (s \o t) \o u = s \o (t \o u)
BY ConcatAssociative, ConcatProperties

\* The same, as the provers instantiate it best.
LEMMA Associative ==
    \A s, t, u \in Seq(Bytes) : (s \o t) \o u = s \o (t \o u)
BY Together

\* Any stretch of a sequence of bytes.
LEMMA Stretch ==
    ASSUME NEW s \in Seq(Bytes), NEW m \in Nat, NEW n \in Nat, n <= Len(s)
    PROVE  /\ SubSeq(s, m + 1, n) \in Seq(Bytes)
           /\ Len(SubSeq(s, m + 1, n)) = IF m <= n THEN n - m ELSE 0
<1>1. Len(s) \in Nat /\ \A i \in 1..Len(s) : s[i] \in Bytes
  OBVIOUS
<1>2. \A i \in (m + 1)..n : s[i] \in Bytes
  BY <1>1
<1>3. /\ SubSeq(s, m + 1, n) \in Seq(Bytes)
      /\ Len(SubSeq(s, m + 1, n)) = IF m + 1 <= n THEN n - (m + 1) + 1 ELSE 0
  BY <1>2, SubSeqProperties
<1> QED BY <1>3

\* What was put in front of a sequence is its beginning, and the rest its end.
LEMMA ConcatParts ==
    ASSUME NEW s \in Seq(Bytes), NEW t \in Seq(Bytes)
    PROVE  /\ SubSeq(s \o t, 1, Len(s)) = s
           /\ SubSeq(s \o t, Len(s) + 1, Len(s \o t)) = t
<1>1. /\ s \o t \in Seq(Bytes) /\ Len(s) \in Nat /\ Len(t) \in Nat
      /\ Len(s \o t) = Len(s) + Len(t)
      /\ \A i \in 1..Len(s) + Len(t) :
            (s \o t)[i] = IF i <= Len(s) THEN s[i] ELSE t[i - Len(s)]
  BY ConcatProperties
<1>2. SubSeq(s \o t, 1, Len(s)) = s
  <2>1. /\ SubSeq(s \o t, 0 + 1, Len(s)) \in Seq(Bytes)
        /\ Len(SubSeq(s \o t, 0 + 1, Len(s))) = Len(s) - 0
        /\ \A i \in 1..(Len(s) - 0) : SubSeq(s \o t, 0 + 1, Len(s))[i] = (s \o t)[0 + i]
    BY <1>1, Between
  <2>2. \A i \in 1..Len(s) : SubSeq(s \o t, 0 + 1, Len(s))[i] = s[i]
    BY <1>1, <2>1
  <2>3. SubSeq(s \o t, 0 + 1, Len(s)) = s
    BY <1>1, <2>1, <2>2, SeqEqual
  <2> QED BY <2>3
<1>3. SubSeq(s \o t, Len(s) + 1, Len(s) + Len(t)) = t
  <2> DEFINE end == SubSeq(s \o t, Len(s) + 1, Len(s) + Len(t))
  <2>1. /\ end \in Seq(Bytes) /\ Len(end) = (Len(s) + Len(t)) - Len(s)
        /\ \A i \in 1..((Len(s) + Len(t)) - Len(s)) : end[i] = (s \o t)[Len(s) + i]
    BY <1>1, Between
  <2> HIDE DEF end
  <2>2. ASSUME NEW i \in 1..Len(t) PROVE end[i] = t[i]
    <3>1. /\ Len(s) + i \in 1..Len(s) + Len(t) /\ ~(Len(s) + i <= Len(s))
          /\ (Len(s) + i) - Len(s) = i
      BY <1>1
    <3>2. (s \o t)[Len(s) + i] = t[(Len(s) + i) - Len(s)]
      BY <1>1, <3>1
    <3> QED BY <1>1, <2>1, <3>1, <3>2
  <2>3. Len(end) = Len(t)
    BY <1>1, <2>1
  <2> QED BY <2>1, <2>2, <2>3, SeqEqual DEF end
<1> QED BY <1>1, <1>2, <1>3

----------------------------------------------------------------------------
\* Bytes for which there is room are appended by advancing the write index.
LEMMA PutBehindAppends ==
    ASSUME BufferTypeOK, NEW bytes \in Seq(Bytes), Len(bytes) <= WritableBytes,
           PutBehind(bytes)
    PROVE  BufferTypeOK' /\ Readable' = Readable \o bytes
<1>1. Len(bytes) \in Nat /\ WritableBytes \in Nat
  BY DEF BufferTypeOK, WritableBytes
<1>2. AppendBytes(bytes)
  BY <1>1 DEF AppendBytes
<1> QED BY <1>2, AppendAppends

\* What prepend() leaves in the buffer: the new bytes and behind them the readable
\* ones, even where the new ones lie in the reserve.
THEOREM PrependPrepends ==
    ASSUME BufferTypeOK, NEW bytes \in Seq(Bytes), PrependBytes(bytes)
    PROVE  BufferTypeOK' /\ Readable' = bytes \o Readable
<1> DEFINE n == Len(bytes)
           at == readerIndex - n
<1>0. /\ buf \in Seq(Bytes) /\ Len(buf) \in Nat /\ n \in Nat
      /\ readerIndex \in Nat /\ writerIndex \in Nat /\ at \in Nat
      /\ CheapPrepend <= Len(buf) /\ readerIndex <= writerIndex /\ writerIndex <= Len(buf)
      /\ ReadableBytes = writerIndex - readerIndex /\ ReadableBytes \in Nat
  BY DEF BufferTypeOK, ReadableBytes, PrependBytes
<1>1. /\ buf' = Overwrite(buf, at, bytes) /\ readerIndex' = at
      /\ writerIndex' = writerIndex
  BY DEF PrependBytes
<1>2. /\ buf' \in Seq(Bytes) /\ Len(buf') = Len(buf)
      /\ \A i \in 1..Len(buf) : buf'[i] = IF i - at \in 1..n THEN bytes[i - at] ELSE buf[i]
  BY <1>0, <1>1, OverwriteKeeps
<1>3. BufferTypeOK'
  BY <1>0, <1>1, <1>2 DEF BufferTypeOK
<1>4. /\ Readable \in Seq(Bytes) /\ Len(Readable) = ReadableBytes
      /\ \A i \in 1..ReadableBytes : Readable[i] = buf[readerIndex + i]
  BY ReadableBytesAre
<1>5. /\ Readable' \in Seq(Bytes) /\ Len(Readable') = n + ReadableBytes
      /\ \A i \in 1..(n + ReadableBytes) : Readable'[i] = buf'[at + i]
  <2>1. /\ SubSeq(buf', at + 1, writerIndex) \in Seq(Bytes)
        /\ Len(SubSeq(buf', at + 1, writerIndex)) = writerIndex - at
        /\ \A i \in 1..(writerIndex - at) : SubSeq(buf', at + 1, writerIndex)[i] = buf'[at + i]
    <3>1. /\ buf' \in Seq(Bytes) /\ at \in Nat /\ writerIndex \in Nat
          /\ at <= writerIndex /\ writerIndex <= Len(buf')
      BY <1>0, <1>2
    <3> HIDE DEF at
    <3> QED BY ONLY <3>1, Between
  <2>2. writerIndex - at = n + ReadableBytes
    BY <1>0
  <2>3. Readable' = SubSeq(buf', at + 1, writerIndex)
    BY <1>1 DEF Readable
  <2> QED BY <2>1, <2>2, <2>3
<1>6. /\ bytes \o Readable \in Seq(Bytes) /\ Len(bytes \o Readable) = n + ReadableBytes
      /\ \A i \in 1..(n + ReadableBytes) :
            (bytes \o Readable)[i] = IF i <= n THEN bytes[i] ELSE Readable[i - n]
  BY <1>4, ConcatProperties
<1>7. ASSUME NEW i \in 1..(n + ReadableBytes) PROVE Readable'[i] = (bytes \o Readable)[i]
  <2>1. PICK k \in 1..Len(buf) : k = at + i
    <3>1. at + i \in 1..Len(buf)
      BY <1>0
    <3> QED BY <3>1
  <2>2. Readable'[i] = buf'[k] /\ k - at = i
    BY <1>0, <1>5, <2>1
  <2>3. CASE i <= n
    <3>1. buf'[k] = bytes[k - at]
      BY <1>0, <1>2, <2>2, <2>3
    <3> QED BY <1>6, <2>2, <2>3, <3>1
  <2>4. CASE ~(i <= n)
    <3>1. buf'[k] = buf[k]
      BY <1>0, <1>2, <2>2, <2>4
    <3>2. i - n \in 1..ReadableBytes /\ readerIndex + (i - n) = k
      BY <1>0, <2>1, <2>4
    <3> QED BY <1>4, <1>6, <2>2, <2>4, <3>1, <3>2
  <2> QED BY <2>3, <2>4
<1> QED BY <1>3, <1>5, <1>6, <1>7, SeqEqual

\* The first bytes behind the read index are the first readable ones.
LEMMA Peek ==
    ASSUME BufferTypeOK, NEW len \in 0..ReadableBytes
    PROVE  SubSeq(buf, readerIndex + 1, readerIndex + len) = SubSeq(Readable, 1, len)
<1>1. /\ Readable \in Seq(Bytes) /\ Len(Readable) = ReadableBytes /\ ReadableBytes \in Nat
      /\ \A i \in 1..ReadableBytes : Readable[i] = buf[readerIndex + i]
  BY ReadableBytesAre
<1>2. PICK from \in Nat, to \in Nat :
         /\ from = readerIndex /\ to = readerIndex + len /\ to - from = len
         /\ from <= to /\ to <= Len(buf)
  BY DEF BufferTypeOK, ReadableBytes
<1>3. /\ SubSeq(buf, from + 1, to) \in Seq(Bytes) /\ Len(SubSeq(buf, from + 1, to)) = len
      /\ \A i \in 1..len : SubSeq(buf, from + 1, to)[i] = buf[from + i]
  <2>1. buf \in Seq(Bytes)
    BY DEF BufferTypeOK
  <2> QED BY <1>2, <2>1, Between
<1>4. /\ SubSeq(Readable, 1, len) \in Seq(Bytes) /\ Len(SubSeq(Readable, 1, len)) = len
      /\ \A i \in 1..len : SubSeq(Readable, 1, len)[i] = Readable[i]
  <2>1. \A i \in 1..len : Readable[i] \in Bytes
    BY <1>1
  <2>2. /\ SubSeq(Readable, 1, len) \in Seq(Bytes)
        /\ Len(SubSeq(Readable, 1, len)) = IF 1 <= len THEN len - 1 + 1 ELSE 0
        /\ \A i \in 1..(len - 1 + 1) : SubSeq(Readable, 1, len)[i] = Readable[1 + i - 1]
    BY <1>1, <2>1, SubSeqProperties
  <2> QED BY <1>1, <2>2
<1>5. SubSeq(buf, from + 1, to) = SubSeq(Readable, 1, len)
  <2>1. \A i \in 1..len : SubSeq(buf, from + 1, to)[i] = SubSeq(Readable, 1, len)[i]
    BY <1>1, <1>2, <1>3, <1>4
  <2> QED BY ONLY <1>3, <1>4, <2>1, SeqEqual
<1> QED BY <1>2, <1>5

\* findCRLF() looks at the readable bytes and at no others.
LEMMA OffsetsAre ==
    ASSUME BufferTypeOK, NEW target \in Seq(Bytes) \ {<<>>}, NEW i
    PROVE  i \in OffsetsOf(target) <=>
              /\ i \in 0..Len(Readable) - Len(target)
              /\ \A k \in DOMAIN target : Readable[i + k] = target[k]
<1>1. /\ Len(Readable) = ReadableBytes /\ ReadableBytes \in Nat
      /\ \A j \in 1..ReadableBytes : Readable[j] = buf[readerIndex + j]
  BY ReadableBytesAre
<1>2. readerIndex \in Nat /\ Len(target) \in Nat /\ DOMAIN target = 1..Len(target)
  BY DEF BufferTypeOK
<1>3. ASSUME i \in 0..ReadableBytes - Len(target), NEW k \in DOMAIN target
      PROVE  Readable[i + k] = buf[readerIndex + i + k]
  <2>1. i + k \in 1..ReadableBytes /\ readerIndex + (i + k) = readerIndex + i + k
    BY <1>1, <1>2, <1>3
  <2>2. Readable[i + k] = buf[readerIndex + (i + k)]
    BY <1>1, <2>1
  <2> QED BY <2>1, <2>2
<1> QED BY <1>1, <1>3 DEF OffsetsOf

LEMMA Nothing == \A m, n : m = 0 /\ n = 0 => m - n = 0 /\ n <= m
OBVIOUS

----------------------------------------------------------------------------
\* An operation of the user starts and ends outside readFd(), with nothing in the
\* array, and leaves the socket alone.
LEMMA UserStep ==
    ASSUME TypeOK, pc = "user", UNCHANGED <<arriving, reading>>, BufferTypeOK',
           string' \in Seq(Bytes), number' \in Nat \cup {-1}
    PROVE  /\ TypeOK'
           /\ pc' = "user" /\ extrabuf' \o socket' = extrabuf \o socket
           /\ totalBytes' - Len(extrabuf') = totalBytes - Len(extrabuf)
           /\ closed' = closed
BY DEF TypeOK, reading, arriving

\* Whatever is left of socket and array once readv() has filled the free room is
\* what had arrived but for the bytes put there.
LEMMA ReadvSplits ==
    ASSUME TypeOK, Readv
    PROVE  \E n \in Nat :
              /\ n <= Len(socket) /\ n <= WritableBytes
              /\ PutBehind(SubSeq(socket, 1, n))
              /\ extrabuf' \in Seq(Bytes) /\ socket' \in Seq(Bytes)
              /\ extrabuf' \o socket' = SubSeq(socket, n + 1, Len(socket))
              /\ totalBytes' = totalBytes + n + Len(extrabuf')
              /\ extrabuf' # <<>> <=> pc' = "append"
              /\ pc' \in {"readv", "append"}
<1> DEFINE n     == Lesser(Capacity, Len(socket))
           inBuf == Lesser(WritableBytes, n)
<1>1. socket \in Seq(Bytes) /\ Len(socket) \in Nat /\ totalBytes \in Nat
  BY DEF TypeOK
<1>2. WritableBytes \in Nat /\ Capacity \in Nat /\ WritableBytes <= Capacity
  BY IOAssumption DEF TypeOK, BufferTypeOK, WritableBytes, Capacity
<1>3. /\ n \in Nat /\ n <= Len(socket)
      /\ inBuf \in Nat /\ inBuf <= n /\ inBuf <= WritableBytes
  BY <1>1, <1>2 DEF Lesser
<1>4. /\ PutBehind(SubSeq(socket, 1, inBuf))
      /\ extrabuf' = SubSeq(socket, inBuf + 1, n)
      /\ socket' = SubSeq(socket, n + 1, Len(socket))
      /\ totalBytes' = totalBytes + n
      /\ pc' = IF inBuf < n THEN "append" ELSE "readv"
  BY DEF Readv
<1> HIDE DEF n, inBuf
<1>5. extrabuf' \in Seq(Bytes) /\ Len(extrabuf') = n - inBuf
  <2>1. Len(extrabuf') = IF inBuf <= n THEN n - inBuf ELSE 0
    BY <1>1, <1>3, <1>4, Stretch
  <2> QED BY <1>1, <1>3, <1>4, <2>1, Stretch
<1>6. socket' \in Seq(Bytes)
  BY <1>1, <1>3, <1>4, Stretch
<1>7. extrabuf' \o socket' = SubSeq(socket, inBuf + 1, Len(socket))
  <2>1. /\ inBuf + 1 \in 1..Len(socket) + 1
        /\ n \in (inBuf + 1) - 1..Len(socket)
        /\ Len(socket) \in n..Len(socket)
    BY <1>1, <1>3
  <2> QED BY <1>1, <1>4, <2>1, ConcatAdjacentSubSeq
<1>8. extrabuf' # <<>> <=> inBuf < n
  <2>1. extrabuf' # <<>> <=> Len(extrabuf') # 0
    BY <1>5, EmptySeq
  <2> QED BY <1>3, <1>5, <2>1
<1>9. totalBytes' = totalBytes + inBuf + Len(extrabuf')
  BY <1>1, <1>3, <1>4, <1>5
<1>10. inBuf <= Len(socket)
  BY <1>1, <1>3
<1> QED BY <1>3, <1>4, <1>5, <1>6, <1>7, <1>8, <1>9, <1>10

\* Every step keeps the types and is one of the queue, or none.
LEMMA StepImplements ==
    TypeOK /\ [Next]_vars => TypeOK' /\ [Queue!Next]_(Queue!vars)
<1> SUFFICES ASSUME TypeOK, [Next]_vars PROVE TypeOK' /\ [Queue!Next]_(Queue!vars)
  OBVIOUS
<1>0. /\ BufferTypeOK /\ socket \in Seq(Bytes) /\ extrabuf \in Seq(Bytes)
      /\ totalBytes \in Nat /\ Len(extrabuf) \in Nat
      /\ Readable \in Seq(Bytes) /\ Len(Readable) = ReadableBytes /\ ReadableBytes \in Nat
      /\ extrabuf \o socket \in Seq(Bytes)
  BY ReadableBytesAre, ConcatProperties DEF TypeOK
<1>a. \A piece \in Pieces : piece \in Seq(Bytes)
  BY IOAssumption
<1>b. ASSUME UNCHANGED bufferVars PROVE BufferTypeOK' /\ Readable' = Readable
  BY <1>b, <1>0 DEF bufferVars, BufferTypeOK, Readable
<1>1. ASSUME NEW piece \in Pieces, Arrive(piece) PROVE TypeOK' /\ Queue!Next
  <2>1. /\ ~closed /\ socket' = socket \o piece
        /\ UNCHANGED bufferVars
        /\ UNCHANGED <<closed, pc, extrabuf, totalBytes, string, number>>
    BY <1>1 DEF Arrive, reading, answer
  <2>2. /\ socket' \in Seq(Bytes)
        /\ extrabuf' \o socket' = (extrabuf \o socket) \o piece
    <3>1. extrabuf \in Seq(Bytes) /\ socket \in Seq(Bytes) /\ piece \in Seq(Bytes)
      BY <1>0, <1>a
    <3>2. socket \o piece \in Seq(Bytes)
      BY ONLY <3>1, Together
    <3>3. (extrabuf \o socket) \o piece = extrabuf \o (socket \o piece)
      BY ONLY <3>1, Associative, Zenon
    <3> QED BY <2>1, <3>2, <3>3, Zenon
  <2>3. TypeOK'
    BY <1>b, <2>1, <2>2 DEF TypeOK
  <2>4. Queue!Arrive(piece)
    BY <1>b, <2>1, <2>2 DEF Queue!Arrive
  <2> QED BY <2>3, <2>4 DEF Queue!Next
<1>2. ASSUME NEW piece \in Pieces, UserAppends(piece) \/ UserPrepends(piece)
      PROVE  TypeOK' /\ Queue!Next
  <2>1. /\ pc = "user" /\ UNCHANGED <<arriving, reading>>
        /\ string' = <<>> /\ number' = 0
        /\ AppendBytes(piece) \/ PrependBytes(piece)
    BY <1>2 DEF UserAppends, UserPrepends, Returns
  <2>2. BufferTypeOK' /\ Readable' \in {Readable \o piece, piece \o Readable}
    BY <1>0, <1>a, <2>1, AppendAppends, PrependPrepends
  <2>3. string' \in Seq(Bytes)
    BY <2>1, EmptySeq
  <2>4. /\ TypeOK' /\ pc' = "user" /\ extrabuf' \o socket' = extrabuf \o socket
        /\ closed' = closed
        /\ totalBytes' - Len(extrabuf') = totalBytes - Len(extrabuf)
    BY <2>1, <2>2, <2>3, UserStep
  <2>5. Queue!Extend(piece)
    BY <2>1, <2>2, <2>4 DEF Queue!Extend, Queue!Returns
  <2> QED BY <2>4, <2>5 DEF Queue!Next
<1>3. ASSUME NEW len \in 0..ReadableBytes, UserRetrieves(len) \/ UserRetrievesAsString(len)
      PROVE  TypeOK' /\ Queue!Next
  <2>1. /\ pc = "user" /\ UNCHANGED <<arriving, reading>> /\ Retrieve(len) /\ number' = 0
        /\ \/ string' = <<>>
           \/ string' = SubSeq(buf, readerIndex + 1, readerIndex + len)
    BY <1>3 DEF UserRetrieves, UserRetrievesAsString, Returns
  <2>2. BufferTypeOK' /\ Readable' = SubSeq(Readable, len + 1, Len(Readable))
    BY <1>0, <2>1, RetrieveRetrieves
  <2>3. string' \in {SubSeq(Readable, 1, len), <<>>}
    BY <1>0, <2>1, Peek
  <2>4. string' \in Seq(Bytes)
    <3>1. \A i \in 1..len : Readable[i] \in Bytes
      BY <1>0
    <3>2. SubSeq(Readable, 1, len) \in Seq(Bytes)
      BY <3>1, SubSeqProperties
    <3> QED BY <2>3, <3>2, EmptySeq
  <2>5. /\ TypeOK' /\ pc' = "user" /\ extrabuf' \o socket' = extrabuf \o socket
        /\ closed' = closed
        /\ totalBytes' - Len(extrabuf') = totalBytes - Len(extrabuf)
    BY <2>1, <2>2, <2>4, UserStep
  <2>6. Queue!Take(len)
    BY <2>1, <2>2, <2>3, <2>5 DEF Queue!Take
  <2> QED BY <1>0, <2>5, <2>6 DEF Queue!Next
<1>4. ASSUME NEW target \in Targets, UserFinds(target) PROVE TypeOK' /\ Queue!Next
  <2>1. /\ pc = "user" /\ UNCHANGED <<arriving, reading>> /\ string' = <<>>
        /\ UNCHANGED bufferVars
        /\ \/ OffsetsOf(target) = {} /\ number' = -1
           \/ /\ number' \in OffsetsOf(target)
              /\ \A j \in OffsetsOf(target) : number' <= j
    BY <1>4 DEF UserFinds, Returns
  <2>2. target \in Seq(Bytes) \ {<<>>} /\ Len(target) \in Nat
    BY IOAssumption
  <2>3. \A i : i \in OffsetsOf(target) <=> Queue!Occurs(target, i)
    BY <1>0, <2>2, OffsetsAre DEF Queue!Occurs
  <2>4. BufferTypeOK' /\ Readable' = Readable
    BY <1>b, <2>1
  <2>5. number' \in Nat \cup {-1}
    BY <2>1 DEF OffsetsOf
  <2>6. string' \in Seq(Bytes)
    BY <2>1, EmptySeq
  <2>7. /\ TypeOK' /\ pc' = "user" /\ extrabuf' \o socket' = extrabuf \o socket
        /\ closed' = closed
        /\ totalBytes' - Len(extrabuf') = totalBytes - Len(extrabuf)
    BY <2>1, <2>4, <2>5, <2>6, UserStep
  <2>8. \/ number' = -1 /\ \A i \in 0..Len(Readable) : ~Queue!Occurs(target, i)
        \/ Queue!Occurs(target, number') /\ \A i \in 0..number' - 1 : ~Queue!Occurs(target, i)
    <3>1. CASE OffsetsOf(target) = {} /\ number' = -1
      BY <2>3, <3>1
    <3>2. CASE number' \in OffsetsOf(target) /\ \A j \in OffsetsOf(target) : number' <= j
      <4>1. number' \in Nat
        BY <3>2 DEF OffsetsOf
      <4>2. ASSUME NEW i \in 0..number' - 1 PROVE i \notin OffsetsOf(target)
        <5>1. PICK first \in Nat : first = number'
          BY <4>1
        <5>2. i \in 0..first - 1
          BY <5>1
        <5>3. ~(first <= i)
          BY <5>2
        <5> QED BY <3>2, <5>1, <5>3
      <4> QED BY <2>3, <3>2, <4>2
    <3> QED BY <2>1, <3>1, <3>2
  <2>9. Queue!Search(target)
    BY <2>1, <2>4, <2>7, <2>8 DEF Queue!Search
  <2> QED BY <2>7, <2>9 DEF Queue!Next
<1>5. CASE ReadFd
  <2>1. /\ pc = "user" /\ pc' = "readv" /\ totalBytes' = 0 /\ string' = <<>> /\ number' = 0
        /\ UNCHANGED bufferVars /\ UNCHANGED <<socket, closed, extrabuf>>
    BY <1>5 DEF ReadFd, Returns, arriving
  <2>2. extrabuf = <<>>
    BY <2>1 DEF TypeOK
  <2>3. TypeOK'
    BY <1>b, <2>1, <2>2, EmptySeq DEF TypeOK
  <2>4. totalBytes' - Len(extrabuf') = 0
    <3>1. /\ extrabuf' \in Seq(Bytes) /\ extrabuf' = <<>> /\ totalBytes' \in Nat
          /\ Len(extrabuf') = 0
      BY <2>1, <2>2, EmptySeq
    <3> QED BY <2>1, <3>1, Nothing, Zenon
  <2>5. Queue!ReadBegins
    BY <1>b, <2>1, <2>4 DEF Queue!ReadBegins, Queue!Returns
  <2> QED BY <2>3, <2>5 DEF Queue!Next
<1>6. CASE Readv
  <2>1. PICK n \in Nat :
           /\ n <= Len(socket) /\ n <= WritableBytes
           /\ PutBehind(SubSeq(socket, 1, n))
           /\ extrabuf' \in Seq(Bytes) /\ socket' \in Seq(Bytes)
           /\ extrabuf' \o socket' = SubSeq(socket, n + 1, Len(socket))
           /\ totalBytes' = totalBytes + n + Len(extrabuf')
           /\ extrabuf' # <<>> <=> pc' = "append"
           /\ pc' \in {"readv", "append"}
    BY <1>6, ReadvSplits
  <2>2. /\ pc = "readv" /\ extrabuf = <<>> /\ UNCHANGED <<closed, string, number>>
        /\ extrabuf \o socket = socket
    BY <1>0, <1>6, WithNothing DEF Readv, TypeOK, answer
  <2>3. SubSeq(socket, 1, n) \in Seq(Bytes) /\ Len(SubSeq(socket, 1, n)) = n
    <3>1. SubSeq(socket, 0 + 1, n) \in Seq(Bytes) /\ Len(SubSeq(socket, 0 + 1, n)) = n - 0
      BY <1>0, <2>1, Between
    <3> QED BY <3>1
  <2>4. BufferTypeOK' /\ Readable' = Readable \o SubSeq(socket, 1, n)
    BY <1>0, <2>1, <2>3, PutBehindAppends
  <2>5. Len(extrabuf') \in Nat /\ Len(extrabuf') <= totalBytes' /\ totalBytes' \in Nat
        /\ totalBytes' - Len(extrabuf') = (totalBytes - Len(extrabuf)) + n
    BY <1>0, <2>1, <2>2
  <2>6. TypeOK'
    BY <2>1, <2>2, <2>4, <2>5 DEF TypeOK
  <2>7. Queue!ReadMoves(n)
    BY <2>1, <2>2, <2>4, <2>5 DEF Queue!ReadMoves
  <2>8. n \in 0..Len(extrabuf \o socket)
    BY <1>0, <2>1, <2>2
  <2> QED BY <2>6, <2>7, <2>8 DEF Queue!Next
<1>7. CASE AppendExtra
  <2>1. /\ pc = "append" /\ pc' = "readv" /\ AppendBytes(extrabuf) /\ extrabuf' = <<>>
        /\ UNCHANGED <<socket, closed, totalBytes, string, number>>
    BY <1>7 DEF AppendExtra, arriving, answer
  <2>2. BufferTypeOK' /\ Readable' = Readable \o extrabuf
    BY <1>0, <2>1, AppendAppends
  <2>3. TypeOK'
    BY <1>0, <2>1, <2>2, EmptySeq DEF TypeOK
  <2> DEFINE n == Len(extrabuf)
  <2>4. /\ SubSeq(extrabuf \o socket, 1, n) = extrabuf
        /\ SubSeq(extrabuf \o socket, n + 1, Len(extrabuf \o socket)) = socket
        /\ extrabuf' \o socket' = socket
    BY <1>0, <2>1, ConcatParts, WithNothing
  <2>5. totalBytes' - Len(extrabuf') = (totalBytes - Len(extrabuf)) + n
    BY <1>0, <2>1
  <2>6. Queue!ReadMoves(n)
    BY <2>1, <2>2, <2>4, <2>5 DEF Queue!ReadMoves
  <2>7. n \in 0..Len(extrabuf \o socket)
    <3>1. Len(extrabuf \o socket) = n + Len(socket) /\ Len(socket) \in Nat
      BY <1>0, ConcatProperties
    <3> QED BY <1>0, <3>1
  <2> QED BY <2>3, <2>6, <2>7 DEF Queue!Next
<1>8. CASE ReadvAgain \/ ReadvEnd \/ ReadvFails
  <2>1. /\ pc = "readv" /\ pc' = "user" /\ string' = <<>>
        /\ \/ (ReadvAgain \/ ReadvEnd) /\ socket = <<>> /\ number' = totalBytes
           \/ ReadvFails /\ number' = -1
        /\ UNCHANGED bufferVars /\ UNCHANGED <<socket, closed, extrabuf, totalBytes>>
    BY <1>8 DEF ReadvAgain, ReadvEnd, ReadvFails, Returns, arriving
  <2>2. extrabuf = <<>> /\ Len(extrabuf) = 0
    BY <2>1 DEF TypeOK
  <2>3. TypeOK'
    BY <1>0, <1>b, <2>1, <2>2, EmptySeq DEF TypeOK
  <2>4. /\ totalBytes - Len(extrabuf) = totalBytes
        /\ socket = <<>> => extrabuf \o socket = <<>>
    BY <1>0, <2>2, WithNothing
  <2>5. CASE ReadvFails /\ number' = -1
    <3>1. Queue!ReadFails
      BY <1>b, <2>1, <2>5 DEF Queue!ReadFails, Queue!Returns
    <3> QED BY <2>3, <3>1 DEF Queue!Next
  <2>6. CASE (ReadvAgain \/ ReadvEnd) /\ socket = <<>> /\ number' = totalBytes
    <3>1. Queue!ReadEnds
      BY <1>b, <2>1, <2>4, <2>6 DEF Queue!ReadEnds, Queue!Returns
    <3> QED BY <2>3, <3>1 DEF Queue!Next
  <2> QED BY <2>1, <2>5, <2>6
<1>9. CASE EndArrives
  <2>1. /\ ~closed /\ closed' = TRUE /\ UNCHANGED bufferVars
        /\ UNCHANGED <<socket, pc, extrabuf, totalBytes, string, number>>
    BY <1>9 DEF EndArrives, reading, answer
  <2>2. TypeOK'
    BY <1>b, <2>1 DEF TypeOK
  <2>3. Queue!EndArrives
    BY <1>b, <2>1 DEF Queue!EndArrives
  <2> QED BY <2>2, <2>3 DEF Queue!Next
<1>10. CASE UNCHANGED vars
  BY <1>b, <1>10 DEF vars, bufferVars, TypeOK, Queue!vars
<1> QED
  BY <1>1, <1>2, <1>3, <1>4, <1>5, <1>6, <1>7, <1>8, <1>9, <1>10
  DEF Next, UserWrites, UserReads

LEMMA StartsEmpty == Init => TypeOK /\ Queue!Init
<1> SUFFICES ASSUME Init PROVE TypeOK /\ Queue!Init
  OBVIOUS
<1>1. buf \in Seq(Bytes) /\ Len(buf) = CheapPrepend + InitialSize
  <2>1. buf \in [1..CheapPrepend + InitialSize -> Bytes] /\ CheapPrepend + InitialSize \in Nat
    BY BufferAssumption DEF Init, BufferInit
  <2>2. buf \in Seq(Bytes)
    BY <2>1, SeqDef
  <2> QED BY <2>1, <2>2
<1>2. BufferTypeOK
  BY <1>1, BufferAssumption DEF Init, BufferInit, BufferTypeOK
<1>3. Readable = <<>>
  <2>1. readerIndex \in Nat /\ writerIndex = readerIndex
    BY BufferAssumption DEF Init, BufferInit
  <2> QED BY <2>1, SubSeqEmpty DEF Readable
<1>4. /\ socket = <<>> /\ extrabuf = <<>> /\ socket \in Seq(Bytes) /\ extrabuf \o socket = <<>>
      /\ totalBytes = 0 /\ string = <<>> /\ number = 0 /\ pc = "user" /\ Len(extrabuf) = 0
      /\ closed = FALSE
  BY EmptySeq, WithNothing DEF Init
<1>5. totalBytes - Len(extrabuf) = 0 /\ Len(extrabuf) <= totalBytes
  <2>1. totalBytes = 0 /\ Len(extrabuf) = 0
    BY <1>4
  <2> QED BY ONLY <2>1, SMT
<1>6. TypeOK
  BY <1>2, <1>4, <1>5, EmptySeq DEF TypeOK
<1> QED BY <1>3, <1>4, <1>5, <1>6 DEF Queue!Init

\* The indices of the Buffer stay in order and inside its memory, whatever its
\* user does and whatever arrives in whatever pieces during readFd().
THEOREM TypeCorrect == Spec => []TypeOK
BY StartsEmpty, StepImplements, PTL DEF Spec

\* A Buffer is a queue of bytes, whatever is moved, enlarged or put into the
\* reserve, and a readFd() that does not fail has emptied the socket and returns
\* how many bytes it has added, whether the peer has closed its side or not.
THEOREM BufferIsByteQueue == Spec => IsByteQueue
BY StartsEmpty, StepImplements, TypeCorrect, PTL DEF Spec, IsByteQueue, Queue!Spec

----------------------------------------------------------------------------
\* RpcStream

\* Everything the peer has sent: received, arrived, or on its way.
Stream == (received \o arrived) \o wire

\* Where frame n ends, if es says where each of them does.
Place(es, n) == IF n = 0 THEN 0 ELSE es[n]

\* The bytes of the frames fs lie in the stream s where es says, and no others do.
LaidOut(fs, es, s) ==
    /\ Len(es) = Len(fs)
    /\ \A n \in 1..Len(fs) : es[n] = Place(es, n - 1) + Size(fs[n])
    /\ \A n \in 1..Len(fs) : es[n] <= Len(s)
    /\ Len(s) = Place(es, Len(fs))
    /\ \A n \in 1..Len(fs) : \A i \in 1..Size(fs[n]) : s[Place(es, n - 1) + i] = <<n, i>>

SentInv == Len(frames) <= MaxFrames /\ LaidOut(frames, ends, Stream)

\* What was cut off are whole frames from the first on, what is readable the rest.
CutInv ==
    /\ Len(delivered) <= Len(frames)
    /\ FramesInOrder
    /\ NothingScrambled

StreamInv ==
    /\ StreamTypeOK
    /\ SentInv
    /\ CutInv
    /\ NoFrameStranded

\* Cutting a sequence and putting it together again.
LEMMA Rejoined ==
    ASSUME NEW s \in Seq(Bytes), NEW n \in Nat, n <= Len(s)
    PROVE  /\ SubSeq(s, 1, n) \in Seq(Bytes) /\ Len(SubSeq(s, 1, n)) = n
           /\ SubSeq(s, n + 1, Len(s)) \in Seq(Bytes)
           /\ SubSeq(s, 1, n) \o SubSeq(s, n + 1, Len(s)) = s
<1> DEFINE front == SubSeq(s, 1, n)
           rest == SubSeq(s, n + 1, Len(s))
<1>0. Len(s) \in Nat
  OBVIOUS
<1>1. /\ front \in Seq(Bytes) /\ Len(front) = n
      /\ \A i \in 1..n : front[i] = s[i]
  <2>1. /\ SubSeq(s, 0 + 1, n) \in Seq(Bytes) /\ Len(SubSeq(s, 0 + 1, n)) = n - 0
        /\ \A i \in 1..(n - 0) : SubSeq(s, 0 + 1, n)[i] = s[0 + i]
    BY Between
  <2> QED BY <2>1
<1>2. /\ rest \in Seq(Bytes) /\ Len(rest) = Len(s) - n
      /\ \A i \in 1..(Len(s) - n) : rest[i] = s[n + i]
  BY <1>0, Between
<1> HIDE DEF front, rest
<1>3. /\ front \o rest \in Seq(Bytes) /\ Len(front \o rest) = Len(s)
      /\ \A i \in 1..Len(s) :
            (front \o rest)[i] = IF i <= n THEN front[i] ELSE rest[i - n]
  BY <1>0, <1>1, <1>2, ConcatProperties
<1>4. ASSUME NEW i \in 1..Len(s) PROVE (front \o rest)[i] = s[i]
  <2>1. CASE i <= n
    BY <2>1, <1>1, <1>3
  <2>2. CASE ~(i <= n)
    <3>1. i - n \in 1..(Len(s) - n) /\ n + (i - n) = i
      BY <1>0, <2>2
    <3> QED BY <2>2, <3>1, <1>2, <1>3
  <2> QED BY <2>1, <2>2
<1>5. front \o rest = s
  BY <1>3, <1>4, SeqEqual
<1> QED BY <1>1, <1>2, <1>5 DEF front, rest

\* What is behind place k of a sequence when more is appended to it.
LEMMA RestAppended ==
    ASSUME NEW s \in Seq(Bytes), NEW t \in Seq(Bytes), NEW k \in Nat, k <= Len(s)
    PROVE  SubSeq(s \o t, k + 1, Len(s \o t)) = SubSeq(s, k + 1, Len(s)) \o t
<1> DEFINE all == s \o t
           rest == SubSeq(s, k + 1, Len(s))
           long == SubSeq(all, k + 1, Len(all))
<1>1. /\ all \in Seq(Bytes) /\ Len(s) \in Nat /\ Len(t) \in Nat
      /\ Len(all) = Len(s) + Len(t)
      /\ \A i \in 1..Len(s) + Len(t) :
            all[i] = IF i <= Len(s) THEN s[i] ELSE t[i - Len(s)]
  BY ConcatProperties
<1> HIDE DEF all
<1>2. /\ rest \in Seq(Bytes) /\ Len(rest) = Len(s) - k
      /\ \A i \in 1..(Len(s) - k) : rest[i] = s[k + i]
  BY <1>1, Between
<1>3. /\ long \in Seq(Bytes) /\ Len(long) = Len(all) - k
      /\ \A i \in 1..(Len(all) - k) : long[i] = all[k + i]
  BY <1>1, Between
<1> HIDE DEF rest, long
<1>4. /\ rest \o t \in Seq(Bytes) /\ Len(rest \o t) = (Len(s) - k) + Len(t)
      /\ \A i \in 1..(Len(s) - k) + Len(t) :
            (rest \o t)[i] = IF i <= Len(s) - k THEN rest[i] ELSE t[i - (Len(s) - k)]
  <2>1. /\ rest \o t \in Seq(Bytes) /\ Len(rest \o t) = Len(rest) + Len(t)
        /\ \A i \in 1..Len(rest) + Len(t) :
              (rest \o t)[i] = IF i <= Len(rest) THEN rest[i] ELSE t[i - Len(rest)]
    BY <1>2, ConcatProperties
  <2> QED BY <1>2, <2>1
<1>5. ASSUME NEW i \in 1..Len(long) PROVE long[i] = (rest \o t)[i]
  <2>1. i \in 1..(Len(s) - k) + Len(t) /\ k + i \in 1..Len(s) + Len(t)
    BY <1>1, <1>3
  <2>2. long[i] = all[k + i]
    BY <1>3
  <2>3. CASE i <= Len(s) - k
    <3>1. k + i <= Len(s) /\ i \in 1..(Len(s) - k)
      BY <2>3, <1>1
    <3>2. all[k + i] = s[k + i] /\ rest[i] = s[k + i]
      BY <1>1, <1>2, <2>1, <3>1
    <3> QED BY <1>4, <2>1, <2>2, <2>3, <3>2
  <2>4. CASE ~(i <= Len(s) - k)
    <3>1. ~(k + i <= Len(s)) /\ (k + i) - Len(s) = i - (Len(s) - k)
      BY <2>4, <1>1
    <3>2. all[k + i] = t[i - (Len(s) - k)]
      BY <1>1, <2>1, <3>1
    <3> QED BY <1>4, <2>1, <2>2, <2>4, <3>2
  <2> QED BY <2>3, <2>4
<1>6. Len(long) = Len(rest \o t)
  BY <1>1, <1>3, <1>4
<1>7. long = rest \o t
  BY <1>3, <1>4, <1>5, <1>6, SeqEqual
<1> QED BY <1>7 DEF long, rest, all

\* Cutting off the first k and then m more.
LEMMA RestOfRest ==
    ASSUME NEW s \in Seq(Bytes), NEW k \in Nat, NEW m \in Nat, k + m <= Len(s)
    PROVE  LET rest == SubSeq(s, k + 1, Len(s))
           IN  SubSeq(rest, m + 1, Len(rest)) = SubSeq(s, (k + m) + 1, Len(s))
<1> DEFINE rest == SubSeq(s, k + 1, Len(s))
           left == SubSeq(rest, m + 1, Len(rest))
           right == SubSeq(s, (k + m) + 1, Len(s))
<1>0. Len(s) \in Nat /\ k + m \in Nat /\ k <= Len(s)
  OBVIOUS
<1>1. /\ rest \in Seq(Bytes) /\ Len(rest) = Len(s) - k
      /\ \A i \in 1..(Len(s) - k) : rest[i] = s[k + i]
  BY <1>0, Between
<1> HIDE DEF rest
<1>2. /\ left \in Seq(Bytes) /\ Len(left) = Len(rest) - m
      /\ \A i \in 1..(Len(rest) - m) : left[i] = rest[m + i]
  <2>1. m <= Len(rest) /\ Len(rest) \in Nat
    BY <1>0, <1>1
  <2> QED BY ONLY <1>1, <2>1, m \in Nat, Between DEF left
<1>3. /\ right \in Seq(Bytes) /\ Len(right) = Len(s) - (k + m)
      /\ \A i \in 1..(Len(s) - (k + m)) : right[i] = s[(k + m) + i]
  BY <1>0, Between
<1> HIDE DEF left, right
<1>4. ASSUME NEW i \in 1..Len(left) PROVE left[i] = right[i]
  <2>1. /\ i \in 1..(Len(s) - (k + m)) /\ m + i \in 1..(Len(s) - k)
        /\ i \in 1..(Len(rest) - m)
        /\ k + (m + i) = (k + m) + i
    BY <1>0, <1>1, <1>2
  <2>2. left[i] = rest[m + i] /\ rest[m + i] = s[k + (m + i)]
    BY <1>1, <1>2, <2>1
  <2> QED BY <1>3, <2>1, <2>2
<1>5. Len(left) = Len(right)
  BY <1>0, <1>1, <1>2, <1>3
<1>6. left = right
  BY <1>2, <1>3, <1>4, <1>5, SeqEqual
<1> QED BY <1>6 DEF left, right, rest

\* A frame is not empty.
LEMMA SizeIs ==
    ASSUME NEW frame \in Frames
    PROVE  /\ Size(frame) \in Nat \ {0}
           /\ frame.payload \in Payloads
           /\ frame.kind \in {"good", "badMagic", "badMeta"}
<1>1. frame.payload \in Payloads /\ frame.kind \in {"good", "badMagic", "badMeta"}
  BY DEF Frames
<1>2. frame.payload \in Nat /\ HeaderSize \in Nat \ {0}
  BY <1>1, SizesAssumption
<1> QED BY <1>1, <1>2 DEF Size

\* The readable bytes begin with the first frame not delivered, if there are any.
LEMMA HeadIs ==
    ASSUME StreamInv, ReadableBytes > 0
    PROVE  /\ Len(delivered) + 1 \in 1..Len(frames)
           /\ Readable[1] = <<Len(delivered) + 1, 1>>
           /\ HeadFrame = frames[Len(delivered) + 1]
<1> DEFINE d == Len(delivered)
           k == EndOf(d)
           seen == received \o arrived
<1>1. /\ received \in Seq(Bytes) /\ arrived \in Seq(Bytes) /\ wire \in Seq(Bytes)
      /\ d \in Nat /\ Len(received) \in Nat /\ Len(frames) \in Nat /\ d <= Len(frames)
  BY DEF StreamInv, StreamTypeOK, CutInv
<1>2. /\ Len(Readable) = ReadableBytes
      /\ Readable = SubSeq(received, k + 1, Len(received)) /\ k <= Len(received)
  BY ReadableBytesAre DEF StreamInv, StreamTypeOK, CutInv, FramesInOrder, NothingScrambled
<1>3. k \in Nat
  BY <1>1 DEF EndOf, StreamInv, StreamTypeOK, SentInv, LaidOut
<1> HIDE DEF d, k
<1>4. /\ ReadableBytes = Len(received) - k /\ k < Len(received)
      /\ Readable[1] = received[k + 1]
  <2>1. /\ Len(Readable) = Len(received) - k
        /\ \A i \in 1..(Len(received) - k) : Readable[i] = received[k + i]
    BY <1>1, <1>2, <1>3, Between
  <2>2. Len(received) - k > 0
    BY <1>2, <2>1
  <2> QED BY <1>1, <1>2, <1>3, <2>1, <2>2
<1>5. /\ seen \in Seq(Bytes) /\ Len(seen) = Len(received) + Len(arrived)
      /\ seen[k + 1] = received[k + 1]
  BY <1>1, <1>3, <1>4, ConcatProperties
<1> HIDE DEF seen
<1>6. /\ Len(Stream) = Len(seen) + Len(wire)
      /\ Stream[k + 1] = seen[k + 1]
  <2>1. /\ Len(seen \o wire) = Len(seen) + Len(wire)
        /\ \A i \in 1..Len(seen) + Len(wire) :
              (seen \o wire)[i] = IF i <= Len(seen) THEN seen[i] ELSE wire[i - Len(seen)]
    <3>1. seen \in Seq(Bytes) /\ wire \in Seq(Bytes)
      BY <1>1, <1>5
    <3> QED BY ONLY <3>1, ConcatProperties
  <2>2. /\ Len(arrived) \in Nat /\ Len(wire) \in Nat
        /\ k + 1 \in 1..Len(seen) + Len(wire) /\ k + 1 <= Len(seen)
    BY <1>1, <1>3, <1>4, <1>5
  <2> QED BY <2>1, <2>2 DEF Stream, seen
<1>7. d # Len(frames)
  <2>1. Len(Stream) = EndOf(Len(frames))
    BY DEF StreamInv, SentInv, LaidOut, Place, EndOf
  <2>2. Len(Stream) > k
    BY <1>1, <1>3, <1>4, <1>5, <1>6
  <2> QED BY <1>1, <1>3, <2>1, <2>2 DEF k
<1>8. d + 1 \in 1..Len(frames)
  BY <1>1, <1>7
<1>9. Stream[k + 1] = <<d + 1, 1>>
  <2>1. 1 \in 1..Size(frames[d + 1])
    <3>1. frames[d + 1] \in Frames
      BY <1>8 DEF StreamInv, StreamTypeOK
    <3> QED BY <3>1, SizeIs
  <2>2. \A i \in 1..Size(frames[d + 1]) : Stream[EndOf((d + 1) - 1) + i] = <<d + 1, i>>
    BY <1>8 DEF StreamInv, SentInv, LaidOut, Place, EndOf
  <2>3. (d + 1) - 1 = d
    BY <1>1
  <2> QED BY <2>1, <2>2, <2>3 DEF k
<1>10. Readable[1] = <<d + 1, 1>>
  BY <1>4, <1>5, <1>6, <1>9
<1> QED BY <1>8, <1>10 DEF HeadFrame, d

\* Neither append() nor retrieve() moves the readable bytes into the reserve.
LEMMA ReserveKept ==
    ASSUME BufferTypeOK, CheapPrepend <= readerIndex,
           \/ \E bytes : AppendBytes(bytes)
           \/ \E len \in Nat : Retrieve(len)
    PROVE  CheapPrepend <= readerIndex'
<1>1. CheapPrepend \in Nat /\ readerIndex \in Nat
  BY BufferAssumption DEF BufferTypeOK
<1>2. \/ readerIndex' = readerIndex \/ readerIndex' = CheapPrepend
      \/ \E len \in Nat : readerIndex' = readerIndex + len
  BY DEF AppendBytes, PutBehind, Retrieve
<1> QED BY <1>1, <1>2

\* handleRead appends a piece of what has arrived.
LEMMA RecvAppends ==
    ASSUME StreamInv, Recv
    PROVE  /\ BufferTypeOK' /\ arrived' \in Seq(Bytes) /\ received' \in Seq(Bytes)
           /\ \E piece \in Seq(Bytes) :
                 /\ Readable' = Readable \o piece
                 /\ received' = received \o piece
                 /\ arrived = piece \o arrived'
           /\ Len(buf') > Len(buf) =>
                 ReadableBytes + (Len(received') - Len(received)) > Len(buf) - CheapPrepend
<1> DEFINE n == Least(ChunkSize, Len(arrived))
           piece == SubSeq(arrived, 1, n)
<1>1. /\ arrived \in Seq(Bytes) /\ arrived # <<>> /\ received \in Seq(Bytes)
      /\ BufferTypeOK /\ Len(arrived) \in Nat
  BY DEF Recv, StreamInv, StreamTypeOK
<1>2. n \in Nat /\ n <= Len(arrived)
  BY <1>1, SizesAssumption DEF Least
<1>3. /\ AppendBytes(piece)
      /\ received' = received \o piece
      /\ arrived' = SubSeq(arrived, n + 1, Len(arrived))
  BY DEF Recv
<1> HIDE DEF n
<1>4. piece \in Seq(Bytes) /\ arrived' \in Seq(Bytes) /\ piece \o arrived' = arrived
  BY <1>1, <1>2, <1>3, Rejoined
<1> HIDE DEF piece
<1>5. /\ BufferTypeOK' /\ Readable' = Readable \o piece
      /\ Len(buf') > Len(buf) => ReadableBytes + Len(piece) > Len(buf) - CheapPrepend
  BY <1>1, <1>3, <1>4, AppendAppends
<1>6. received' \in Seq(Bytes) /\ Len(received') - Len(received) = Len(piece)
  BY <1>1, <1>3, <1>4, ConcatProperties
<1> QED BY <1>3, <1>4, <1>5, <1>6

\* parseMessage takes a whole frame, the first not delivered.
LEMMA ParseRetrieves ==
    ASSUME StreamInv, ParseFrame
    PROVE  LET d == Len(delivered)
           IN  /\ BufferTypeOK' /\ buf' = buf
               /\ d + 1 \in 1..Len(frames)
               /\ delivered' = Append(delivered, d + 1)
               /\ frames[d + 1].kind = "good" /\ frames[d + 1].payload <= MaxPayload
               /\ EndOf(d + 1) = EndOf(d) + Size(frames[d + 1])
               /\ EndOf(d + 1) <= Len(received)
               /\ Readable' = SubSeq(received, EndOf(d + 1) + 1, Len(received))
<1> DEFINE d == Len(delivered)
           k == EndOf(d)
           m == Size(frames[d + 1])
<1>1. /\ ReadableBytes > 0 /\ Decode = "kSuccess"
      /\ delivered' = Append(delivered, Readable[1][1])
      /\ Retrieve(Size(HeadFrame)) /\ buf' = buf
  BY DEF ParseFrame, Retrieve
<1>2. /\ d + 1 \in 1..Len(frames)
      /\ Readable[1] = <<d + 1, 1>> /\ HeadFrame = frames[d + 1]
  BY <1>1, HeadIs
<1>3. /\ d \in Nat /\ received \in Seq(Bytes) /\ Len(received) \in Nat /\ BufferTypeOK
      /\ frames \in Seq(Frames) /\ ends \in Seq(Nat)
  BY DEF StreamInv, StreamTypeOK
<1>4. frames[d + 1] \in Frames /\ m \in Nat \ {0}
  <2>1. frames[d + 1] \in Frames
    BY <1>2, <1>3
  <2> QED BY <2>1, SizeIs
<1>5. /\ EndOf(d + 1) = k + m /\ k \in Nat
  <2>1. ends[d + 1] = EndOf((d + 1) - 1) + Size(frames[d + 1]) /\ Len(ends) = Len(frames)
    BY <1>2 DEF StreamInv, SentInv, LaidOut, Place, EndOf
  <2>2. (d + 1) - 1 = d /\ d + 1 # 0
    BY <1>3
  <2>3. k \in Nat
    BY <1>2, <1>3, <2>1 DEF EndOf
  <2> QED BY <2>1, <2>2, <2>3 DEF EndOf
<1>6. /\ ~(ReadableBytes < m) /\ frames[d + 1].kind = "good"
      /\ ~(frames[d + 1].payload > MaxPayload)
  <2>1. /\ ~(ReadableBytes < Size(HeadFrame))
        /\ ~(HeadFrame.payload > MaxPayload)
        /\ HeadFrame.kind # "badMagic" /\ HeadFrame.kind # "badMeta"
    BY <1>1 DEF Decode
  <2>2. frames[d + 1].kind \in {"good", "badMagic", "badMeta"}
    BY <1>4, SizeIs
  <2> QED BY <1>2, <2>1, <2>2
<1>7. frames[d + 1].payload <= MaxPayload
  <2>1. frames[d + 1].payload \in Payloads
    BY <1>4, SizeIs
  <2>2. frames[d + 1].payload \in Nat /\ MaxPayload \in Nat
    BY <2>1, SizesAssumption
  <2> QED BY <1>6, <2>2
<1> HIDE DEF d, k, m
<1>8. /\ Readable \in Seq(Bytes) /\ Len(Readable) = ReadableBytes /\ ReadableBytes \in Nat
      /\ Readable = SubSeq(received, k + 1, Len(received)) /\ k <= Len(received)
  BY ReadableBytesAre
     DEF StreamInv, StreamTypeOK, CutInv, FramesInOrder, NothingScrambled, d, k
<1>9. Len(Readable) = Len(received) - k
  BY <1>3, <1>5, <1>8, Between
<1>10. m <= ReadableBytes /\ k + m <= Len(received)
  BY <1>3, <1>4, <1>5, <1>6, <1>8, <1>9
<1>11. Retrieve(m)
  BY <1>1, <1>2 DEF m
<1>12. BufferTypeOK' /\ Readable' = SubSeq(Readable, m + 1, Len(Readable))
  BY <1>3, <1>4, <1>10, <1>11, RetrieveRetrieves
<1>13. SubSeq(Readable, m + 1, Len(Readable)) = SubSeq(received, (k + m) + 1, Len(received))
  <2>1. /\ received \in Seq(Bytes) /\ k \in Nat /\ m \in Nat /\ k + m <= Len(received)
        /\ Readable = SubSeq(received, k + 1, Len(received))
    BY <1>3, <1>4, <1>5, <1>8, <1>10
  <2>2. LET rest == SubSeq(received, k + 1, Len(received)) IN
        SubSeq(rest, m + 1, Len(rest)) = SubSeq(received, (k + m) + 1, Len(received))
    BY ONLY <2>1, RestOfRest
  <2> QED BY ONLY <2>1, <2>2
<1>14. /\ EndOf(d + 1) = EndOf(d) + Size(frames[d + 1])
       /\ EndOf(d + 1) <= Len(received)
  BY <1>5, <1>10 DEF k, m
<1>15. Readable' = SubSeq(received, EndOf(d + 1) + 1, Len(received))
  BY <1>5, <1>12, <1>13
<1>16. delivered' = Append(delivered, d + 1)
  <2>1. Readable[1][1] = d + 1
    BY <1>2
  <2> QED BY <1>1, <2>1
<1>17. buf' = buf /\ BufferTypeOK' /\ d + 1 \in 1..Len(frames)
       /\ frames[d + 1].kind = "good" /\ frames[d + 1].payload <= MaxPayload
  BY <1>1, <1>2, <1>6, <1>7, <1>12
<1> QED BY ONLY <1>14, <1>15, <1>16, <1>17 DEF d

\* What is transmitted arrives behind what has arrived.
LEMMA Transmitting ==
    ASSUME StreamTypeOK, Transmit
    PROVE  /\ arrived' \in Seq(Bytes) /\ wire' \in Seq(Bytes)
           /\ (received \o arrived') \o wire' = (received \o arrived) \o wire
<1>1. PICK n \in 1..Len(wire) : /\ arrived' = arrived \o SubSeq(wire, 1, n)
                                /\ wire' = SubSeq(wire, n + 1, Len(wire))
  BY DEF Transmit
<1>2. wire \in Seq(Bytes) /\ arrived \in Seq(Bytes) /\ received \in Seq(Bytes)
  BY DEF StreamTypeOK
<1>3. PICK piece \in Seq(Bytes) : /\ arrived' = arrived \o piece /\ piece \o wire' = wire
                                  /\ wire' \in Seq(Bytes)
  <2>1. n \in Nat /\ n <= Len(wire)
    BY <1>2
  <2> QED BY <1>1, <1>2, <2>1, Rejoined
<1>4. arrived' \in Seq(Bytes)
  BY <1>2, <1>3, ConcatProperties
<1>5. received \o arrived' = (received \o arrived) \o piece
  <2>1. (received \o arrived) \o piece = received \o (arrived \o piece)
    <3>1. received \in Seq(Bytes) /\ arrived \in Seq(Bytes) /\ piece \in Seq(Bytes)
      BY <1>2
    <3> QED BY ONLY <3>1, Associative, Zenon
  <2> QED BY <1>3, <2>1
<1>6. received \o arrived \in Seq(Bytes)
  BY ONLY <1>2, Together
<1>7. ((received \o arrived) \o piece) \o wire' = (received \o arrived) \o (piece \o wire')
  <2> DEFINE seen == received \o arrived
  <2>1. seen \in Seq(Bytes) /\ piece \in Seq(Bytes) /\ wire' \in Seq(Bytes)
    BY <1>3, <1>6
  <2> HIDE DEF seen
  <2>2. (seen \o piece) \o wire' = seen \o (piece \o wire')
    BY ONLY <2>1, Associative, Zenon
  <2> QED BY <2>2 DEF seen
<1> QED BY <1>3, <1>4, <1>5, <1>7

----------------------------------------------------------------------------
\* What a frame that is sent adds: its bytes at the end of the stream, and where
\* it ends.  Nothing that was there changes its place.
LEMMA Sending ==
    ASSUME StreamInv, NEW frame \in Frames, PeerSends(frame)
    PROVE  LET e   == EndOf(Len(frames))
               new == [i \in 1..Size(frame) |-> <<Len(frames) + 1, i>>]
           IN  /\ e \in Nat /\ Size(frame) \in Nat \ {0}
               /\ frames' = Append(frames, frame) /\ ends' = Append(ends, e + Size(frame))
               /\ frames' \in Seq(Frames) /\ ends' \in Seq(Nat)
               /\ Len(frames') = Len(frames) + 1 /\ Len(ends') = Len(frames) + 1
               /\ frames'[Len(frames) + 1] = frame
               /\ ends'[Len(frames) + 1] = e + Size(frame)
               /\ \A n \in 1..Len(frames) : frames'[n] = frames[n] /\ ends'[n] = ends[n]
               /\ wire' = wire \o new /\ wire' \in Seq(Bytes)
               /\ new \in Seq(Bytes) /\ Len(new) = Size(frame)
<1> DEFINE e == EndOf(Len(frames))
           m == Size(frame)
           new == [i \in 1..m |-> <<Len(frames) + 1, i>>]
<1>1. /\ Len(frames) < MaxFrames
      /\ frames' = Append(frames, frame) /\ ends' = Append(ends, e + m)
      /\ wire' = wire \o new
  BY DEF PeerSends
<1>2. /\ frames \in Seq(Frames) /\ ends \in Seq(Nat) /\ wire \in Seq(Bytes)
      /\ Len(frames) \in Nat /\ Len(ends) = Len(frames)
  BY DEF StreamInv, StreamTypeOK, SentInv, LaidOut
<1>3. m \in Nat \ {0} /\ m = HeaderSize + frame.payload /\ frame.payload \in Payloads
  BY SizeIs DEF Size
<1>4. e \in Nat
  BY <1>2 DEF EndOf
<1>5. new \in Seq(Bytes) /\ Len(new) = m
  <2>1. Len(frames) + 1 \in 1..MaxFrames
    BY <1>1, <1>2, SizesAssumption
  <2>2. \A i \in 1..m : <<Len(frames) + 1, i>> \in Bytes
    BY <1>3, <2>1, BytesAssumption
  <2>3. new \in [1..m -> Bytes]
    BY <2>2
  <2> HIDE DEF new
  <2>4. new \in Seq(Bytes)
    BY <1>3, <2>3, SeqDef
  <2> QED BY <1>3, <2>3, <2>4
<1> HIDE DEF e, m, new
<1>6. wire' \in Seq(Bytes)
  BY <1>1, <1>2, <1>5, ConcatProperties
<1>7. /\ frames' \in Seq(Frames) /\ Len(frames') = Len(frames) + 1
      /\ frames'[Len(frames) + 1] = frame
      /\ \A n \in 1..Len(frames) : frames'[n] = frames[n]
  BY <1>1, <1>2, AppendProperties
<1>8. /\ ends' \in Seq(Nat) /\ Len(ends') = Len(frames) + 1
      /\ ends'[Len(frames) + 1] = e + m
      /\ \A n \in 1..Len(frames) : ends'[n] = ends[n]
  <2>1. e + m \in Nat
    BY <1>3, <1>4
  <2> QED BY <1>1, <1>2, <2>1, AppendProperties
<1> QED BY <1>1, <1>3, <1>4, <1>5, <1>6, <1>7, <1>8 DEF e, m, new

\* Every step of the peer, the network, handleRead and parseMessage keeps the
\* types.
LEMMA StreamTypeStep == StreamInv /\ [StreamNext]_streamVars => StreamTypeOK'
<1> SUFFICES ASSUME StreamInv, [StreamNext]_streamVars PROVE StreamTypeOK'
  OBVIOUS
<1>0. StreamTypeOK
  BY DEF StreamInv
<1>b. ASSUME UNCHANGED bufferVars PROVE BufferTypeOK' /\ CheapPrepend <= readerIndex'
  BY <1>0, <1>b DEF bufferVars, BufferTypeOK, StreamTypeOK
<1>1. ASSUME NEW frame \in Frames, PeerSends(frame) PROVE StreamTypeOK'
  <2>1. frames' \in Seq(Frames) /\ ends' \in Seq(Nat) /\ wire' \in Seq(Bytes)
    BY <1>1, Sending
  <2>2. /\ UNCHANGED bufferVars
        /\ UNCHANGED <<arrived, ready, peer, phase, state, armed, cause, received, delivered>>
    BY <1>1 DEF PeerSends, bufferVars, connVars
  <2> QED BY <1>0, <1>b, <2>1, <2>2 DEF StreamTypeOK
<1>2. CASE PeerCloses \/ PeerResets
  <2>1. /\ UNCHANGED bufferVars
        /\ UNCHANGED <<frames, ends, wire, arrived, phase, state, armed, cause, received,
                       delivered>>
        /\ peer' \in {"closed", "reset"} /\ ready' \in BOOLEAN
    BY <1>0, <1>2 DEF PeerCloses, PeerResets, bufferVars, connVars, StreamTypeOK
  <2> QED BY <1>0, <1>b, <2>1 DEF StreamTypeOK
<1>3. CASE Transmit
  <2>1. /\ UNCHANGED bufferVars
        /\ UNCHANGED <<frames, ends, peer, phase, state, armed, cause, received, delivered>>
        /\ ready' = TRUE
    BY <1>3 DEF Transmit, bufferVars, connVars
  <2>2. arrived' \in Seq(Bytes) /\ wire' \in Seq(Bytes)
    BY <1>0, <1>3, Transmitting
  <2> QED BY <1>0, <1>b, <2>1, <2>2 DEF StreamTypeOK
\* Bytes and frames stay as they are, and the connection as well.
<1>4. CASE ReadEvent \/ RecvAgain \/ ParseEnds
  <2>1. /\ UNCHANGED bufferVars
        /\ UNCHANGED <<frames, ends, wire, peer, arrived, state, armed, cause, received,
                       delivered>>
        /\ ready' \in BOOLEAN
        /\ \/ phase' \in {"poll", "parseMessage"}
           \/ phase' = "handleRead" /\ state = "kConnected"
    BY <1>0, <1>4
       DEF ReadEvent, RecvAgain, ParseEnds, bufferVars, peerVars, connVars, StreamTypeOK
  <2> QED BY <1>0, <1>b, <2>1 DEF StreamTypeOK
\* The connection ends.
<1>e. CASE RecvEnd \/ RecvFails \/ ParseFails \/ Timeout \/ Disconnect
  <2>1. /\ UNCHANGED bufferVars
        /\ UNCHANGED <<frames, ends, wire, peer, arrived, ready, armed, received, delivered>>
        /\ phase' \in {"poll", "parseMessage"}
        /\ state' = "kDisconnecting" /\ cause' \in Causes
    BY <1>0, <1>e
       DEF RecvEnd, RecvFails, RecvCloses, ParseFails, Timeout, Disconnect, Ends, Causes,
           bufferVars, peerVars, StreamTypeOK
  <2>2. cause' # "none" /\ cause' \in Causes \cup {"none"}
    BY <2>1 DEF Causes
  <2> QED BY <1>0, <1>b, <2>1, <2>2 DEF StreamTypeOK
<1>5. CASE Recv
  <2>1. BufferTypeOK' /\ arrived' \in Seq(Bytes) /\ received' \in Seq(Bytes)
    BY <1>5, RecvAppends
  <2>2. /\ UNCHANGED <<frames, ends, wire, peer, ready, phase, state, cause, delivered>>
        /\ armed' = TRUE
    BY <1>5 DEF Recv, peerVars
  <2>3. CheapPrepend <= readerIndex'
    <3>1. \E bytes : AppendBytes(bytes)
      BY <1>5 DEF Recv
    <3> QED BY <1>0, <3>1, ReserveKept DEF StreamTypeOK
  <2> QED BY <1>0, <2>1, <2>2, <2>3 DEF StreamTypeOK
<1>6. CASE ParseFrame
  <2>1. /\ BufferTypeOK' /\ Len(delivered) + 1 \in 1..Len(frames)
        /\ delivered' = Append(delivered, Len(delivered) + 1)
    BY <1>6, ParseRetrieves
  <2>2. delivered' \in Seq(1..MaxFrames)
    <3>1. Len(frames) \in Nat /\ Len(frames) <= MaxFrames /\ MaxFrames \in Nat
      BY <1>0, SizesAssumption DEF StreamInv, SentInv, StreamTypeOK
    <3>2. Len(delivered) + 1 \in 1..MaxFrames
      BY <2>1, <3>1
    <3> QED BY <1>0, <2>1, <3>2, AppendProperties DEF StreamTypeOK
  <2>3. UNCHANGED <<frames, ends, wire, peer, arrived, ready, phase, state, armed, cause,
                    received>>
    BY <1>6 DEF ParseFrame, peerVars, connVars
  <2>4. CheapPrepend <= readerIndex'
    <3>1. \E len \in Nat : Retrieve(len)
      <4>1. HeadFrame \in Frames
        <5>1. ReadableBytes > 0
          BY <1>6 DEF ParseFrame
        <5> QED BY <1>0, <5>1, HeadIs DEF StreamTypeOK
      <4> QED BY <1>6, <4>1, SizeIs DEF ParseFrame
    <3> QED BY <1>0, <3>1, ReserveKept DEF StreamTypeOK
  <2> QED BY <1>0, <2>1, <2>2, <2>3, <2>4 DEF StreamTypeOK
<1>7. CASE UNCHANGED streamVars
  BY <1>0, <1>7 DEF streamVars, bufferVars, peerVars, connVars, StreamTypeOK, BufferTypeOK
<1> QED
  BY <1>1, <1>2, <1>3, <1>4, <1>e, <1>5, <1>6, <1>7 DEF StreamNext, HandleRead, ParseMessage

\* A frame put at the end of a stream is laid out there like the ones before.
LEMMA LaidFurther ==
    ASSUME NEW fs \in Seq(Frames), NEW es \in Seq(Nat), NEW s \in Seq(Bytes),
           LaidOut(fs, es, s), NEW frame \in Frames, NEW e, e = Place(es, Len(fs)),
           NEW new \in Seq(Bytes),
           new = [i \in 1..Size(frame) |-> <<Len(fs) + 1, i>>]
    PROVE  LaidOut(Append(fs, frame), Append(es, e + Size(frame)), s \o new)
<1> DEFINE m == Size(frame)
           fs1 == Append(fs, frame)
           es1 == Append(es, e + m)
           s1 == s \o new
           L == Len(fs)
<1>1. L \in Nat /\ Len(es) = L /\ Len(s) = e /\ e \in Nat
  BY DEF LaidOut
<1>2. m \in Nat \ {0}
  BY SizeIs
<1>3. Len(new) = m /\ \A i \in 1..m : new[i] = <<L + 1, i>>
  BY <1>2
<1> HIDE DEF m
<1>4. /\ Len(fs1) = L + 1 /\ fs1[L + 1] = frame
      /\ \A n \in 1..L : fs1[n] = fs[n]
  BY <1>1, AppendProperties
<1>5. /\ Len(es1) = L + 1 /\ es1[L + 1] = e + m
      /\ \A n \in 1..L : es1[n] = es[n]
  BY <1>1, <1>2, AppendProperties
<1>6. /\ Len(s1) = e + m
      /\ \A i \in 1..e : s1[i] = s[i]
      /\ \A i \in 1..m : s1[e + i] = <<L + 1, i>>
  <2>1. /\ Len(s1) = Len(s) + Len(new)
        /\ \A i \in 1..Len(s) + Len(new) :
              s1[i] = IF i <= Len(s) THEN s[i] ELSE new[i - Len(s)]
    BY ONLY s \in Seq(Bytes), new \in Seq(Bytes), ConcatProperties
  <2>2. ASSUME NEW i \in 1..m PROVE s1[e + i] = new[i]
    <3>1. e + i \in 1..e + m /\ ~(e + i <= e) /\ (e + i) - e = i
      BY <1>1, <1>2
    <3>2. Len(s) = e /\ Len(new) = m
      BY <1>1, <1>3
    <3> HIDE DEF s1
    <3>3. s1[e + i] = IF e + i <= e THEN s[e + i] ELSE new[(e + i) - e]
      BY ONLY <2>1, <3>1, <3>2
    <3> QED BY ONLY <3>1, <3>3
  <2>3. Len(s1) = e + m /\ \A i \in 1..e : s1[i] = s[i]
    <3>1. Len(s) = e /\ Len(new) = m /\ e \in Nat /\ m \in Nat
      BY <1>1, <1>2, <1>3
    <3> HIDE DEF s1
    <3>2. ASSUME NEW i \in 1..e PROVE s1[i] = s[i]
      <4>1. i \in 1..Len(s) + Len(new) /\ i <= Len(s)
        BY ONLY <3>1, i \in 1..e
      <4> QED BY <2>1, <4>1
    <3> QED BY <2>1, <3>1, <3>2
  <2> QED BY <1>3, <2>2, <2>3
<1> HIDE DEF fs1, es1, s1, L
<1>7. /\ \A n \in 0..L : Place(es1, n) = Place(es, n)
      /\ Place(es1, L) = e /\ Place(es1, L + 1) = e + m
  <2>1. \A n \in 0..L : Place(es1, n) = Place(es, n)
    BY <1>1, <1>5 DEF Place
  <2> QED BY <1>1, <1>5, <2>1 DEF Place, L
<1>8. ASSUME NEW n \in 1..L + 1
      PROVE  /\ es1[n] = Place(es1, n - 1) + Size(fs1[n])
             /\ es1[n] <= e + m
             /\ \A i \in 1..Size(fs1[n]) : s1[Place(es1, n - 1) + i] = <<n, i>>
  <2>1. CASE n = L + 1
    <3>1. n - 1 = L /\ fs1[n] = frame /\ es1[n] = e + m
      BY <1>1, <1>4, <1>5, <2>1
    <3> QED BY <1>1, <1>2, <1>6, <1>7, <2>1, <3>1 DEF m
  <2>2. CASE n # L + 1
    <3>1. n \in 1..L /\ n - 1 \in 0..L
      BY <1>1, <2>2
    <3>2. fs1[n] = fs[n] /\ es1[n] = es[n] /\ Place(es1, n - 1) = Place(es, n - 1)
      BY <1>4, <1>5, <1>7, <3>1
    <3>3. /\ es[n] = Place(es, n - 1) + Size(fs[n]) /\ es[n] <= e
          /\ \A i \in 1..Size(fs[n]) : s[Place(es, n - 1) + i] = <<n, i>>
      BY <1>1, <3>1 DEF LaidOut, L
    <3>4. Size(fs[n]) \in Nat \ {0} /\ Place(es, n - 1) \in Nat /\ es[n] \in Nat
      <4>1. fs[n] \in Frames
        BY <3>1 DEF L
      <4>2. Size(fs[n]) \in Nat \ {0}
        BY <4>1, SizeIs
      <4>3. es[n] \in Nat
        BY ONLY <1>1, <3>1, es \in Seq(Nat)
      <4>4. n - 1 # 0 => es[n - 1] \in Nat
        <5>1. n - 1 # 0 => n - 1 \in 1..Len(es)
          BY <1>1, <3>1
        <5> QED BY ONLY <5>1, es \in Seq(Nat)
      <4> QED BY <4>2, <4>3, <4>4 DEF Place
    <3>5. ASSUME NEW i \in 1..Size(fs[n]) PROVE s1[Place(es, n - 1) + i] = <<n, i>>
      <4>1. Place(es, n - 1) + i \in 1..e
        <5> DEFINE p == Place(es, n - 1)
                   z == Size(fs[n])
        <5>1. p \in Nat /\ z \in Nat /\ i \in 1..z /\ e \in Nat /\ p + z <= e
          BY <1>1, <3>3, <3>4
        <5> HIDE DEF p, z
        <5>2. p + i \in 1..e
          BY ONLY <5>1
        <5> QED BY <5>2 DEF p
      <4> QED BY <1>6, <3>3, <4>1
    <3> QED BY <1>1, <1>2, <3>2, <3>3, <3>4, <3>5
  <2> QED BY <2>1, <2>2
<1>9. LaidOut(fs1, es1, s1)
  BY <1>4, <1>5, <1>6, <1>7, <1>8 DEF LaidOut
<1> QED BY <1>9 DEF fs1, es1, s1, m

\* No step moves a byte within the stream; a frame sent is added at its end.
LEMMA SentStep == StreamInv /\ [StreamNext]_streamVars => SentInv'
<1> SUFFICES ASSUME StreamInv, [StreamNext]_streamVars PROVE SentInv'
  OBVIOUS
<1>0. SentInv /\ StreamTypeOK
  BY DEF StreamInv
<1>k. ASSUME UNCHANGED <<frames, ends>>, Stream' = Stream PROVE SentInv'
  <2>1. LaidOut(frames, ends, Stream)' = LaidOut(frames', ends', Stream')
    BY DEF LaidOut, Place, Size
  <2>2. LaidOut(frames', ends', Stream') = LaidOut(frames, ends, Stream)
    BY <1>k
  <2> QED BY <1>0, <1>k, <2>1, <2>2 DEF SentInv
<1>1. ASSUME NEW frame \in Frames, PeerSends(frame) PROVE SentInv'
  <2> DEFINE e == EndOf(Len(frames))
             m == Size(frame)
             new == [i \in 1..m |-> <<Len(frames) + 1, i>>]
  <2>1. /\ e \in Nat /\ m \in Nat \ {0}
        /\ frames' = Append(frames, frame) /\ ends' = Append(ends, e + m)
        /\ Len(frames') = Len(frames) + 1
        /\ wire' = wire \o new /\ new \in Seq(Bytes)
    BY <1>1, Sending
  <2>2. Len(frames) \in Nat /\ Len(frames) < MaxFrames /\ MaxFrames \in Nat
    BY <1>0, <1>1, SizesAssumption DEF PeerSends, StreamTypeOK
  <2> HIDE DEF new
  <2>3. /\ Stream \in Seq(Bytes) /\ Stream' = Stream \o new
    <3>1. /\ received \in Seq(Bytes) /\ arrived \in Seq(Bytes) /\ wire \in Seq(Bytes)
          /\ received' = received /\ arrived' = arrived
      BY <1>0, <1>1 DEF StreamTypeOK, PeerSends
    <3>2. received \o arrived \in Seq(Bytes)
      BY <3>1, Together
    <3>3. /\ (received \o arrived) \o wire \in Seq(Bytes)
          /\ ((received \o arrived) \o wire) \o new = (received \o arrived) \o (wire \o new)
      <4> DEFINE seen == received \o arrived
      <4> HIDE DEF seen
      <4>1. seen \in Seq(Bytes)
        BY <3>2 DEF seen
      <4>2. seen \o wire \in Seq(Bytes) /\ (seen \o wire) \o new = seen \o (wire \o new)
        BY ONLY <2>1, <3>1, <4>1, Together
      <4> QED BY <4>2 DEF seen
    <3> QED BY <2>1, <3>1, <3>3 DEF Stream
  <2>4. LaidOut(Append(frames, frame), Append(ends, e + m), Stream \o new)
    <3>1. e = Place(ends, Len(frames)) /\ frames \in Seq(Frames) /\ ends \in Seq(Nat)
          /\ LaidOut(frames, ends, Stream)
      BY <1>0 DEF Place, EndOf, StreamTypeOK, SentInv
    <3>2. new = [i \in 1..m |-> <<Len(frames) + 1, i>>]
      BY DEF new
    <3> HIDE DEF e
    <3> QED BY ONLY <2>1, <2>3, <3>1, <3>2, frame \in Frames, LaidFurther
  <2>5. LaidOut(frames, ends, Stream)' = LaidOut(frames', ends', Stream')
    BY DEF LaidOut, Place, Size
  <2> QED BY <2>1, <2>2, <2>3, <2>4, <2>5 DEF SentInv
<1>2. CASE PeerCloses \/ PeerResets
  BY <1>k, <1>2 DEF PeerCloses, PeerResets, Stream
<1>3. CASE Transmit
  <2>1. Stream' = Stream /\ UNCHANGED <<frames, ends>>
    BY <1>0, <1>3, Transmitting DEF Stream, Transmit
  <2> QED BY <1>k, <2>1
<1>4. CASE Recv
  <2>1. PICK piece \in Seq(Bytes) : /\ received' = received \o piece
                                    /\ arrived = piece \o arrived'
                                    /\ arrived' \in Seq(Bytes)
    BY <1>4, RecvAppends
  <2>2. received' \o arrived' = received \o arrived
    <3>1. received \in Seq(Bytes) /\ piece \in Seq(Bytes) /\ arrived' \in Seq(Bytes)
      BY <1>0, <2>1 DEF StreamTypeOK
    <3>2. (received \o piece) \o arrived' = received \o (piece \o arrived')
      BY ONLY <3>1, Associative, Zenon
    <3> QED BY ONLY <2>1, <3>2, Zenon
  <2>3. UNCHANGED <<frames, ends, wire>>
    BY <1>4 DEF Recv, peerVars
  <2> QED BY <1>k, <2>2, <2>3 DEF Stream
<1>5. CASE \/ ReadEvent \/ RecvAgain \/ RecvEnd \/ RecvFails
           \/ ParseEnds \/ ParseFails \/ ParseFrame \/ Timeout \/ Disconnect
  <2>1. UNCHANGED <<peerVars, arrived, received>>
    BY <1>5 DEF ReadEvent, RecvAgain, RecvEnd, RecvFails, RecvCloses, ParseEnds, ParseFails,
                ParseFrame, Timeout, Disconnect
  <2> QED BY <1>k, <2>1 DEF peerVars, Stream
<1>6. CASE UNCHANGED streamVars
  BY <1>k, <1>6 DEF streamVars, peerVars, Stream
<1> QED
  BY <1>1, <1>2, <1>3, <1>4, <1>5, <1>6 DEF StreamNext, HandleRead, ParseMessage

\* Whole frames are cut off in order, and nothing else leaves the buffer.
LEMMA CutStep == StreamInv /\ [StreamNext]_streamVars => CutInv'
<1> SUFFICES ASSUME StreamInv, [StreamNext]_streamVars PROVE CutInv'
  OBVIOUS
<1> DEFINE d == Len(delivered)
<1>0. /\ CutInv /\ StreamTypeOK
      /\ d \in Nat /\ Len(frames) \in Nat /\ d <= Len(frames) /\ Len(ends) = Len(frames)
      /\ delivered = [i \in 1..d |-> i]
      /\ DOMAIN delivered = 1..d
      /\ EndOf(d) <= Len(received)
      /\ \A i \in 1..d : frames[i].kind = "good" /\ frames[i].payload <= MaxPayload
      /\ Readable = SubSeq(received, EndOf(d) + 1, Len(received))
  <2>1. CutInv /\ StreamTypeOK /\ d \in Nat /\ Len(frames) \in Nat /\ Len(ends) = Len(frames)
    BY DEF StreamInv, StreamTypeOK, SentInv, LaidOut
  <2>2. DOMAIN delivered = 1..d
    BY <2>1 DEF StreamTypeOK
  <2>3. /\ d <= Len(frames) /\ delivered = [i \in 1..d |-> i]
        /\ EndOf(d) <= Len(received)
        /\ Readable = SubSeq(received, EndOf(d) + 1, Len(received))
    BY <2>1 DEF CutInv, FramesInOrder, NothingScrambled
  <2>4. \A i \in 1..d : frames[i].kind = "good" /\ frames[i].payload <= MaxPayload
    BY <2>1, <2>2 DEF CutInv, FramesInOrder
  <2> QED BY <2>1, <2>2, <2>3, <2>4
<1>1. ASSUME NEW frame \in Frames, PeerSends(frame) PROVE CutInv'
  <2>1. /\ Len(frames') = Len(frames) + 1
        /\ \A n \in 1..Len(frames) : frames'[n] = frames[n] /\ ends'[n] = ends[n]
    BY <1>1, Sending
  <2>2. /\ UNCHANGED <<received, delivered>> /\ Readable' = Readable
    BY <1>1 DEF PeerSends, bufferVars, Readable
  <2>3. EndOf(d)' = EndOf(d)
    BY <1>0, <2>1, <2>2 DEF EndOf
  <2>4. Len(delivered') <= Len(frames')
    BY <1>0, <2>1, <2>2
  <2>5. \A i \in DOMAIN delivered' : frames'[i].kind = "good" /\ frames'[i].payload <= MaxPayload
    BY <1>0, <2>1, <2>2
  <2> QED BY <1>0, <2>2, <2>3, <2>4, <2>5 DEF CutInv, FramesInOrder, NothingScrambled
<1>2. CASE Recv
  <2> DEFINE k == EndOf(d)
  <2>1. PICK piece \in Seq(Bytes) : /\ Readable' = Readable \o piece
                                    /\ received' = received \o piece
                                    /\ received' \in Seq(Bytes)
    BY <1>2, RecvAppends
  <2>2. UNCHANGED <<frames, ends, delivered>>
    BY <1>2 DEF Recv, peerVars
  <2>3. EndOf(d)' = k /\ k \in Nat /\ received \in Seq(Bytes)
    BY <1>0, <2>2 DEF EndOf, StreamTypeOK
  <2> HIDE DEF k
  <2>4. k <= Len(received)
    BY <1>0 DEF k
  <2>5. Readable' = SubSeq(received', k + 1, Len(received'))
    <3>1. SubSeq(received \o piece, k + 1, Len(received \o piece))
             = SubSeq(received, k + 1, Len(received)) \o piece
      BY <2>3, <2>4, RestAppended
    <3> QED BY <1>0, <2>1, <3>1 DEF k
  <2>6. k <= Len(received')
    <3>1. Len(received') = Len(received) + Len(piece) /\ Len(piece) \in Nat
          /\ Len(received) \in Nat
      BY <2>1, <2>3, ConcatProperties
    <3> QED BY <2>3, <2>4, <3>1
  <2> QED BY <1>0, <2>2, <2>3, <2>5, <2>6 DEF CutInv, FramesInOrder, NothingScrambled
<1>3. CASE ParseFrame
  <2>1. /\ d + 1 \in 1..Len(frames)
        /\ delivered' = Append(delivered, d + 1)
        /\ frames[d + 1].kind = "good" /\ frames[d + 1].payload <= MaxPayload
        /\ EndOf(d + 1) <= Len(received)
        /\ Readable' = SubSeq(received, EndOf(d + 1) + 1, Len(received))
    BY <1>3, ParseRetrieves
  <2>2. UNCHANGED <<frames, ends, received>>
    BY <1>3 DEF ParseFrame, peerVars
  <2>3. Len(delivered') = d + 1 /\ delivered' = [i \in 1..d + 1 |-> i]
    <3>1. /\ delivered' \in Seq(Nat) /\ Len(delivered') = d + 1
          /\ delivered'[d + 1] = d + 1
          /\ \A i \in 1..d : delivered'[i] = delivered[i]
      <4>1. delivered \in Seq(Nat) /\ d + 1 \in Nat
        BY <1>0, SeqMonotonic DEF StreamTypeOK
      <4> QED BY <2>1, <4>1, AppendProperties
    <3>2. \A i \in 1..d : delivered'[i] = i
      BY <1>0, <3>1
    <3>3. \A i \in 1..d + 1 : delivered'[i] = i
      BY <1>0, <3>1, <3>2
    <3>4. delivered' \in [1..d + 1 -> Nat]
      BY <3>1
    <3> QED BY <3>1, <3>3, <3>4
  <2>4. EndOf(Len(delivered))' = EndOf(d + 1)
    BY <2>2, <2>3 DEF EndOf
  <2>5. DOMAIN delivered' = 1..d + 1
    BY <2>3
  <2>6. \A i \in DOMAIN delivered' : frames'[i].kind = "good" /\ frames'[i].payload <= MaxPayload
    BY <1>0, <2>1, <2>2, <2>5
  <2>7. Len(delivered') <= Len(frames')
    BY <1>0, <2>1, <2>2, <2>3
  <2> HIDE DEF d
  <2>8. FramesInOrder'
    BY <2>1, <2>2, <2>3, <2>4, <2>6 DEF FramesInOrder
  <2>9. NothingScrambled'
    BY <2>1, <2>2, <2>4 DEF NothingScrambled
  <2> QED BY <2>7, <2>8, <2>9 DEF CutInv
<1>4. CASE UNCHANGED <<bufferVars, frames, ends, received, delivered>>
  BY <1>0, <1>4 DEF CutInv, FramesInOrder, NothingScrambled, Readable, bufferVars, EndOf
<1> QED
  BY <1>1, <1>2, <1>3, <1>4
     DEF StreamNext, HandleRead, ParseMessage, PeerCloses, PeerResets, Transmit, ReadEvent,
         RecvAgain, RecvEnd, RecvFails, RecvCloses, ParseEnds, ParseFails, Timeout,
         Disconnect, streamVars, bufferVars, peerVars

\* parseMessage stops only where the first frame not delivered is incomplete, and
\* while the connection waits nothing is added to the buffer.  Left out are only the
\* ends that handleRead meets, which has added something, and a malformed frame.
LEMMA StrandedStep == StreamInv /\ [StreamNext]_streamVars => NoFrameStranded'
<1> DEFINE d == Len(delivered)
<1> SUFFICES ASSUME StreamInv, [StreamNext]_streamVars,
                    phase' = "poll", cause' \in {"none", "timeout", "disconnect"}
             PROVE  \/ ReadableBytes' < HeaderSize
                    \/ /\ ReadableBytes' < Size(frames'[Len(delivered') + 1])
                       /\ frames'[Len(delivered') + 1].kind # "badMagic"
  BY DEF NoFrameStranded, Size
<1>0. ReadableBytes \in Nat /\ HeaderSize \in Nat \ {0}
  BY ReadableBytesAre, SizesAssumption DEF StreamInv, StreamTypeOK
\* The connection was waiting, and still has the same bytes in its buffer.
<1>1. ASSUME phase = "poll", cause \in {"none", "timeout", "disconnect"},
             UNCHANGED <<bufferVars, delivered>>,
             ReadableBytes > 0 => frames'[d + 1] = frames[d + 1]
      PROVE  \/ ReadableBytes' < HeaderSize
             \/ /\ ReadableBytes' < Size(frames'[Len(delivered') + 1])
                /\ frames'[Len(delivered') + 1].kind # "badMagic"
  <2>1. ReadableBytes' = ReadableBytes
    BY <1>1 DEF ReadableBytes, bufferVars
  <2>2. CASE ReadableBytes > 0
    BY <1>1, <2>1, <2>2 DEF StreamInv, NoFrameStranded
  <2>3. CASE ~(ReadableBytes > 0)
    BY <1>0, <2>1, <2>3
  <2> QED BY <2>2, <2>3
<1>2. ASSUME NEW frame \in Frames, PeerSends(frame)
      PROVE  \/ ReadableBytes' < HeaderSize
             \/ /\ ReadableBytes' < Size(frames'[Len(delivered') + 1])
                /\ frames'[Len(delivered') + 1].kind # "badMagic"
  <2>1. \A n \in 1..Len(frames) : frames'[n] = frames[n]
    BY <1>2, Sending
  <2>2. ReadableBytes > 0 => frames'[d + 1] = frames[d + 1]
    BY <2>1, HeadIs
  <2>3. /\ UNCHANGED <<bufferVars, delivered>> /\ phase = "poll"
        /\ cause \in {"none", "timeout", "disconnect"}
    BY <1>2 DEF PeerSends, bufferVars, connVars
  <2> QED BY <1>1, <2>2, <2>3
<1>3. CASE \/ PeerCloses \/ PeerResets \/ Transmit \/ Timeout \/ Disconnect
           \/ UNCHANGED streamVars
  <2>1. UNCHANGED <<bufferVars, delivered>> /\ frames' = frames /\ phase = "poll"
    BY <1>3 DEF PeerCloses, PeerResets, Transmit, Timeout, Disconnect, streamVars, bufferVars,
                peerVars
  <2>2. cause \in {"none", "timeout", "disconnect"}
    <3>1. CASE Timeout \/ Disconnect
      BY <3>1 DEF Timeout, Disconnect, StreamInv, StreamTypeOK
    <3>2. CASE UNCHANGED connVars
      BY <3>2 DEF connVars
    <3> QED
      BY <1>3, <3>1, <3>2 DEF PeerCloses, PeerResets, Transmit, streamVars
  <2> QED BY <1>1, <2>1, <2>2
<1>4. CASE ParseEnds
  <2>1. /\ ReadableBytes' = ReadableBytes /\ frames' = frames /\ delivered' = delivered
        /\ ReadableBytes = 0 \/ Decode = "kHalfPacket"
    BY <1>4 DEF ParseEnds, bufferVars, peerVars, ReadableBytes
  <2>2. CASE ReadableBytes < HeaderSize
    BY <2>1, <2>2
  <2>3. CASE ~(ReadableBytes < HeaderSize)
    <3>1. ReadableBytes > 0 /\ Decode = "kHalfPacket"
      BY <1>0, <2>1, <2>3
    <3>2. HeadFrame = frames[d + 1]
      BY <3>1, HeadIs
    <3>3. ReadableBytes < Size(HeadFrame) /\ HeadFrame.kind # "badMagic"
      BY <2>3, <3>1 DEF Decode
    <3> QED BY <2>1, <3>2, <3>3
  <2> QED BY <2>2, <2>3
<1>5. ~(ReadEvent \/ Recv \/ RecvAgain \/ RecvEnd \/ RecvFails \/ ParseFrame \/ ParseFails)
  BY DEF ReadEvent, Recv, RecvAgain, RecvEnd, RecvFails, RecvCloses, ParseFrame, ParseFails, Ends
<1> QED
  BY <1>2, <1>3, <1>4, <1>5 DEF StreamNext, HandleRead, ParseMessage

\* StreamInv holds in every state.
THEOREM StreamInvariant == StreamSpec => []StreamInv
<1>1. ASSUME StreamInit PROVE StreamInv
  <2>1. buf \in Seq(Bytes) /\ Len(buf) = CheapPrepend + InitialSize
    <3>1. buf \in [1..CheapPrepend + InitialSize -> Bytes]
          /\ CheapPrepend + InitialSize \in Nat
      BY <1>1, BufferAssumption DEF StreamInit, BufferInit
    <3>2. buf \in Seq(Bytes)
      BY <3>1, SeqDef
    <3> QED BY <3>1, <3>2
  <2>2. BufferTypeOK
    BY <1>1, <2>1, BufferAssumption DEF StreamInit, BufferInit, BufferTypeOK
  <2>3. /\ frames = <<>> /\ ends = <<>> /\ wire = <<>> /\ arrived = <<>>
        /\ received = <<>> /\ delivered = <<>> /\ phase = "poll" /\ state = "kConnected"
        /\ ready = FALSE /\ armed \in BOOLEAN /\ peer = "open" /\ cause = "none"
        /\ CheapPrepend <= readerIndex
    BY <1>1, BufferAssumption DEF StreamInit, BufferInit
  <2>4. StreamTypeOK
    BY <2>2, <2>3, EmptySeq DEF StreamTypeOK
  <2>5. Stream = <<>>
    BY <2>3 DEF Stream
  <2>6. SentInv
    BY <2>3, <2>5, SizesAssumption DEF SentInv, LaidOut, Place
  <2>7. Readable = <<>> /\ ReadableBytes = 0
    <3>1. /\ readerIndex \in Nat /\ writerIndex = readerIndex
      BY <1>1, BufferAssumption DEF StreamInit, BufferInit
    <3> QED BY <3>1, SubSeqEmpty DEF Readable, ReadableBytes
  <2>8. CutInv
    <3>1. EndOf(Len(delivered)) = 0 /\ Len(received) = 0
      BY <2>3 DEF EndOf
    <3>2. SubSeq(received, 0 + 1, 0) = <<>>
      BY SubSeqEmpty
    <3> QED BY <2>3, <2>7, <3>1, <3>2 DEF CutInv, FramesInOrder, NothingScrambled
  <2>9. NoFrameStranded
    BY <2>7, SizesAssumption DEF NoFrameStranded
  <2> QED BY <2>4, <2>6, <2>8, <2>9 DEF StreamInv
<1>2. StreamInv /\ [StreamNext]_streamVars => StreamInv'
  BY StreamTypeStep, SentStep, CutStep, StrandedStep DEF StreamInv
<1> QED BY <1>1, <1>2, PTL DEF StreamSpec

\* The indices of the Buffer stay in order and inside the memory, the read index
\* behind the reserve, whatever arrives in whatever pieces (append, makeSpace,
\* retrieve); handleRead calls recv() only while the connection is up, and one that
\* is not has a cause.
THEOREM StreamTypeCorrect == StreamSpec => []StreamTypeOK
<1>1. StreamInv => StreamTypeOK
  BY DEF StreamInv
<1> QED BY <1>1, StreamInvariant, PTL

\* No byte is lost, repeated or moved out of order between recv() and the decoder,
\* however makeSpace moves and enlarges.
THEOREM BytesKeepTheirOrder == StreamSpec => []NothingScrambled
<1>1. StreamInv => NothingScrambled
  BY DEF StreamInv, CutInv
<1> QED BY <1>1, StreamInvariant, PTL

\* parseMessage hands over whole frames, in the order they were sent, each once,
\* none left out, and none from a malformed one on.
THEOREM FramesComeInOrder == StreamSpec => []FramesInOrder
<1>1. StreamInv => FramesInOrder
  BY DEF StreamInv, CutInv
<1> QED BY <1>1, StreamInvariant, PTL

\* A connection that waits for more bytes has no complete frame in its buffer,
\* which edge-triggered events would never come back for; nor has one that the
\* keep-alive timer or disconnect() has ended.
THEOREM NoFrameLeftBehind == StreamSpec => []NoFrameStranded
<1>1. StreamInv => NoFrameStranded
  BY DEF StreamInv
<1> QED BY <1>1, StreamInvariant, PTL

\* The Buffer is enlarged only when the readable bytes and the new ones exceed
\* all of its memory but the reserve (makeSpace).
THEOREM BufferGrowsOnlyWhenFull == StreamSpec => GrowsOnlyWhenFull
<1> DEFINE A == Len(buf') > Len(buf) =>
                   ReadableBytes + Len(received') - Len(received) > Len(buf) - CheapPrepend
<1>1. StreamInv /\ [StreamNext]_streamVars => [A]_streamVars
  <2> SUFFICES ASSUME StreamInv, StreamNext PROVE A
    OBVIOUS
  <2>1. buf \in Seq(Bytes) /\ Len(buf) \in Nat /\ received \in Seq(Bytes)
        /\ Len(received) \in Nat /\ ReadableBytes \in Nat
    BY ReadableBytesAre DEF StreamInv, StreamTypeOK, BufferTypeOK
  <2>2. CASE Recv
    <3>1. received' \in Seq(Bytes)
          /\ (Len(buf') > Len(buf) =>
                ReadableBytes + (Len(received') - Len(received)) > Len(buf) - CheapPrepend)
      BY <2>2, RecvAppends
    <3>2. Len(received') \in Nat
      BY <3>1
    <3> QED BY <2>1, <3>1, <3>2
  <2>3. CASE buf' = buf
    BY <2>1, <2>3
  <2>4. Recv \/ buf' = buf
    BY DEF StreamNext, HandleRead, ParseMessage, PeerSends, PeerCloses, PeerResets, Transmit,
           ReadEvent, RecvAgain, RecvEnd, RecvFails, RecvCloses, ParseFrame, ParseEnds,
           ParseFails, Timeout, Disconnect, Retrieve, bufferVars
  <2> QED BY <2>2, <2>3, <2>4
<1> HIDE DEF A
<1>2. StreamSpec => [][A]_streamVars
  BY <1>1, StreamInvariant, PTL DEF StreamSpec
<1> QED BY <1>2 DEF A, GrowsOnlyWhenFull
============================================================================

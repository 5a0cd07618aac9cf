---------------------------- MODULE Buffer_proof ---------------------------
(***************************************************************************)
(* Proofs about Buffer, for any bytes, initial size and reserve: append()  *)
(* and retrieve() behave like a queue of bytes, whether the readable bytes *)
(* stay in place, are moved to the front or are copied to larger memory.   *)
(***************************************************************************)
EXTENDS Buffer, SequenceTheorems, TLAPS

\* The bytes between two indices of some memory, one by one.
LEMMA Between ==
    ASSUME NEW mem \in Seq(Bytes), NEW r \in Nat, NEW w \in Nat, r <= w, w <= Len(mem)
    PROVE  /\ SubSeq(mem, r + 1, w) \in Seq(Bytes)
           /\ Len(SubSeq(mem, r + 1, w)) = w - r
           /\ w - r \in Nat
           /\ \A i \in 1..(w - r) : SubSeq(mem, r + 1, w)[i] = mem[r + i]
<1>1. Len(mem) \in Nat /\ \A i \in 1..Len(mem) : mem[i] \in Bytes
  OBVIOUS
<1>2. \A i \in (r + 1)..w : mem[i] \in Bytes
  BY <1>1
<1>3. /\ SubSeq(mem, r + 1, w) \in Seq(Bytes)
      /\ Len(SubSeq(mem, r + 1, w)) = IF r + 1 <= w THEN w - (r + 1) + 1 ELSE 0
      /\ \A i \in 1..(w - (r + 1) + 1) : SubSeq(mem, r + 1, w)[i] = mem[(r + 1) + i - 1]
  BY <1>1, <1>2, SubSeqProperties
<1> QED BY <1>3

\* The readable bytes, one by one.
LEMMA ReadableBytesAre ==
    ASSUME BufferTypeOK
    PROVE  /\ Readable \in Seq(Bytes)
           /\ Len(Readable) = ReadableBytes
           /\ ReadableBytes \in Nat
           /\ \A i \in 1..ReadableBytes : Readable[i] = buf[readerIndex + i]
BY Between DEF BufferTypeOK, Readable, ReadableBytes

\* Overwriting changes neither the size of the memory nor what it can hold.
LEMMA OverwriteKeeps ==
    ASSUME NEW mem \in Seq(Bytes), NEW at \in Nat, NEW bytes \in Seq(Bytes)
    PROVE  /\ Overwrite(mem, at, bytes) \in Seq(Bytes)
           /\ Len(Overwrite(mem, at, bytes)) = Len(mem)
           /\ \A i \in 1..Len(mem) :
                 Overwrite(mem, at, bytes)[i] =
                    IF i - at \in 1..Len(bytes) THEN bytes[i - at] ELSE mem[i]
<1>1. /\ DOMAIN mem = 1..Len(mem) /\ DOMAIN bytes = 1..Len(bytes)
      /\ Len(mem) \in Nat /\ Len(bytes) \in Nat
  OBVIOUS
<1>2. \A i \in 1..Len(mem) :
         (IF i - at \in 1..Len(bytes) THEN bytes[i - at] ELSE mem[i]) \in Bytes
  BY <1>1
<1>3. Overwrite(mem, at, bytes) =
         [i \in 1..Len(mem) |-> IF i - at \in 1..Len(bytes) THEN bytes[i - at] ELSE mem[i]]
  BY <1>1 DEF Overwrite
<1>4. Overwrite(mem, at, bytes) \in [1..Len(mem) -> Bytes]
  BY <1>2, <1>3
<1>5. Overwrite(mem, at, bytes) \in Seq(Bytes)
  BY <1>1, <1>4, SeqDef
<1>6. Len(Overwrite(mem, at, bytes)) = Len(mem)
  BY <1>1, <1>4, <1>5
<1> QED BY <1>3, <1>5, <1>6

\* Two byte sequences with the same length and bytes are equal, here for the
\* readable bytes after a step and those before followed by new ones.
LEMMA ReadableAppended ==
    ASSUME BufferTypeOK, BufferTypeOK', NEW bytes \in Seq(Bytes),
           writerIndex' - readerIndex' = ReadableBytes + Len(bytes),
           \A i \in 1..ReadableBytes : buf'[readerIndex' + i] = buf[readerIndex + i],
           \A i \in 1..Len(bytes) : buf'[readerIndex' + ReadableBytes + i] = bytes[i]
    PROVE  Readable' = Readable \o bytes
<1>1. /\ Readable \in Seq(Bytes) /\ Len(Readable) = ReadableBytes /\ ReadableBytes \in Nat
      /\ \A i \in 1..ReadableBytes : Readable[i] = buf[readerIndex + i]
  BY ReadableBytesAre
<1>2. /\ Readable' \in Seq(Bytes) /\ Len(Readable') = ReadableBytes'
      /\ \A i \in 1..ReadableBytes' : Readable'[i] = buf'[readerIndex' + i]
  <2>1. /\ buf' \in Seq(Bytes) /\ readerIndex' \in Nat /\ writerIndex' \in Nat
        /\ readerIndex' <= writerIndex' /\ writerIndex' <= Len(buf')
    BY DEF BufferTypeOK
  <2> QED BY <2>1, Between DEF Readable, ReadableBytes
<1>3. /\ Len(bytes) \in Nat
      /\ ReadableBytes' = ReadableBytes + Len(bytes)
  BY DEF ReadableBytes
<1>4. /\ Readable \o bytes \in Seq(Bytes)
      /\ Len(Readable \o bytes) = ReadableBytes + Len(bytes)
      /\ \A i \in 1..(ReadableBytes + Len(bytes)) :
            (Readable \o bytes)[i] = IF i <= ReadableBytes THEN Readable[i]
                                     ELSE bytes[i - ReadableBytes]
  BY <1>1, <1>3, ConcatProperties
<1>5. ASSUME NEW i \in 1..(ReadableBytes + Len(bytes))
      PROVE  Readable'[i] = (Readable \o bytes)[i]
  <2>1. Readable'[i] = buf'[readerIndex' + i]
    BY <1>2, <1>3
  <2>2. CASE i <= ReadableBytes
    BY <2>1, <2>2, <1>1, <1>4
  <2>3. CASE ~(i <= ReadableBytes)
    <3> DEFINE j == i - ReadableBytes
    <3>1. j \in 1..Len(bytes) /\ readerIndex' + ReadableBytes + j = readerIndex' + i
      <4>1. readerIndex' \in Nat /\ ReadableBytes \in Nat /\ Len(bytes) \in Nat
        BY <1>1, <1>3 DEF BufferTypeOK
      <4> QED BY ONLY <2>3, <4>1, i \in 1..(ReadableBytes + Len(bytes)) DEF j
    <3>2. buf'[readerIndex' + i] = bytes[j]
      BY <3>1
    <3> QED BY <2>1, <2>3, <3>2, <1>4
  <2> QED BY <2>2, <2>3
<1> QED BY <1>2, <1>3, <1>4, <1>5, SeqEqual

\* What append() leaves in the buffer, wherever it found the room: the readable
\* bytes and behind them the new ones, in memory that is still large enough and
\* was enlarged only for want of room.
THEOREM AppendAppends ==
    ASSUME BufferTypeOK, NEW bytes \in Seq(Bytes), AppendBytes(bytes)
    PROVE  /\ BufferTypeOK'
           /\ Readable' = Readable \o bytes
           /\ Len(buf') > Len(buf) =>
                 ReadableBytes + Len(bytes) > Len(buf) - CheapPrepend
<1> USE BufferAssumption
<1> DEFINE n == Len(bytes)
<1>0. /\ buf \in Seq(Bytes) /\ Len(buf) \in Nat /\ n \in Nat
      /\ readerIndex \in Nat /\ writerIndex \in Nat /\ CheapPrepend \in Nat
      /\ CheapPrepend <= Len(buf) /\ readerIndex <= writerIndex
      /\ writerIndex <= Len(buf)
      /\ ReadableBytes = writerIndex - readerIndex /\ ReadableBytes \in Nat
      /\ WritableBytes = Len(buf) - writerIndex
  BY DEF BufferTypeOK, ReadableBytes, WritableBytes
\* The bytes fit behind the write index.
<1>1. ASSUME WritableBytes >= n,
             buf' = Overwrite(buf, writerIndex, bytes),
             writerIndex' = writerIndex + n, readerIndex' = readerIndex
      PROVE  BufferTypeOK' /\ Readable' = Readable \o bytes /\ Len(buf') = Len(buf)
  <2>1. /\ buf' \in Seq(Bytes) /\ Len(buf') = Len(buf)
        /\ \A i \in 1..Len(buf) :
              buf'[i] = IF i - writerIndex \in 1..n THEN bytes[i - writerIndex] ELSE buf[i]
    <3>1. /\ Overwrite(buf, writerIndex, bytes) \in Seq(Bytes)
          /\ Len(Overwrite(buf, writerIndex, bytes)) = Len(buf)
          /\ \A i \in 1..Len(buf) : Overwrite(buf, writerIndex, bytes)[i] =
                IF i - writerIndex \in 1..n THEN bytes[i - writerIndex] ELSE buf[i]
      <4>1. buf \in Seq(Bytes) /\ writerIndex \in Nat
        BY <1>0
      <4> QED BY ONLY <4>1, bytes \in Seq(Bytes), OverwriteKeeps DEF n
    <3> QED BY ONLY <1>1, <3>1
  <2>2. BufferTypeOK'
    BY <1>0, <1>1, <2>1 DEF BufferTypeOK
  <2>3. ASSUME NEW i \in 1..ReadableBytes PROVE buf'[readerIndex' + i] = buf[readerIndex + i]
    <3>1. /\ readerIndex + i \in 1..Len(buf)
          /\ ~((readerIndex + i) - writerIndex \in 1..n)
      BY <1>0
    <3> QED BY <1>1, <2>1, <3>1
  <2>4. ASSUME NEW i \in 1..n PROVE buf'[readerIndex' + ReadableBytes + i] = bytes[i]
    <3>1. PICK k \in 1..Len(buf) : k = writerIndex + i
      BY <1>0, <1>1
    <3>2. k - writerIndex = i /\ readerIndex' + ReadableBytes + i = k
      BY <1>0, <1>1, <3>1
    <3>3. buf'[k] = bytes[k - writerIndex]
      BY <2>1, <3>2
    <3> QED BY <3>2, <3>3
  <2>5. writerIndex' - readerIndex' = ReadableBytes + n
    BY <1>0, <1>1
  <2> QED BY <2>1, <2>2, <2>3, <2>4, <2>5, ReadableAppended
\* They fit once the readable bytes have moved to the front.
<1>2. ASSUME FitsByMoving(n), WritableBytes < n,
             buf' = Overwrite(Overwrite(buf, CheapPrepend, Readable),
                              CheapPrepend + ReadableBytes, bytes),
             readerIndex' = CheapPrepend,
             writerIndex' = CheapPrepend + ReadableBytes + n
      PROVE  BufferTypeOK' /\ Readable' = Readable \o bytes /\ Len(buf') = Len(buf)
  <2> DEFINE moved == Overwrite(buf, CheapPrepend, Readable)
             at == CheapPrepend + ReadableBytes
  <2>1. /\ Readable \in Seq(Bytes) /\ Len(Readable) = ReadableBytes
        /\ \A i \in 1..ReadableBytes : Readable[i] = buf[readerIndex + i]
    BY ReadableBytesAre
  <2>2. /\ moved \in Seq(Bytes) /\ Len(moved) = Len(buf)
        /\ \A i \in 1..Len(buf) :
              moved[i] = IF i - CheapPrepend \in 1..ReadableBytes
                         THEN Readable[i - CheapPrepend] ELSE buf[i]
    BY <1>0, <2>1, OverwriteKeeps
  <2> HIDE DEF moved
  <2>3. at \in Nat /\ at + n <= Len(buf)
    BY <1>0, <1>2 DEF FitsByMoving
  <2>4. /\ buf' \in Seq(Bytes) /\ Len(buf') = Len(buf)
        /\ \A i \in 1..Len(buf) :
              buf'[i] = IF i - at \in 1..n THEN bytes[i - at] ELSE moved[i]
    BY <1>2, <2>2, <2>3, OverwriteKeeps DEF moved
  <2>5. BufferTypeOK'
    BY <1>0, <1>2, <2>3, <2>4 DEF BufferTypeOK
  <2>6. ASSUME NEW i \in 1..ReadableBytes PROVE buf'[readerIndex' + i] = buf[readerIndex + i]
    <3>1. PICK k \in 1..Len(buf) : k = CheapPrepend + i
      BY <1>0, <2>3
    <3>2. k - CheapPrepend = i /\ ~(k - at \in 1..n) /\ readerIndex' + i = k
      BY <1>0, <1>2, <3>1
    <3>3. buf'[k] = moved[k] /\ moved[k] = Readable[k - CheapPrepend]
      BY <2>2, <2>4, <3>2
    <3> QED BY <2>1, <3>2, <3>3
  <2>7. ASSUME NEW i \in 1..n PROVE buf'[readerIndex' + ReadableBytes + i] = bytes[i]
    <3>1. PICK k \in 1..Len(buf) : k = at + i
      BY <1>0, <1>2, <2>3
    <3>2. k - at = i /\ readerIndex' + ReadableBytes + i = k
      BY <1>0, <1>2, <2>3, <3>1
    <3>3. buf'[k] = bytes[k - at]
      BY <2>4, <3>2
    <3> QED BY <3>2, <3>3
  <2>8. writerIndex' - readerIndex' = ReadableBytes + n
    BY <1>0, <1>2
  <2> QED BY <2>4, <2>5, <2>6, <2>7, <2>8, ReadableAppended
\* The memory is enlarged.
<1>3. ASSUME WritableBytes < n, ~FitsByMoving(n),
             buf' = Overwrite(Enlarged(writerIndex + n), writerIndex, bytes),
             writerIndex' = writerIndex + n, readerIndex' = readerIndex
      PROVE  BufferTypeOK' /\ Readable' = Readable \o bytes
  <2> DEFINE size == writerIndex + n
             larger == Enlarged(size)
  <2>1. /\ size \in Nat /\ DOMAIN buf = 1..Len(buf)
        /\ \A i \in 1..Len(buf) : buf[i] \in Bytes
    BY <1>0
  <2>2. larger = [i \in 1..size |-> IF i \in 1..Len(buf) THEN buf[i] ELSE Zero]
    BY <2>1 DEF Enlarged
  <2>3. larger \in [1..size -> Bytes]
    BY <2>1, <2>2
  <2> HIDE DEF larger, size
  <2>4. larger \in Seq(Bytes) /\ Len(larger) = size
    BY <2>1, <2>3, SeqDef
  <2>5. /\ buf' \in Seq(Bytes) /\ Len(buf') = size
        /\ \A i \in 1..size :
              buf'[i] = IF i - writerIndex \in 1..n THEN bytes[i - writerIndex] ELSE larger[i]
    BY <1>0, <1>3, <2>4, OverwriteKeeps DEF larger, size
  <2>6. BufferTypeOK'
    BY <1>0, <1>3, <2>5 DEF BufferTypeOK, size
  <2>7. ASSUME NEW i \in 1..ReadableBytes PROVE buf'[readerIndex' + i] = buf[readerIndex + i]
    <3>1. PICK k \in 1..size : k = readerIndex + i
      BY <1>0 DEF size
    <3>2. k \in 1..Len(buf) /\ ~(k - writerIndex \in 1..n) /\ readerIndex' + i = k
      BY <1>0, <1>3, <3>1
    <3>3. buf'[k] = larger[k] /\ larger[k] = buf[k]
      BY <2>2, <2>5, <3>2
    <3> QED BY <3>1, <3>2, <3>3
  <2>8. ASSUME NEW i \in 1..n PROVE buf'[readerIndex' + ReadableBytes + i] = bytes[i]
    <3>1. PICK k \in 1..size : k = writerIndex + i
      BY <1>0 DEF size
    <3>2. k - writerIndex = i /\ readerIndex' + ReadableBytes + i = k
      BY <1>0, <1>3, <3>1
    <3>3. buf'[k] = bytes[k - writerIndex]
      BY <2>5, <3>2
    <3> QED BY <3>2, <3>3
  <2>9. writerIndex' - readerIndex' = ReadableBytes + n
    BY <1>0, <1>3
  <2> QED BY <2>6, <2>7, <2>8, <2>9, ReadableAppended
<1>4. ~FitsByMoving(n) => ReadableBytes + n > Len(buf) - CheapPrepend
  BY <1>0 DEF FitsByMoving
<1>5. CASE WritableBytes >= n /\ PutBehind(bytes)
  <2>1. BufferTypeOK' /\ Readable' = Readable \o bytes /\ Len(buf') = Len(buf)
    BY <1>1, <1>5 DEF PutBehind
  <2> QED BY <1>0, <2>1
<1>6. CASE /\ WritableBytes < n /\ FitsByMoving(n)
           /\ buf' = Overwrite(Overwrite(buf, CheapPrepend, Readable),
                               CheapPrepend + ReadableBytes, bytes)
           /\ readerIndex' = CheapPrepend
           /\ writerIndex' = CheapPrepend + ReadableBytes + n
  <2>1. BufferTypeOK' /\ Readable' = Readable \o bytes /\ Len(buf') = Len(buf)
    BY <1>2, <1>6
  <2> QED BY <1>0, <2>1
<1>7. CASE /\ WritableBytes < n /\ ~FitsByMoving(n)
           /\ buf' = Overwrite(Enlarged(writerIndex + n), writerIndex, bytes)
           /\ writerIndex' = writerIndex + n
           /\ UNCHANGED readerIndex
  <2>1. BufferTypeOK' /\ Readable' = Readable \o bytes
    BY <1>3, <1>7
  <2> QED BY <1>4, <1>7, <2>1
<1> QED BY <1>5, <1>6, <1>7 DEF AppendBytes

\* What retrieve() leaves: the readable bytes without the first len of them.
THEOREM RetrieveRetrieves ==
    ASSUME BufferTypeOK, NEW len \in Nat, len <= ReadableBytes, Retrieve(len)
    PROVE  /\ BufferTypeOK'
           /\ Readable' = SubSeq(Readable, len + 1, Len(Readable))
<1> USE BufferAssumption
<1>0. /\ buf \in Seq(Bytes) /\ Len(buf) \in Nat /\ buf' = buf
      /\ readerIndex \in Nat /\ writerIndex \in Nat /\ CheapPrepend \in Nat
      /\ CheapPrepend <= Len(buf) /\ readerIndex <= writerIndex
      /\ writerIndex <= Len(buf)
      /\ ReadableBytes = writerIndex - readerIndex /\ ReadableBytes \in Nat
  BY DEF BufferTypeOK, ReadableBytes, Retrieve
<1>1. /\ Readable \in Seq(Bytes) /\ Len(Readable) = ReadableBytes
      /\ \A i \in 1..ReadableBytes : Readable[i] = buf[readerIndex + i]
  BY ReadableBytesAre
<1> DEFINE rest == SubSeq(Readable, len + 1, Len(Readable))
<1>2. /\ rest \in Seq(Bytes) /\ Len(rest) = ReadableBytes - len
      /\ \A i \in 1..(ReadableBytes - len) : rest[i] = Readable[len + i]
  <2>1. Len(Readable) \in Nat /\ len <= Len(Readable)
    BY <1>0, <1>1
  <2>2. /\ rest \in Seq(Bytes) /\ Len(rest) = Len(Readable) - len
        /\ \A i \in 1..(Len(Readable) - len) : rest[i] = Readable[len + i]
    <3>1. Readable \in Seq(Bytes)
      BY <1>1
    <3> QED BY ONLY <2>1, <3>1, Between DEF rest
  <2> QED BY <1>1, <2>2
<1> HIDE DEF rest
<1>3. BufferTypeOK'
  BY <1>0 DEF Retrieve, BufferTypeOK
<1>4. /\ readerIndex' \in Nat /\ writerIndex' \in Nat
      /\ readerIndex' <= writerIndex' /\ writerIndex' <= Len(buf)
      /\ writerIndex' - readerIndex' = ReadableBytes - len
      /\ len < ReadableBytes => readerIndex' = readerIndex + len
  BY <1>0 DEF Retrieve
<1>5. /\ Readable' \in Seq(Bytes) /\ Len(Readable') = ReadableBytes - len
      /\ \A i \in 1..(ReadableBytes - len) : Readable'[i] = buf[readerIndex' + i]
  <2>1. PICK from \in Nat, to \in Nat :
           from = readerIndex' /\ to = writerIndex' /\ from <= to /\ to <= Len(buf)
    BY <1>4
  <2>2. Readable' = SubSeq(buf, from + 1, to) /\ to - from = ReadableBytes - len
    BY <1>0, <1>4, <2>1 DEF Readable
  <2>3. /\ SubSeq(buf, from + 1, to) \in Seq(Bytes)
        /\ Len(SubSeq(buf, from + 1, to)) = to - from
        /\ \A i \in 1..(to - from) : SubSeq(buf, from + 1, to)[i] = buf[from + i]
    <3>1. buf \in Seq(Bytes) /\ from <= to /\ to <= Len(buf)
      BY <1>0, <2>1
    <3> QED BY ONLY <3>1, from \in Nat, to \in Nat, Between
  <2> QED BY <2>1, <2>2, <2>3
<1>6. ASSUME NEW i \in 1..(ReadableBytes - len) PROVE Readable'[i] = rest[i]
  <2>1. len < ReadableBytes /\ len + i \in 1..ReadableBytes
    BY <1>0
  <2>2. Readable'[i] = buf[readerIndex + len + i]
    BY <1>0, <1>4, <1>5, <2>1
  <2>3. rest[i] = Readable[len + i]
    BY <1>2
  <2>4. Readable[len + i] = buf[readerIndex + (len + i)]
    BY <1>1, <2>1
  <2>5. readerIndex + (len + i) = readerIndex + len + i
    BY <1>0
  <2> QED BY <2>2, <2>3, <2>4, <2>5
<1>7. Readable' = rest
  BY <1>2, <1>5, <1>6, SeqEqual
<1> QED BY <1>3, <1>7 DEF rest
============================================================================

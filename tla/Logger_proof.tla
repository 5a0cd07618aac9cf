---------------------------- MODULE Logger_proof ---------------------------
(***************************************************************************)
(* Proofs about AsyncLogging and Logger, for buffers of any size, any      *)
(* backlog and any number of threads.                                      *)
(***************************************************************************)
EXTENDS Logger, SequenceTheorems, FiniteSetTheorems, TLAPS

\* Where the spare buffers are: nextBuffer_ is only missing while the buffer it
\* replaced waits in buffers_; the thread has both spares when it comes back to
\* the swap, and the round holds at least as many buffers as it is short of.
SparesInv ==
    /\ buffers \in Seq(Seq(Lines))
    /\ toWrite \in Seq(Seq(Lines))
    /\ current \in Seq(Lines)
    /\ count \in 0..MaxLines
    /\ {next, new1, new2} \subseteq BOOLEAN
    /\ ~next => Len(buffers) >= 1
    /\ pc \in {"while", "swap"} => new1 /\ new2
    /\ pc \in {"cut", "write", "recycle"} =>
          Len(toWrite) >= (IF new1 THEN 0 ELSE 1) + (IF new2 THEN 0 ELSE 1)

\* The cut keeps at least two buffers of a round, or all.
LEMMA RoundKeepsTwo ==
    ASSUME toWrite \in Seq(Seq(Lines))
    PROVE  /\ Round \in Seq(Seq(Lines))
           /\ Len(Round) >= 2 \/ Round = toWrite
<1>1. CASE Len(toWrite) > MaxBacklog
  <2>1. /\ Kept \in Nat /\ Kept >= 2 /\ Kept <= Len(toWrite)
        /\ Round = SubSeq(toWrite, 1, Kept)
    BY <1>1, SizesAssumption DEF Round
  <2>2. Round \in Seq(Seq(Lines)) /\ Len(Round) = Kept
    BY <2>1
  <2> QED BY <2>1, <2>2
<1>2. CASE ~(Len(toWrite) > MaxBacklog)
  BY <1>2 DEF Round
<1> QED BY <1>1, <1>2

\* SparesInv holds at the start, and every step of AsyncLogging keeps it.
LEMMA SparesStep == (Init => SparesInv) /\ (SparesInv /\ [Next]_vars => SparesInv')
<1>1. ASSUME Init PROVE SparesInv
  <2>1. /\ buffers \in Seq(Seq(Lines))
        /\ toWrite \in Seq(Seq(Lines))
        /\ current \in Seq(Lines)
    BY <1>1, EmptySeq DEF Init
  <2>2. count \in 0..MaxLines
    BY <1>1, SizesAssumption DEF Init
  <2> QED BY <1>1, <2>1, <2>2 DEF Init, SparesInv
<1>2. SparesInv /\ [Next]_vars => SparesInv'
  <2> SUFFICES ASSUME SparesInv, [Next]_vars PROVE SparesInv'
    OBVIOUS
  <2>1. CASE Start
    BY <2>1 DEF Start, front, SparesInv
  <2>2. CASE Log
    <3>1. count' \in Lines /\ count' \in 0..MaxLines
      BY <2>2, SizesAssumption DEF Log, Lines, SparesInv
    <3>2. CASE Len(current) < Capacity
      <4>1. current' = Append(current, count') /\ UNCHANGED <<buffers, next>>
        BY <2>2, <3>2 DEF Log, AppendLine
      <4>2. current' \in Seq(Lines)
        BY <3>1, <4>1, AppendProperties DEF SparesInv
      <4> QED BY <2>2, <3>1, <4>1, <4>2 DEF Log, control, back, SparesInv
    <3>3. CASE ~(Len(current) < Capacity)
      <4>1. /\ buffers' = Append(buffers, current)
            /\ current' = <<count'>>
            /\ next' = FALSE
        BY <2>2, <3>3 DEF Log, AppendLine
      <4>2. /\ buffers' \in Seq(Seq(Lines)) /\ Len(buffers') >= 1
            /\ current' \in Seq(Lines)
        BY <3>1, <4>1 DEF SparesInv
      <4> QED BY <2>2, <3>1, <4>1, <4>2 DEF Log, control, back, SparesInv
    <3> QED BY <3>2, <3>3
  <2>3. CASE Stop \/ Joined
    BY <2>3 DEF Stop, Joined, front, back, SparesInv
  <2>4. CASE Open
    BY <2>4 DEF Open, front, SparesInv
  <2>5. CASE While
    BY <2>5 DEF While, AfterWhile, front, SparesInv
  <2>6. CASE Swap
    <3>1. /\ toWrite' = Append(buffers, current)
          /\ toWrite' \in Seq(Seq(Lines))
          /\ Len(toWrite') = Len(buffers) + 1
          /\ Len(buffers) \in Nat
      BY <2>6 DEF Swap, SparesInv
    <3>2. /\ buffers' \in Seq(Seq(Lines)) /\ current' \in Seq(Lines)
          /\ next' = TRUE /\ new1' = FALSE /\ new2' = next
          /\ pc' = "cut" /\ count' \in 0..MaxLines
      BY <2>6, EmptySeq DEF Swap, control, SparesInv
    <3>3. ~next => Len(buffers) >= 1
      BY DEF SparesInv
    <3>4. Len(toWrite') >= (IF new1' THEN 0 ELSE 1) + (IF new2' THEN 0 ELSE 1)
      BY <3>1, <3>2, <3>3
    <3>5. next \in BOOLEAN
      BY DEF SparesInv
    <3> QED BY <3>1, <3>2, <3>4, <3>5 DEF SparesInv
  <2>7. CASE Cut
    BY <2>7, RoundKeepsTwo DEF Cut, front, SparesInv
  <2>10. CASE Write \/ Flush
    BY <2>10 DEF Write, Flush, front, SparesInv
  <2>8. CASE Recycle
    BY <2>8 DEF Recycle, front, SparesInv
  <2>9. CASE UNCHANGED vars
    BY <2>9 DEF vars, front, back, SparesInv
  <2> QED
    BY <2>1, <2>2, <2>3, <2>4, <2>5, <2>6, <2>7, <2>8, <2>9, <2>10
       DEF Next, Writer
<1> QED BY <1>1, <1>2

\* The spares are where SparesInv says, so threadFunc never moves from a missing
\* buffer, nor takes one back from an empty round.
THEOREM SparesSuffice == Spec => []SparesNeverRunOut
<1>1. SparesInv => SparesNeverRunOut
  BY DEF SparesInv, SparesNeverRunOut
<1> QED BY <1>1, SparesStep, PTL DEF Spec

----------------------------------------------------------------------------
\* The lines of AsyncLogging, wherever they are

\* A line of the buffers bs is in one of them.
LEMMA InLines ==
    ASSUME NEW bs, NEW l
    PROVE  l \in LinesIn(bs) <=> \E i \in DOMAIN bs : \E k \in DOMAIN bs[i] : bs[i][k] = l
BY DEF LinesIn, ToSet

Rising(s) == \A i, j \in DOMAIN s : i < j => s[i] < s[j]
Before(A, B) == \A a \in A, b \in B : a < b

\* The lines of the buffers bs from the one behind number n on.
LinesFrom(bs, n) == UNION {ToSet(bs[i]) : i \in n + 1..Len(bs)}

\* The lines that the next round takes.
Fresh == LinesIn(buffers) \cup ToSet(current)

\* The types, and the place of threadFunc in its round.
RoundInv ==
    /\ file \in Seq(Lines)
    /\ pc \in Pcs
    /\ caller = "before" => pc = "none"
    /\ written \in 0..Len(toWrite)
    /\ dropped \subseteq 1..count
    /\ pc = "cut" => written = 0
    /\ pc \notin {"cut", "write", "recycle"} => written = 0 /\ toWrite = <<>>
    /\ pc = "recycle" => written = Len(toWrite)

\* What is in the file comes before what is still to be written of the round, and
\* that before what has not been swapped out; together they are all lines.
OrderInv ==
    /\ Rising(file) /\ InOrder(toWrite) /\ InOrder(buffers)
    /\ \A j \in DOMAIN current : current[j] = count - Len(current) + j
    /\ Before(ToSet(file), LinesFrom(toWrite, written))
    /\ Before(ToSet(file), Fresh)
    /\ Before(LinesFrom(toWrite, written), Fresh)
    /\ Before(LinesIn(buffers), ToSet(current))
    /\ ToSet(file) \cup LinesFrom(toWrite, written) \cup Fresh = (1..count) \ dropped

\* The backlog has cost older lines only than those that wait for their round.
DroppedInv ==
    /\ Before(dropped, Fresh)
    /\ pc = "cut" => Before(dropped, LinesIn(toWrite))

\* Between the first line of a full buffer and that of the current one lie as many
\* full buffers of lines as there are.
FullInv ==
    /\ Len(current) <= Capacity
    /\ buffers # <<>> =>
          /\ buffers[1] # <<>> /\ current # <<>>
          /\ current[1] = buffers[1][1] + Len(buffers) * Capacity
    /\ pc = "cut" /\ Len(toWrite) > 1 =>
          LET last == toWrite[Len(toWrite)]
          IN  /\ toWrite[1] # <<>> /\ last # <<>>
              /\ last[1] = toWrite[1][1] + (Len(toWrite) - 1) * Capacity

LinesInv == SparesInv /\ RoundInv /\ OrderInv /\ DroppedInv /\ FullInv

\* What a buffer or the file holds when lines are added to it.
LEMMA Adding ==
    ASSUME NEW s \in Seq(Lines), NEW t \in Seq(Lines)
    PROVE  /\ s \o t \in Seq(Lines)
           /\ ToSet(s \o t) = ToSet(s) \cup ToSet(t)
           /\ Rising(s) /\ Rising(t) /\ Before(ToSet(s), ToSet(t)) => Rising(s \o t)
<1> DEFINE st == s \o t
<1>1. /\ st \in Seq(Lines) /\ Len(st) = Len(s) + Len(t)
      /\ Len(s) \in Nat /\ Len(t) \in Nat
      /\ \A i \in 1..Len(s) + Len(t) :
            st[i] = IF i <= Len(s) THEN s[i] ELSE t[i - Len(s)]
  BY ConcatProperties
<1> HIDE DEF st
<1>2. DOMAIN st = 1..Len(s) + Len(t) /\ DOMAIN s = 1..Len(s) /\ DOMAIN t = 1..Len(t)
  BY <1>1
<1>3. \A i \in 1..Len(s) : i \in DOMAIN st /\ st[i] = s[i]
  BY <1>1, <1>2
<1>4. ASSUME NEW i \in 1..Len(t) PROVE Len(s) + i \in DOMAIN st /\ st[Len(s) + i] = t[i]
  <2>1. /\ Len(s) + i \in 1..Len(s) + Len(t) /\ ~(Len(s) + i <= Len(s))
        /\ (Len(s) + i) - Len(s) = i
    BY <1>1
  <2> QED BY <1>1, <1>2, <2>1
<1>5. ASSUME NEW i \in DOMAIN st
      PROVE  \/ i \in 1..Len(s)
             \/ i - Len(s) \in 1..Len(t) /\ Len(s) + (i - Len(s)) = i
  BY <1>1, <1>2
<1>6. ToSet(st) = ToSet(s) \cup ToSet(t)
  <2>1. ToSet(s) \cup ToSet(t) \subseteq ToSet(st)
    BY <1>2, <1>3, <1>4 DEF ToSet
  <2>2. ASSUME NEW i \in DOMAIN st PROVE st[i] \in ToSet(s) \cup ToSet(t)
    BY <1>2, <1>3, <1>4, <1>5 DEF ToSet
  <2> QED BY <2>1, <2>2 DEF ToSet
<1>7. ASSUME Rising(s), Rising(t), Before(ToSet(s), ToSet(t)) PROVE Rising(st)
  <2> SUFFICES ASSUME NEW i \in DOMAIN st, NEW j \in DOMAIN st, i < j PROVE st[i] < st[j]
    BY DEF Rising
  <2>1. CASE i \in 1..Len(s) /\ j \in 1..Len(s)
    BY <1>2, <1>3, <1>7, <2>1 DEF Rising
  <2>2. CASE i \in 1..Len(s) /\ j \notin 1..Len(s)
    <3>1. j - Len(s) \in 1..Len(t) /\ st[j] = t[j - Len(s)] /\ st[i] = s[i]
      BY <1>3, <1>4, <1>5, <2>2
    <3>2. s[i] \in ToSet(s) /\ t[j - Len(s)] \in ToSet(t)
      BY <1>2, <2>2, <3>1 DEF ToSet
    <3> QED BY <1>7, <3>1, <3>2 DEF Before
  <2>3. CASE i \notin 1..Len(s)
    <3>1. /\ i - Len(s) \in 1..Len(t) /\ st[i] = t[i - Len(s)]
          /\ j \notin 1..Len(s) /\ i - Len(s) < j - Len(s)
      BY <1>1, <1>2, <1>4, <1>5, <2>3
    <3>2. j - Len(s) \in 1..Len(t) /\ st[j] = t[j - Len(s)]
      BY <1>4, <1>5, <3>1
    <3> QED BY <1>2, <1>7, <3>1, <3>2 DEF Rising
  <2> QED BY <2>1, <2>2, <2>3
<1> QED BY <1>1, <1>6, <1>7 DEF st

\* The buffers of one list behind those of another.
LEMMA MoreBuffers ==
    ASSUME NEW bs \in Seq(Seq(Lines)), NEW cs \in Seq(Seq(Lines))
    PROVE  /\ bs \o cs \in Seq(Seq(Lines))
           /\ LinesIn(bs \o cs) = LinesIn(bs) \cup LinesIn(cs)
           /\ InOrder(bs) /\ InOrder(cs) /\ Before(LinesIn(bs), LinesIn(cs)) =>
                 InOrder(bs \o cs)
<1> DEFINE new == bs \o cs
           n == Len(bs)
           m == Len(cs)
<1>1. /\ new \in Seq(Seq(Lines)) /\ n \in Nat /\ m \in Nat
      /\ DOMAIN bs = 1..n /\ DOMAIN cs = 1..m /\ DOMAIN new = 1..n + m
      /\ \A i \in 1..n + m : new[i] = IF i <= n THEN bs[i] ELSE cs[i - n]
  BY ConcatProperties
<1> HIDE DEF new, n, m
<1>2. ASSUME NEW i \in DOMAIN bs PROVE i \in DOMAIN new /\ new[i] = bs[i]
  BY <1>1
<1>3. ASSUME NEW i \in DOMAIN cs PROVE n + i \in DOMAIN new /\ new[n + i] = cs[i]
  <2>1. n + i \in 1..n + m /\ ~(n + i <= n) /\ (n + i) - n = i
    BY <1>1
  <2> QED BY <1>1, <2>1
<1>4. ASSUME NEW i \in DOMAIN new
      PROVE  \/ i \in DOMAIN bs /\ new[i] = bs[i]
             \/ i \notin DOMAIN bs /\ i - n \in DOMAIN cs /\ new[i] = cs[i - n]
  <2>1. CASE i <= n
    BY <1>1, <2>1
  <2>2. CASE ~(i <= n)
    <3>1. i \in 1..n + m
      BY <1>1
    <3>2. i \notin 1..n /\ i - n \in 1..m /\ new[i] = cs[i - n]
      BY <1>1, <2>2, <3>1
    <3> QED BY <1>1, <3>2
  <2> QED BY <2>1, <2>2
<1>5. ASSUME NEW l PROVE l \in LinesIn(new) <=> l \in LinesIn(bs) \/ l \in LinesIn(cs)
  <2>1. ASSUME l \in LinesIn(new) PROVE l \in LinesIn(bs) \/ l \in LinesIn(cs)
    <3>1. PICK i \in DOMAIN new : \E k \in DOMAIN new[i] : new[i][k] = l
      BY <2>1, InLines
    <3>2. CASE i \in DOMAIN bs /\ new[i] = bs[i]
      BY <3>1, <3>2, InLines
    <3>3. CASE i - n \in DOMAIN cs /\ new[i] = cs[i - n]
      BY <3>1, <3>3, InLines
    <3> QED BY <1>4, <3>2, <3>3
  <2>2. ASSUME l \in LinesIn(bs) PROVE l \in LinesIn(new)
    <3>1. PICK i \in DOMAIN bs : \E k \in DOMAIN bs[i] : bs[i][k] = l
      BY <2>2, InLines
    <3> QED BY <1>2, <3>1, InLines
  <2>3. ASSUME l \in LinesIn(cs) PROVE l \in LinesIn(new)
    <3>1. PICK i \in DOMAIN cs : \E k \in DOMAIN cs[i] : cs[i][k] = l
      BY <2>3, InLines
    <3> QED BY <1>3, <3>1, InLines
  <2> QED BY <2>1, <2>2, <2>3
<1>6. ASSUME InOrder(bs), InOrder(cs), Before(LinesIn(bs), LinesIn(cs)) PROVE InOrder(new)
  <2> SUFFICES ASSUME NEW i \in DOMAIN new, NEW j \in DOMAIN new,
                      NEW k \in DOMAIN new[i], NEW l \in DOMAIN new[j],
                      i < j \/ (i = j /\ k < l)
               PROVE  new[i][k] < new[j][l]
    BY DEF InOrder
  <2>1. CASE i \in DOMAIN bs /\ j \in DOMAIN bs
    BY <1>2, <1>6, <2>1 DEF InOrder
  <2>2. CASE i \in DOMAIN bs /\ j \notin DOMAIN bs
    <3>1. new[i] = bs[i] /\ j - n \in DOMAIN cs /\ new[j] = cs[j - n]
      BY <1>4, <2>2
    <3>2. bs[i][k] \in LinesIn(bs)
      BY <2>2, <3>1, InLines
    <3>3. cs[j - n][l] \in LinesIn(cs)
      BY <3>1, InLines
    <3> QED BY <1>6, <3>1, <3>2, <3>3 DEF Before
  <2>3. CASE i \notin DOMAIN bs
    <3>1. i - n \in DOMAIN cs /\ new[i] = cs[i - n]
      BY <1>4, <2>3
    <3>2. j \notin DOMAIN bs /\ (i - n < j - n \/ (i - n = j - n /\ k < l))
      BY <1>1, <2>3
    <3>3. j - n \in DOMAIN cs /\ new[j] = cs[j - n]
      BY <1>4, <3>2
    <3> QED BY <1>6, <3>1, <3>2, <3>3 DEF InOrder
  <2> QED BY <2>1, <2>2, <2>3
<1> QED BY <1>1, <1>5, <1>6 DEF new

\* One buffer.
LEMMA OneBuffer ==
    ASSUME NEW b \in Seq(Lines)
    PROVE  /\ <<b>> \in Seq(Seq(Lines))
           /\ LinesIn(<<b>>) = ToSet(b)
           /\ Rising(b) => InOrder(<<b>>)
<1>1. DOMAIN <<b>> = {1} /\ <<b>>[1] = b
  OBVIOUS
<1> DEFINE bs == <<b>>
<1> HIDE DEF bs
<1>2. DOMAIN bs = {1} /\ bs[1] = b
  BY <1>1 DEF bs
<1>3. LinesIn(bs) = ToSet(b)
  BY <1>2 DEF LinesIn
<1>4. Rising(b) => InOrder(bs)
  BY <1>2 DEF InOrder, Rising
<1> QED BY <1>3, <1>4 DEF bs

\* One buffer more.
LEMMA AnotherBuffer ==
    ASSUME NEW bs \in Seq(Seq(Lines)), NEW b \in Seq(Lines)
    PROVE  /\ Append(bs, b) \in Seq(Seq(Lines))
           /\ LinesIn(Append(bs, b)) = LinesIn(bs) \cup ToSet(b)
           /\ InOrder(bs) /\ Rising(b) /\ Before(LinesIn(bs), ToSet(b)) =>
                 InOrder(Append(bs, b))
<1>1. Append(bs, b) = bs \o <<b>>
  BY AppendIsConcat
<1> QED BY <1>1, OneBuffer, MoreBuffers

\* The buffers that are still to be written, and the next of them.
LEMMA Remaining ==
    ASSUME NEW bs \in Seq(Seq(Lines)), NEW n \in 0..Len(bs)
    PROVE  /\ LinesFrom(bs, 0) = LinesIn(bs)
           /\ LinesFrom(bs, Len(bs)) = {}
           /\ LinesFrom(bs, n) \subseteq LinesIn(bs)
           /\ n < Len(bs) =>
                 /\ bs[n + 1] \in Seq(Lines)
                 /\ LinesFrom(bs, n) = ToSet(bs[n + 1]) \cup LinesFrom(bs, n + 1)
           /\ n < Len(bs) /\ InOrder(bs) =>
                 /\ Rising(bs[n + 1])
                 /\ Before(ToSet(bs[n + 1]), LinesFrom(bs, n + 1))
<1>1. Len(bs) \in Nat /\ DOMAIN bs = 1..Len(bs) /\ n \in Nat /\ n <= Len(bs)
  OBVIOUS
<1>2. LinesFrom(bs, 0) = LinesIn(bs)
  BY <1>1 DEF LinesFrom, LinesIn
<1>3. LinesFrom(bs, Len(bs)) = {}
  BY <1>1 DEF LinesFrom
<1>4. n + 1..Len(bs) \subseteq DOMAIN bs
  BY <1>1
<1>5. LinesFrom(bs, n) \subseteq LinesIn(bs)
  BY <1>4 DEF LinesFrom, LinesIn
<1>6. ASSUME n < Len(bs)
      PROVE  /\ bs[n + 1] \in Seq(Lines) /\ n + 1 \in DOMAIN bs
             /\ n + 1..Len(bs) = {n + 1} \cup (n + 1 + 1..Len(bs))
  BY <1>1, <1>6
<1>7. ASSUME n < Len(bs)
      PROVE  LinesFrom(bs, n) = ToSet(bs[n + 1]) \cup LinesFrom(bs, n + 1)
  BY <1>6, <1>7 DEF LinesFrom
<1>8. ASSUME n < Len(bs), InOrder(bs)
      PROVE  /\ Rising(bs[n + 1])
             /\ Before(ToSet(bs[n + 1]), LinesFrom(bs, n + 1))
  <2>1. Rising(bs[n + 1])
    BY <1>6, <1>8 DEF InOrder, Rising
  <2>2. ASSUME NEW a \in ToSet(bs[n + 1]), NEW z \in LinesFrom(bs, n + 1) PROVE a < z
    <3>1. PICK k \in DOMAIN bs[n + 1] : a = bs[n + 1][k]
      BY DEF ToSet
    <3>2. PICK j \in n + 1 + 1..Len(bs) : \E l \in DOMAIN bs[j] : z = bs[j][l]
      BY DEF LinesFrom, ToSet
    <3>3. j \in DOMAIN bs /\ n + 1 < j
      BY <1>1
    <3> QED BY <1>6, <1>8, <3>1, <3>2, <3>3 DEF InOrder
  <2> QED BY <2>1, <2>2 DEF Before
<1> QED BY <1>2, <1>3, <1>5, <1>6, <1>7, <1>8

\* What a cut leaves of a round is part of it, and in order.
LEMMA RoundIsPart ==
    ASSUME toWrite \in Seq(Seq(Lines))
    PROVE  /\ LinesIn(Round) \subseteq LinesIn(toWrite)
           /\ InOrder(toWrite) => InOrder(Round)
<1>1. \A i \in DOMAIN Round : i \in DOMAIN toWrite /\ Round[i] = toWrite[i]
  <2>1. CASE Len(toWrite) > MaxBacklog
    <3>1. Kept \in Nat /\ Kept <= Len(toWrite) /\ Round = SubSeq(toWrite, 1, Kept)
      BY <2>1, SizesAssumption DEF Round
    <3> QED BY <3>1
  <2>2. CASE ~(Len(toWrite) > MaxBacklog)
    BY <2>2 DEF Round
  <2> QED BY <2>1, <2>2
<1>2. LinesIn(Round) \subseteq LinesIn(toWrite)
  BY <1>1, InLines
<1>3. InOrder(toWrite) => InOrder(Round)
  BY <1>1 DEF InOrder
<1> QED BY <1>2, <1>3

\* A line appended to the current buffer.
LEMMA OneLine ==
    ASSUME NEW s \in Seq(Lines), NEW c \in Lines
    PROVE  /\ Append(s, c) \in Seq(Lines) /\ Len(Append(s, c)) = Len(s) + 1
           /\ ToSet(Append(s, c)) = ToSet(s) \cup {c}
           /\ Append(s, c)[1] = IF s = <<>> THEN c ELSE s[1]
           /\ \A j \in DOMAIN Append(s, c) :
                 \/ j \in DOMAIN s /\ Append(s, c)[j] = s[j]
                 \/ j = Len(s) + 1 /\ Append(s, c)[j] = c
<1> DEFINE new == Append(s, c)
<1>1. /\ new \in Seq(Lines) /\ Len(new) = Len(s) + 1 /\ Len(s) \in Nat
      /\ DOMAIN s = 1..Len(s) /\ DOMAIN new = 1..Len(s) + 1
      /\ new[Len(s) + 1] = c /\ \A j \in 1..Len(s) : new[j] = s[j]
  BY AppendProperties
<1> HIDE DEF new
<1>2. ASSUME NEW j \in DOMAIN new
      PROVE  \/ j \in DOMAIN s /\ new[j] = s[j]
             \/ j = Len(s) + 1 /\ new[j] = c
  BY <1>1
<1>3. \A j \in DOMAIN s : j \in DOMAIN new
  BY <1>1
<1>4. Len(s) + 1 \in DOMAIN new
  BY <1>1
<1>5. ToSet(new) = ToSet(s) \cup {c}
  BY <1>1, <1>2, <1>3, <1>4 DEF ToSet
<1>6. new[1] = IF s = <<>> THEN c ELSE s[1]
  <2>1. CASE s = <<>>
    BY <1>1, <2>1
  <2>2. CASE s # <<>>
    BY <1>1, <2>2
  <2> QED BY <2>1, <2>2
<1> QED BY <1>1, <1>2, <1>5, <1>6 DEF new

\* The lines of the current buffer rise.
LEMMA CurrentRises ==
    ASSUME current \in Seq(Lines), count \in 0..MaxLines,
           \A j \in DOMAIN current : current[j] = count - Len(current) + j
    PROVE  Rising(current)
BY SizesAssumption DEF Rising

\* A line appended to a buffer with room.
LEMMA LogFits ==
    ASSUME LinesInv, SparesInv', Log, Len(current) < Capacity
    PROVE  LinesInv'
<1> DEFINE c == count + 1
<1>1. /\ count' = c /\ c \in Lines /\ count \in Nat /\ current' = Append(current, c)
      /\ UNCHANGED <<buffers, back, caller>>
      /\ current \in Seq(Lines) /\ caller # "before"
  BY SizesAssumption DEF Log, AppendLine, control, Lines, LinesInv, SparesInv
<1>2. UNCHANGED <<toWrite, written, file, dropped, pc>>
  BY <1>1 DEF back
<1>3. Fresh' = Fresh \cup {c}
  BY <1>1, OneLine DEF Fresh
<1>4. ToSet(file) \cup LinesFrom(toWrite, written) \cup Fresh \subseteq 1..count
  BY DEF LinesInv, OrderInv
<1> USE DEF LinesInv
<1>5. RoundInv'
  <2>1. 1..count \subseteq 1..count'
    BY <1>1
  <2> QED BY <1>1, <1>2, <2>1 DEF RoundInv
<1>6. OrderInv'
  <2>1. \A j \in DOMAIN current' : current'[j] = count' - Len(current') + j
    <3>1. \A j \in DOMAIN current : current[j] = count - Len(current) + j
      BY DEF OrderInv
    <3>2. Len(current') = Len(current) + 1 /\ Len(current) \in Nat
      BY <1>1, OneLine
    <3> SUFFICES ASSUME NEW j \in DOMAIN current'
                 PROVE  current'[j] = count' - Len(current') + j
      OBVIOUS
    <3>3. CASE j \in DOMAIN current /\ current'[j] = current[j]
      <4>1. j \in Nat
        BY <1>1, <3>3
      <4> QED BY <1>1, <3>1, <3>2, <3>3, <4>1
    <3>4. CASE j = Len(current) + 1 /\ current'[j] = c
      BY <1>1, <3>2, <3>4
    <3> QED BY <1>1, <3>3, <3>4, OneLine
  <2>2. \A l \in 1..count : l < c
    BY <1>1
  <2>3. Before(ToSet(file), Fresh')
    BY <1>3, <1>4, <2>2 DEF OrderInv, Before
  <2>4. Before(LinesFrom(toWrite, written), Fresh')
    BY <1>3, <1>4, <2>2 DEF OrderInv, Before
  <2>5. Before(LinesIn(buffers), ToSet(current'))
    <3>1. ToSet(current') = ToSet(current) \cup {c}
      BY <1>1, OneLine
    <3> QED BY <1>4, <2>2, <3>1 DEF OrderInv, Before, Fresh
  <2>6. ToSet(file) \cup LinesFrom(toWrite, written) \cup Fresh' = (1..count') \ dropped
    <3>1. (1..c) = (1..count) \cup {c} /\ c \notin 1..count
      BY <1>1
    <3>2. c \notin dropped
      BY <3>1 DEF RoundInv
    <3> QED BY <1>1, <1>3, <3>1, <3>2 DEF OrderInv
  <2> QED BY <1>1, <1>2, <2>1, <2>3, <2>4, <2>5, <2>6 DEF OrderInv
<1>7. DroppedInv'
  <2>1. \A l \in dropped : l < c
    BY <1>1 DEF RoundInv
  <2> QED BY <1>2, <1>3, <2>1 DEF DroppedInv, Before
<1>8. FullInv'
  <2>1. Len(current') <= Capacity
    BY <1>1, OneLine, SizesAssumption
  <2>2. current' # <<>>
    BY <1>1, OneLine
  <2>3. current # <<>> => current'[1] = current[1]
    BY <1>1, OneLine
  <2> QED BY <1>1, <1>2, <2>1, <2>2, <2>3 DEF FullInv
<1> QED BY <1>5, <1>6, <1>7, <1>8

\* A line that does not fit: the full buffer is queued.
LEMMA LogQueues ==
    ASSUME LinesInv, SparesInv', Log, ~(Len(current) < Capacity)
    PROVE  LinesInv'
<1> DEFINE c == count + 1
<1>1. /\ count' = c /\ c \in Lines /\ count \in Nat /\ current' = <<c>>
      /\ buffers' = Append(buffers, current)
      /\ UNCHANGED <<back, caller>>
      /\ current \in Seq(Lines) /\ buffers \in Seq(Seq(Lines)) /\ caller # "before"
  BY SizesAssumption DEF Log, AppendLine, control, Lines, LinesInv, SparesInv
<1>2. UNCHANGED <<toWrite, written, file, dropped, pc>>
  BY <1>1 DEF back
<1>3. Rising(current)
  BY <1>1, CurrentRises DEF LinesInv, OrderInv, SparesInv
<1>4. ToSet(current') = {c}
  BY <1>1 DEF ToSet
<1>5. LinesIn(buffers') = LinesIn(buffers) \cup ToSet(current)
  BY <1>1, AnotherBuffer
<1>6. Fresh' = Fresh \cup {c}
  BY <1>4, <1>5 DEF Fresh
<1>7. ToSet(file) \cup LinesFrom(toWrite, written) \cup Fresh \subseteq 1..count
  BY DEF LinesInv, OrderInv
<1> USE DEF LinesInv
<1>8. RoundInv'
  <2>1. 1..count \subseteq 1..count'
    BY <1>1
  <2> QED BY <1>1, <1>2, <2>1 DEF RoundInv
<1>9. OrderInv'
  <2>1. \A j \in DOMAIN current' : current'[j] = count' - Len(current') + j
    <3>1. DOMAIN current' = {1} /\ Len(current') = 1 /\ current'[1] = c
      BY <1>1
    <3> QED BY <1>1, <3>1
  <2>2. \A l \in 1..count : l < c
    BY <1>1
  <2>3. Before(ToSet(file), Fresh')
    BY <1>6, <1>7, <2>2 DEF OrderInv, Before
  <2>4. Before(LinesFrom(toWrite, written), Fresh')
    BY <1>6, <1>7, <2>2 DEF OrderInv, Before
  <2>5. Before(LinesIn(buffers'), ToSet(current'))
    BY <1>4, <1>5, <1>7, <2>2 DEF Before, Fresh
  <2>6. InOrder(buffers')
    BY <1>1, <1>3, AnotherBuffer DEF OrderInv
  <2>7. ToSet(file) \cup LinesFrom(toWrite, written) \cup Fresh' = (1..count') \ dropped
    <3>1. (1..c) = (1..count) \cup {c} /\ c \notin 1..count
      BY <1>1
    <3>2. c \notin dropped
      BY <3>1 DEF RoundInv
    <3> QED BY <1>1, <1>6, <3>1, <3>2 DEF OrderInv
  <2> QED BY <1>2, <2>1, <2>3, <2>4, <2>5, <2>6, <2>7 DEF OrderInv
<1>10. DroppedInv'
  <2>1. \A l \in dropped : l < c
    BY <1>1 DEF RoundInv
  <2> QED BY <1>2, <1>6, <2>1 DEF DroppedInv, Before
<1>11. FullInv'
  <2>1. Len(current) = Capacity /\ Capacity \in Nat /\ Capacity >= 1
    BY <1>1, SizesAssumption DEF FullInv
  <2>2. current # <<>> /\ current[1] = c - Capacity /\ current[1] \in Int
    <3>1. 1 \in DOMAIN current
      BY <1>1, <2>1
    <3>2. current[1] = count - Len(current) + 1
      BY <3>1 DEF OrderInv
    <3> QED BY <1>1, <2>1, <3>1, <3>2
  <2>3. Len(current') <= Capacity /\ current' # <<>> /\ current'[1] = c
    BY <1>1, <2>1
  <2>4. Len(buffers') = Len(buffers) + 1 /\ Len(buffers) \in Nat
    BY <1>1
  <2>5. buffers'[1] # <<>> /\ current'[1] = buffers'[1][1] + Len(buffers') * Capacity
    <3>1. CASE buffers = <<>>
      <4>1. buffers'[1] = current /\ Len(buffers') = 1
        BY <1>1, <3>1
      <4>2. Len(buffers') * Capacity = Capacity
        BY <2>1, <4>1
      <4> QED BY <1>1, <2>1, <2>2, <2>3, <4>1, <4>2
    <3>2. CASE buffers # <<>>
      <4>1. buffers'[1] = buffers[1]
        BY <1>1, <3>2
      <4>2. (Len(buffers) + 1) * Capacity = Len(buffers) * Capacity + Capacity
        BY <2>1, <2>4
      <4>3. current[1] = buffers[1][1] + Len(buffers) * Capacity /\ buffers[1] # <<>>
        BY <3>2 DEF FullInv
      <4>4. buffers[1][1] \in Int
        <5>1. buffers[1] \in Seq(Lines)
          BY <1>1, <3>2
        <5>2. 1 \in DOMAIN buffers[1]
          BY <4>3, <5>1
        <5>3. buffers[1][1] \in Lines
          BY <5>1, <5>2
        <5> QED BY <5>3, SizesAssumption DEF Lines
      <4> DEFINE full == Len(buffers) * Capacity
      <4>5. full \in Int
        BY <2>1, <2>4
      <4> HIDE DEF full
      <4>6. c = buffers[1][1] + (full + Capacity)
        BY <1>1, <2>1, <2>2, <4>3, <4>4, <4>5 DEF full
      <4> QED BY <2>3, <2>4, <4>1, <4>2, <4>3, <4>6 DEF full
    <3> QED BY <3>1, <3>2
  <2> QED BY <1>2, <2>3, <2>5 DEF FullInv
<1> QED BY <1>8, <1>9, <1>10, <1>11

\* The swap: the buffers and the current one become the round.
LEMMA SwapStep == LinesInv /\ SparesInv' /\ Swap => LinesInv'
<1> SUFFICES ASSUME LinesInv, SparesInv', Swap PROVE LinesInv'
  OBVIOUS
<1> USE DEF LinesInv
<1>1. /\ pc = "swap" /\ pc' = "cut"
      /\ toWrite' = Append(buffers, current) /\ buffers' = toWrite /\ current' = <<>>
      /\ UNCHANGED <<caller, count, written, file, dropped>>
  BY DEF Swap, control
<1>2. /\ written = 0 /\ toWrite = <<>>
      /\ buffers \in Seq(Seq(Lines)) /\ current \in Seq(Lines) /\ count \in Nat
      /\ Len(buffers) \in Nat
  BY <1>1, SizesAssumption DEF RoundInv, SparesInv
<1>3. /\ toWrite' \in Seq(Seq(Lines)) /\ LinesIn(toWrite') = Fresh
      /\ Len(toWrite') = Len(buffers) + 1
  BY <1>1, <1>2, AnotherBuffer DEF Fresh
<1>4. InOrder(toWrite')
  BY <1>1, <1>2, AnotherBuffer, CurrentRises DEF OrderInv, SparesInv
<1>5. LinesFrom(toWrite', 0) = Fresh
  <2>1. 0 \in 0..Len(toWrite')
    BY <1>2, <1>3
  <2> QED BY <1>3, <2>1, Remaining
<1>6. LinesFrom(toWrite, 0) = {}
  BY <1>2 DEF LinesFrom
<1>7. LinesIn(buffers') = {} /\ ToSet(current') = {} /\ Fresh' = {}
  BY <1>1, <1>2 DEF LinesIn, ToSet, Fresh
<1>8. RoundInv'
  BY <1>1, <1>2, <1>3 DEF RoundInv, Pcs
<1>9. OrderInv'
  <2>1. /\ Rising(file) /\ Before(ToSet(file), Fresh)
        /\ ToSet(file) \cup Fresh = (1..count) \ dropped
    BY <1>2, <1>6 DEF OrderInv
  <2>2. InOrder(buffers')
    BY <1>1, <1>2 DEF InOrder
  <2>3. \A j \in DOMAIN current' : current'[j] = count' - Len(current') + j
    BY <1>1
  <2>4. Before(ToSet(file), {}) /\ Before(Fresh, {}) /\ Before({}, {})
    BY DEF Before
  <2>5. LinesFrom(toWrite', written') = Fresh
    BY <1>1, <1>2, <1>5
  <2> QED BY <1>1, <1>4, <1>7, <2>1, <2>2, <2>3, <2>4, <2>5 DEF OrderInv
<1>10. DroppedInv'
  BY <1>1, <1>3, <1>7 DEF DroppedInv, Before
<1>11. FullInv'
  <2>1. Len(current') <= Capacity /\ buffers' = <<>>
    BY <1>1, <1>2, SizesAssumption
  <2>2. ASSUME Len(toWrite') > 1
        PROVE  /\ toWrite'[1] # <<>> /\ toWrite'[Len(toWrite')] # <<>>
               /\ toWrite'[Len(toWrite')][1] =
                     toWrite'[1][1] + (Len(toWrite') - 1) * Capacity
    <3>1. buffers # <<>> /\ toWrite'[1] = buffers[1] /\ toWrite'[Len(toWrite')] = current
      BY <1>1, <1>2, <1>3, <2>2
    <3>2. Len(toWrite') - 1 = Len(buffers)
      BY <1>2, <1>3
    <3> QED BY <3>1, <3>2 DEF FullInv
  <2> QED BY <2>1, <2>2 DEF FullInv
<1> QED BY <1>8, <1>9, <1>10, <1>11

\* The cut: what it takes from the round it adds to the lines dropped.
LEMMA CutStep == LinesInv /\ SparesInv' /\ Cut => LinesInv'
<1> SUFFICES ASSUME LinesInv, SparesInv', Cut PROVE LinesInv'
  OBVIOUS
<1> USE DEF LinesInv
<1>1. /\ pc = "cut" /\ pc' = "write"
      /\ toWrite' = Round
      /\ dropped' = dropped \cup (LinesIn(toWrite) \ LinesIn(Round))
      /\ UNCHANGED <<caller, count, written, file, buffers, current>>
  BY DEF Cut, control, front
<1>2. /\ written = 0 /\ toWrite \in Seq(Seq(Lines)) /\ toWrite' \in Seq(Seq(Lines))
  BY <1>1 DEF RoundInv, SparesInv
<1>3. 0 \in 0..Len(toWrite) /\ 0 \in 0..Len(toWrite')
  BY <1>2
<1>4. /\ LinesFrom(toWrite, written) = LinesIn(toWrite)
      /\ LinesFrom(toWrite', written') = LinesIn(Round)
  BY <1>1, <1>2, <1>3, Remaining
<1>5. LinesIn(Round) \subseteq LinesIn(toWrite) /\ InOrder(toWrite')
  BY <1>1, <1>2, RoundIsPart DEF OrderInv
<1>6. Fresh' = Fresh
  BY <1>1 DEF Fresh
<1>7. /\ Before(ToSet(file), LinesIn(toWrite)) /\ Before(LinesIn(toWrite), Fresh)
      /\ Before(ToSet(file), Fresh)
      /\ ToSet(file) \cup LinesIn(toWrite) \cup Fresh = (1..count) \ dropped
  BY <1>4 DEF OrderInv
<1>8. LinesIn(toWrite) \subseteq 1..count
  BY <1>7
<1>9. \A l \in LinesIn(toWrite) : l \notin ToSet(file) /\ l \notin Fresh
  <2>1. \A l \in LinesIn(toWrite) : ~(l < l)
    BY <1>8
  <2> QED BY <1>7, <2>1 DEF Before
<1>10. RoundInv'
  BY <1>1, <1>2, <1>3, <1>8 DEF RoundInv, Pcs
<1>11. OrderInv'
  <2>1. Before(ToSet(file), LinesIn(Round)) /\ Before(LinesIn(Round), Fresh)
    BY <1>5, <1>7 DEF Before
  <2>2. ToSet(file) \cup LinesIn(Round) \cup Fresh = (1..count) \ dropped'
    BY <1>1, <1>5, <1>7, <1>9
  <2> QED BY <1>1, <1>4, <1>5, <1>6, <1>7, <2>1, <2>2 DEF OrderInv
<1>12. DroppedInv'
  BY <1>1, <1>6, <1>7 DEF DroppedInv, Before
<1>13. FullInv'
  BY <1>1 DEF FullInv
<1> QED BY <1>10, <1>11, <1>12, <1>13

\* The next buffer of the round moves to the file.
LEMMA WriteStep == LinesInv /\ SparesInv' /\ Write => LinesInv'
<1> SUFFICES ASSUME LinesInv, SparesInv', Write PROVE LinesInv'
  OBVIOUS
<1> USE DEF LinesInv
<1> DEFINE b == toWrite[written + 1]
<1>1. /\ pc = "write" /\ written < Len(toWrite)
      /\ file' = file \o b
      /\ written' = written + 1
      /\ UNCHANGED <<pc, caller, count, dropped, toWrite, buffers, current>>
  BY DEF Write, control, front
<1>2. written \in 0..Len(toWrite) /\ toWrite \in Seq(Seq(Lines)) /\ file \in Seq(Lines)
  BY DEF RoundInv, SparesInv
<1>3. /\ b \in Seq(Lines) /\ Rising(b)
      /\ LinesFrom(toWrite, written) = ToSet(b) \cup LinesFrom(toWrite, written')
      /\ Before(ToSet(b), LinesFrom(toWrite, written'))
  BY <1>1, <1>2, Remaining DEF OrderInv
<1>4. written' \in 0..Len(toWrite)
  BY <1>1, <1>2
<1> HIDE DEF b
<1>5. Fresh' = Fresh
  BY <1>1 DEF Fresh
<1>6. Rising(file) /\ Before(ToSet(file), ToSet(b))
  BY <1>3 DEF OrderInv, Before
<1>7. file' \in Seq(Lines) /\ ToSet(file') = ToSet(file) \cup ToSet(b) /\ Rising(file')
  BY <1>1, <1>2, <1>3, <1>6, Adding
<1>8. RoundInv'
  BY <1>1, <1>4, <1>7 DEF RoundInv
<1>9. OrderInv'
  <2>1. Before(ToSet(file'), LinesFrom(toWrite, written'))
    BY <1>3, <1>7 DEF OrderInv, Before
  <2>2. Before(ToSet(file'), Fresh) /\ Before(LinesFrom(toWrite, written'), Fresh)
    BY <1>3, <1>7 DEF OrderInv, Before
  <2>3. ToSet(file') \cup LinesFrom(toWrite, written') \cup Fresh = (1..count) \ dropped
    BY <1>3, <1>7 DEF OrderInv
  <2> QED BY <1>1, <1>5, <1>7, <2>1, <2>2, <2>3 DEF OrderInv
<1>10. DroppedInv'
  BY <1>1, <1>5 DEF DroppedInv
<1>11. FullInv'
  BY <1>1 DEF FullInv
<1> QED BY <1>8, <1>9, <1>10, <1>11

\* The round is over: nothing of it is left to be written.
LEMMA RecycleStep == LinesInv /\ SparesInv' /\ Recycle => LinesInv'
<1> SUFFICES ASSUME LinesInv, SparesInv', Recycle PROVE LinesInv'
  OBVIOUS
<1> USE DEF LinesInv
<1>1. /\ pc = "recycle" /\ pc' = "while" /\ toWrite' = <<>> /\ written' = 0
      /\ UNCHANGED <<caller, count, dropped, file, buffers, current>>
  BY DEF Recycle, control, front
<1>2. written = Len(toWrite) /\ toWrite \in Seq(Seq(Lines))
  BY <1>1 DEF RoundInv, SparesInv
<1>3. LinesFrom(toWrite, written) = {}
  BY <1>2 DEF LinesFrom
<1>4. LinesFrom(toWrite', written') = {} /\ InOrder(toWrite')
  BY <1>1 DEF LinesFrom, InOrder
<1>5. Fresh' = Fresh
  BY <1>1 DEF Fresh
<1>6. RoundInv'
  BY <1>1 DEF RoundInv, Pcs
<1>7. OrderInv'
  BY <1>1, <1>3, <1>4, <1>5 DEF OrderInv
<1>8. DroppedInv' /\ FullInv'
  BY <1>1, <1>5 DEF DroppedInv, FullInv
<1> QED BY <1>6, <1>7, <1>8

\* LinesInv holds at the start, and every step of AsyncLogging keeps it.
LEMMA LinesStep == (Init => LinesInv) /\ (LinesInv /\ [Next]_vars => LinesInv')
<1>1. ASSUME Init PROVE LinesInv
  <2>1. SparesInv
    BY <1>1, SparesStep
  <2>2. /\ file = <<>> /\ toWrite = <<>> /\ buffers = <<>> /\ current = <<>>
        /\ pc = "none" /\ written = 0 /\ count = 0 /\ dropped = {}
    BY <1>1 DEF Init
  <2>3. ToSet(file) = {} /\ LinesFrom(toWrite, written) = {} /\ Fresh = {}
    BY <2>2 DEF ToSet, LinesFrom, Fresh, LinesIn
  <2>4. RoundInv
    BY <2>2, EmptySeq DEF RoundInv, Pcs
  <2>5. OrderInv
    <3>1. /\ Rising(file) /\ InOrder(toWrite) /\ InOrder(buffers)
          /\ \A j \in DOMAIN current : current[j] = count - Len(current) + j
          /\ LinesIn(buffers) = {}
      BY <2>2 DEF Rising, InOrder, LinesIn
    <3> QED BY <2>2, <2>3, <3>1 DEF OrderInv, Before
  <2>6. DroppedInv /\ FullInv
    BY <2>2, SizesAssumption DEF DroppedInv, FullInv, Before
  <2> QED BY <2>1, <2>4, <2>5, <2>6 DEF LinesInv
<1>2. ASSUME LinesInv, [Next]_vars PROVE LinesInv'
  <2>1. SparesInv'
    BY <1>2, SparesStep DEF LinesInv
  <2>2. CASE Log
    BY <1>2, <2>1, <2>2, LogFits, LogQueues
  <2>3. CASE Swap \/ Cut \/ Write \/ Recycle
    BY <1>2, <2>1, <2>3, SwapStep, CutStep, WriteStep, RecycleStep
  <2>4. ASSUME UNCHANGED <<current, buffers, count, toWrite, written, file, dropped>>,
               RoundInv', pc' # "cut"
        PROVE  LinesInv'
    <3>1. Fresh' = Fresh
      BY <2>4 DEF Fresh
    <3> QED BY <1>2, <2>1, <2>4, <3>1 DEF LinesInv, OrderInv, DroppedInv, FullInv
  <2>5. CASE Start \/ Open \/ While
    <3>1. UNCHANGED <<current, buffers, count, toWrite, written, file, dropped>>
      BY <2>5 DEF Start, Open, While, front
    <3>2. /\ pc \in {"none", "open", "while"} /\ pc' \in Pcs /\ pc' # "none"
          /\ pc' \notin {"cut", "write", "recycle"} /\ caller' # "before"
      BY <1>2, <2>5 DEF LinesInv, RoundInv, Start, Open, While, AfterWhile, control, Pcs
    <3>3. RoundInv'
      BY <1>2, <3>1, <3>2 DEF LinesInv, RoundInv
    <3> QED BY <2>4, <3>1, <3>2, <3>3
  <2>6. CASE Flush
    <3>1. UNCHANGED <<current, buffers, count, toWrite, written, file, dropped, caller>>
      BY <2>6 DEF Flush, front, control
    <3>2. RoundInv' /\ pc' # "cut"
      BY <1>2, <2>6, <3>1 DEF LinesInv, RoundInv, Flush, Pcs
    <3> QED BY <2>4, <3>1, <3>2
  <2>7. CASE Stop \/ Joined \/ UNCHANGED vars
    <3>1. UNCHANGED <<current, buffers, count, toWrite, written, file, dropped, pc>>
      BY <2>7 DEF Stop, Joined, vars, front, back
    <3>2. caller' = "before" => caller = "before"
      BY <2>7 DEF Stop, Joined, vars, control
    <3>3. Fresh' = Fresh
      BY <3>1 DEF Fresh
    <3> QED
      BY <1>2, <2>1, <3>1, <3>2, <3>3
         DEF LinesInv, RoundInv, OrderInv, DroppedInv, FullInv
  <2> QED BY <1>2, <2>2, <2>3, <2>5, <2>6, <2>7 DEF Next, Writer
<1> QED BY <1>1, <1>2

\* Every line is where LinesInv says, for any buffers and any backlog.
THEOREM LinesInvariant == Spec => []LinesInv
BY LinesStep, PTL DEF Spec

\* What has not been written of a list of buffers is that list in the same order.
LEMMA RestOfRound ==
    ASSUME NEW bs \in Seq(Seq(Lines)), NEW n \in 0..Len(bs)
    PROVE  /\ SubSeq(bs, n + 1, Len(bs)) \in Seq(Seq(Lines))
           /\ LinesIn(SubSeq(bs, n + 1, Len(bs))) = LinesFrom(bs, n)
           /\ InOrder(bs) => InOrder(SubSeq(bs, n + 1, Len(bs)))
<1> DEFINE m == Len(bs)
           rest == SubSeq(bs, n + 1, m)
<1>1. m \in Nat /\ DOMAIN bs = 1..m /\ n \in Nat /\ n <= m
  OBVIOUS
<1>2. ASSUME NEW i \in n + 1..m PROVE i \in DOMAIN bs /\ bs[i] \in Seq(Lines)
  <2> HIDE DEF m
  <2>1. i \in DOMAIN bs
    BY <1>1
  <2> QED BY <2>1
<1>3. /\ rest \in Seq(Seq(Lines))
      /\ Len(rest) = IF n + 1 <= m THEN m - (n + 1) + 1 ELSE 0
      /\ \A i \in 1..m - (n + 1) + 1 : rest[i] = bs[n + 1 + i - 1]
  <2> HIDE DEF m
  <2> QED BY <1>1, <1>2, SubSeqProperties
<1> HIDE DEF rest, m
<1>4. Len(rest) = m - n /\ m - (n + 1) + 1 = m - n /\ DOMAIN rest = 1..Len(rest)
  BY <1>1, <1>3
<1>5. ASSUME NEW i \in DOMAIN rest
      PROVE  i \in Nat /\ n + i \in n + 1..m /\ rest[i] = bs[n + i]
  <2>1. i \in 1..m - n
    BY <1>4
  <2>2. i \in Nat /\ n + i \in n + 1..m /\ n + 1 + i - 1 = n + i
    BY ONLY <1>1, <2>1
  <2> QED BY <1>3, <1>4, <2>1, <2>2
<1>6. ASSUME NEW i \in n + 1..m PROVE i - n \in DOMAIN rest /\ rest[i - n] = bs[i]
  <2>1. i - n \in 1..m - n /\ n + (i - n) = i
    BY <1>1
  <2> QED BY <1>4, <1>5, <2>1
<1>7. ASSUME NEW l PROVE l \in LinesIn(rest) <=> l \in LinesFrom(bs, n)
  <2>1. ASSUME l \in LinesIn(rest) PROVE l \in LinesFrom(bs, n)
    <3>1. PICK i \in DOMAIN rest : l \in ToSet(rest[i])
      BY <2>1 DEF LinesIn
    <3> QED BY <1>5, <3>1 DEF LinesFrom, m
  <2>2. ASSUME l \in LinesFrom(bs, n) PROVE l \in LinesIn(rest)
    <3>1. PICK i \in n + 1..m : l \in ToSet(bs[i])
      BY <2>2 DEF LinesFrom, m
    <3> QED BY <1>6, <3>1 DEF LinesIn
  <2> QED BY <2>1, <2>2
<1>8. ASSUME InOrder(bs) PROVE InOrder(rest)
  <2> SUFFICES ASSUME NEW i \in DOMAIN rest, NEW j \in DOMAIN rest,
                      NEW k \in DOMAIN rest[i], NEW l \in DOMAIN rest[j],
                      i < j \/ (i = j /\ k < l)
               PROVE  rest[i][k] < rest[j][l]
    BY DEF InOrder
  <2>1. /\ rest[i] = bs[n + i] /\ i \in Nat /\ n + i \in DOMAIN bs
        /\ rest[j] = bs[n + j] /\ j \in Nat /\ n + j \in DOMAIN bs
    BY <1>2, <1>5
  <2>2. i < j => n + i < n + j
    BY <1>1, <2>1
  <2> QED BY <1>8, <2>1, <2>2 DEF InOrder
<1> QED BY <1>3, <1>7, <1>8 DEF rest, m

\* From LinesInv: once and in order, every line is in the file, in the round, in a
\* full buffer or in the current one, or dropped.
LEMMA LinesAreAccountedFor == LinesInv => LinesAccountedFor
<1> SUFFICES ASSUME LinesInv PROVE LinesAccountedFor
  OBVIOUS
<1> DEFINE rest == SubSeq(toWrite, written + 1, Len(toWrite))
           head == <<file>> \o rest
           body == head \o buffers
<1>1. /\ file \in Seq(Lines) /\ current \in Seq(Lines) /\ buffers \in Seq(Seq(Lines))
      /\ toWrite \in Seq(Seq(Lines)) /\ written \in 0..Len(toWrite)
      /\ Rising(current)
  BY CurrentRises DEF LinesInv, SparesInv, RoundInv, OrderInv
<1>2. /\ rest \in Seq(Seq(Lines)) /\ LinesIn(rest) = LinesFrom(toWrite, written)
      /\ InOrder(rest)
  BY <1>1, RestOfRound DEF LinesInv, OrderInv
<1>3. /\ Rising(file) /\ InOrder(buffers)
      /\ Before(ToSet(file), LinesIn(rest)) /\ Before(ToSet(file), Fresh)
      /\ Before(LinesIn(rest), Fresh) /\ Before(LinesIn(buffers), ToSet(current))
      /\ ToSet(file) \cup LinesIn(rest) \cup Fresh = (1..count) \ dropped
  BY <1>2 DEF LinesInv, OrderInv
<1> HIDE DEF rest
<1>4. /\ head \in Seq(Seq(Lines)) /\ LinesIn(head) = ToSet(file) \cup LinesIn(rest)
      /\ InOrder(head)
  <2> DEFINE one == <<file>>
  <2>1. one \in Seq(Seq(Lines)) /\ LinesIn(one) = ToSet(file) /\ InOrder(one)
    BY <1>1, <1>3, OneBuffer
  <2> HIDE DEF one
  <2>2. /\ one \o rest \in Seq(Seq(Lines))
        /\ LinesIn(one \o rest) = LinesIn(one) \cup LinesIn(rest)
        /\ InOrder(one \o rest)
    BY <1>2, <1>3, <2>1, MoreBuffers
  <2> QED BY <2>1, <2>2 DEF one
<1> HIDE DEF head
<1>5. /\ body \in Seq(Seq(Lines)) /\ LinesIn(body) = LinesIn(head) \cup LinesIn(buffers)
      /\ InOrder(body)
  <2>1. Before(LinesIn(head), LinesIn(buffers))
    BY <1>3, <1>4 DEF Before, Fresh
  <2> QED BY <1>1, <1>3, <1>4, <2>1, MoreBuffers
<1> HIDE DEF body
<1>6. /\ LinesIn(body \o <<current>>) = LinesIn(body) \cup ToSet(current)
      /\ InOrder(body \o <<current>>)
  <2>1. Before(LinesIn(body), ToSet(current))
    BY <1>3, <1>4, <1>5 DEF Before, Fresh
  <2> DEFINE one == <<current>>
  <2>2. one \in Seq(Seq(Lines)) /\ LinesIn(one) = ToSet(current) /\ InOrder(one)
    BY <1>1, OneBuffer
  <2> HIDE DEF one
  <2>3. LinesIn(body \o one) = LinesIn(body) \cup LinesIn(one) /\ InOrder(body \o one)
    BY <1>5, <2>1, <2>2, MoreBuffers
  <2> QED BY <2>2, <2>3 DEF one
<1>7. Blocks = body \o <<current>>
  BY DEF Blocks, body, head, rest
<1> QED BY <1>3, <1>4, <1>5, <1>6, <1>7 DEF LinesAccountedFor, Fresh

\* What else the types need: only full buffers wait for the swap.
TypeInv ==
    /\ running \in BOOLEAN
    /\ caller \in {"before", "started", "joining", "stopped"}
    /\ promised \in 0..MaxLines
    /\ \A i \in DOMAIN buffers : Len(buffers[i]) = Capacity

\* Init gives TypeInv, and a step keeps it where LinesInv holds.
LEMMA TypeStep == (Init => TypeInv) /\ (LinesInv /\ TypeInv /\ [Next]_vars => TypeInv')
<1>1. Init => TypeInv
  <2> SUFFICES ASSUME Init PROVE TypeInv
    OBVIOUS
  <2>1. running = FALSE /\ caller = "before" /\ promised = 0 /\ buffers = <<>>
    BY DEF Init
  <2>2. promised \in 0..MaxLines
    BY <2>1, SizesAssumption
  <2>3. \A i \in DOMAIN buffers : Len(buffers[i]) = Capacity
    BY <2>1
  <2> QED BY <2>1, <2>2, <2>3 DEF TypeInv
<1>2. ASSUME LinesInv, TypeInv, [Next]_vars PROVE TypeInv'
  <2>1. CASE Log
    <3>1. UNCHANGED <<running, caller, promised>>
      BY <2>1 DEF Log, control
    <3>2. \A i \in DOMAIN buffers' : Len(buffers'[i]) = Capacity
      <4>1. CASE Len(current) < Capacity
        BY <1>2, <2>1, <4>1 DEF Log, AppendLine, TypeInv
      <4>2. CASE ~(Len(current) < Capacity)
        <5>1. /\ buffers' = Append(buffers, current) /\ buffers \in Seq(Seq(Lines))
              /\ current \in Seq(Lines) /\ Len(current) <= Capacity
          BY <1>2, <2>1, <4>2 DEF Log, AppendLine, LinesInv, SparesInv, FullInv
        <5>2. Len(current) = Capacity
          BY <4>2, <5>1, SizesAssumption
        <5>3. \A i \in DOMAIN buffers' :
                 \/ i \in DOMAIN buffers /\ buffers'[i] = buffers[i]
                 \/ buffers'[i] = current
          BY <5>1
        <5> QED BY <1>2, <5>2, <5>3 DEF TypeInv
      <4> QED BY <4>1, <4>2
    <3> QED BY <1>2, <3>1, <3>2 DEF TypeInv
  <2>2. CASE Swap
    <3>1. buffers' = <<>> /\ UNCHANGED <<running, caller, promised>>
      BY <1>2, <2>2 DEF Swap, control, LinesInv, RoundInv
    <3> QED BY <1>2, <3>1 DEF TypeInv
  <2>3. CASE Stop
    <3>1. count \in 0..MaxLines /\ buffers' = buffers
      BY <1>2, <2>3 DEF Stop, front, LinesInv, SparesInv
    <3> QED BY <1>2, <2>3, <3>1 DEF Stop, TypeInv
  <2>4. CASE Start \/ Joined
    BY <1>2, <2>4 DEF Start, Joined, front, TypeInv
  <2>5. CASE Open \/ While \/ Cut \/ Write \/ Flush \/ Recycle \/ UNCHANGED vars
    <3>1. UNCHANGED <<running, caller, promised, buffers>>
      BY <2>5 DEF Open, While, Cut, Write, Flush, Recycle, vars, control, front
    <3> QED BY <1>2, <3>1 DEF TypeInv
  <2> QED BY <1>2, <2>1, <2>2, <2>3, <2>4, <2>5 DEF Next, Writer
<1> QED BY <1>1, <1>2

\* Type correctness of AsyncLogging; the full buffers are full.
THEOREM TypeCorrect == Spec => []TypeOK
<1>1. LinesInv /\ TypeInv => TypeOK
  <2> SUFFICES ASSUME LinesInv, TypeInv PROVE TypeOK
    OBVIOUS
  <2>1. 1..count \subseteq Lines
    BY SizesAssumption DEF Lines, LinesInv, SparesInv
  <2> QED BY <2>1 DEF TypeOK, TypeInv, LinesInv, SparesInv, RoundInv, FullInv
<1> QED BY <1>1, TypeStep, LinesInvariant, PTL DEF Spec

\* No line that has not been dropped is lost, written twice or out of order.
THEOREM NoLineAstray == Spec => []LinesAccountedFor
BY LinesInvariant, LinesAreAccountedFor, PTL

\* A file whose lines rise has as many as there are in it.
LEMMA FileSize ==
    ASSUME NEW s \in Seq(Lines), Rising(s)
    PROVE  IsFiniteSet(ToSet(s)) /\ Cardinality(ToSet(s)) = Len(s)
<1>1. /\ Len(s) \in Nat /\ DOMAIN s = 1..Len(s) /\ s \in [1..Len(s) -> ToSet(s)]
      /\ \A i \in 1..Len(s) : s[i] \in Lines
  BY DEF ToSet
<1>2. \A i, j \in 1..Len(s) : s[i] = s[j] => i = j
  <2> SUFFICES ASSUME NEW i \in 1..Len(s), NEW j \in 1..Len(s), i # j PROVE s[i] # s[j]
    OBVIOUS
  <2>1. s[i] \in Int /\ s[j] \in Int
    BY <1>1, SizesAssumption DEF Lines
  <2>2. CASE i < j
    BY <1>1, <2>1, <2>2 DEF Rising
  <2>3. CASE j < i
    BY <1>1, <2>1, <2>3 DEF Rising
  <2> QED BY <2>2, <2>3
<1>3. s \in Surjection(1..Len(s), ToSet(s)) /\ s \in Injection(1..Len(s), ToSet(s))
  BY <1>1, <1>2 DEF Surjection, Injection, IsInjective, ToSet
<1>4. IsFiniteSet(1..Len(s)) /\ Cardinality(1..Len(s)) = Len(s)
  BY <1>1, FS_Interval
<1> QED BY <1>3, <1>4, FS_Surjection

\* A line is dropped only behind more than MaxBacklog full buffers of lines.
LEMMA DropStep ==
    ASSUME LinesInv, [Next]_vars, dropped' # dropped
    PROVE  count - Len(file) - Cardinality(dropped) > MaxBacklog * Capacity
<1>1. Cut /\ dropped' = dropped \cup (LinesIn(toWrite) \ LinesIn(Round))
  BY DEF Next, Writer, Start, Log, Stop, Joined, Open, While, Swap, Cut, Write, Flush,
         Recycle, vars, front, back
<1>2. Len(toWrite) > MaxBacklog
  BY <1>1 DEF Round
<1> DEFINE n == Len(toWrite)
           first == toWrite[1][1]
           last == toWrite[n][1]
<1>3. /\ n \in Nat /\ n > 1 /\ MaxBacklog \in Nat /\ Capacity \in Nat
      /\ toWrite \in Seq(Seq(Lines)) /\ pc = "cut" /\ written = 0
      /\ file \in Seq(Lines) /\ count \in Nat /\ dropped \subseteq 1..count
  BY <1>1, <1>2, SizesAssumption DEF Cut, LinesInv, SparesInv, RoundInv
<1>4. /\ toWrite[1] # <<>> /\ toWrite[n] # <<>>
      /\ last = first + (n - 1) * Capacity
  BY <1>3 DEF LinesInv, FullInv
<1>5. first \in LinesIn(toWrite) /\ last \in LinesIn(toWrite)
  <2>1. 1 \in DOMAIN toWrite /\ n \in DOMAIN toWrite
    BY <1>3
  <2>2. toWrite[1] \in Seq(Lines) /\ toWrite[n] \in Seq(Lines)
    BY <1>3, <2>1
  <2>3. 1 \in DOMAIN toWrite[1] /\ 1 \in DOMAIN toWrite[n]
    BY <1>4, <2>2
  <2> QED BY <2>1, <2>3, InLines
<1>6. LinesFrom(toWrite, written) = LinesIn(toWrite)
  <2>1. 0 \in 0..Len(toWrite)
    BY <1>3
  <2> QED BY <1>3, <2>1, Remaining
<1>7. /\ Before(ToSet(file), LinesIn(toWrite)) /\ Before(dropped, LinesIn(toWrite))
      /\ ToSet(file) \cup LinesIn(toWrite) \cup Fresh = (1..count) \ dropped
      /\ Rising(file)
  BY <1>3, <1>6 DEF LinesInv, OrderInv, DroppedInv
<1>8. first \in 1..count /\ last \in 1..count
  BY <1>5, <1>7
<1> HIDE DEF n, first, last
<1>9. ToSet(file) \cup dropped \subseteq 1..first - 1
  <2>1. \A l \in ToSet(file) \cup dropped : l \in 1..count /\ l < first
    BY <1>3, <1>5, <1>7 DEF Before
  <2> QED BY <1>8, <2>1
<1>10. IsFiniteSet(ToSet(file)) /\ Cardinality(ToSet(file)) = Len(file) /\ Len(file) \in Nat
  BY <1>3, <1>7, FileSize
<1>11. IsFiniteSet(1..first - 1) /\ Cardinality(1..first - 1) = first - 1
  BY <1>8, FS_Interval
<1>12. IsFiniteSet(dropped) /\ Cardinality(dropped) \in Nat
  BY <1>9, <1>11, FS_Subset, FS_CardinalityType
<1>13. Len(file) + Cardinality(dropped) <= first - 1
  <2>1. ToSet(file) \cap dropped = {}
    BY <1>7
  <2>2. Cardinality(ToSet(file) \cap dropped) = 0
    BY <2>1, FS_EmptySet
  <2>3. Cardinality(ToSet(file) \cup dropped) =
           Cardinality(ToSet(file)) + Cardinality(dropped)
              - Cardinality(ToSet(file) \cap dropped)
    BY <1>10, <1>12, FS_Union
  <2>4. Cardinality(ToSet(file) \cup dropped) <= first - 1
    BY <1>9, <1>11, FS_Subset
  <2> QED BY <1>8, <1>10, <1>12, <2>2, <2>3, <2>4
<1>14. (n - 1) * Capacity >= MaxBacklog * Capacity
  <2>1. n - 1 >= MaxBacklog /\ n - 1 \in Nat
    BY <1>2, <1>3 DEF n
  <2> QED BY <1>3, <2>1
<1> DEFINE size == (n - 1) * Capacity
           backlog == MaxBacklog * Capacity
<1>15. size \in Int /\ backlog \in Int /\ size >= backlog /\ last = first + size
  BY <1>3, <1>4, <1>14
<1> HIDE DEF size, backlog
<1>16. count - Len(file) - Cardinality(dropped) > backlog
  BY <1>3, <1>8, <1>10, <1>12, <1>13, <1>15
<1> QED BY <1>16 DEF backlog

\* Lines are thrown away only when more than MaxBacklog full buffers of them wait.
THEOREM DropsNeedBacklog == Spec => DropsOnlyUnderLoad
<1>1. LinesInv /\ [Next]_vars =>
          [dropped' # dropped =>
              count - Len(file) - Cardinality(dropped) > MaxBacklog * Capacity]_vars
  BY DropStep
<1> QED BY <1>1, LinesInvariant, PTL DEF DropsOnlyUnderLoad, Spec

----------------------------------------------------------------------------
\* Whatever the threads and main() do, the AsyncLogging sees one of its own steps
\* or none.
LEMMA LoggerSteps == LoggerNext => [Next]_vars
BY DEF LoggerNext, InitGlobalLogger, DestroyGlobalLogger, MainReturns, DestroyJoined,
       DestroyDeletes, DestroyClears, DestroyResets, Disturb, BackThread, Statement, Begin,
       ConsoleBranch, FileBranch, HandOver, HandOverLate, FallbackBranch, Return, Next

\* The program uses AsyncLogging as its specification foresees, threads that log
\* during and after stop() included.
THEOREM LoggerUsesAsyncLogging == LoggerSpec => Spec
<1>1. LoggerInit => Init
  BY DEF LoggerInit
<1>2. [LoggerNext]_loggerVars => [Next]_vars
  <2>1. UNCHANGED loggerVars => UNCHANGED vars
    BY DEF loggerVars
  <2> QED BY <2>1, LoggerSteps
<1> QED BY <1>1, <1>2, PTL DEF LoggerSpec, Spec

\* So threadFunc finds its spares in the program too.
THEOREM LoggerKeepsSpares == LoggerSpec => []SparesNeverRunOut
BY LoggerUsesAsyncLogging, SparesSuffice, PTL

\* And the program loses no line behind append(), nor writes one twice or too early.
THEOREM LoggerLosesNoLine == LoggerSpec => []LinesAccountedFor
BY LoggerUsesAsyncLogging, NoLineAstray, PTL

\* Nor does it throw lines away before the backlog is too large.
THEOREM LoggerDropsUnderLoad == LoggerSpec => DropsOnlyUnderLoad
BY LoggerUsesAsyncLogging, DropsNeedBacklog, PTL

----------------------------------------------------------------------------
\* What becomes of a line, place by place in ~Logger, as long as destroy() does
\* not interfere: printed, or bound for a logger that lives, or for the fallback.
LineInv ==
    /\ appender \in Appenders
    /\ pointer \in BOOLEAN /\ deleted \in BOOLEAN
    /\ stage \in [Threads -> Stages]
    /\ safe \in [Threads -> BOOLEAN]
    /\ disturbed \in [Threads -> BOOLEAN]
    /\ main = "init" => \A t \in Threads : stage[t] = "idle"
    /\ \A t \in Threads : ~disturbed[t] =>
          /\ stage[t] # "idle" /\ deleted => ~pointer
          /\ stage[t] = "consoleOrBoth" => appender # "CONSOLE"
          /\ stage[t] \in {"file", "pointer", "notConsole", "notBoth"} =>
                safe[t] \/ appender = "FILE"
          /\ stage[t] = "append" => pointer
          /\ stage[t] = "fallback" => safe[t] \/ (~pointer /\ appender = "FILE")
          /\ stage[t] \in {"fileOrBoth", "return"} => safe[t]

\* Every step of main(), the background thread and ~Logger keeps LineInv.
LEMMA LineStep == LineInv /\ [LoggerNext]_loggerVars => LineInv'
<1> SUFFICES ASSUME LineInv, [LoggerNext]_loggerVars PROVE LineInv'
  OBVIOUS
<1> USE DEF LineInv
<1>1. CASE InitGlobalLogger
  <2>1. PICK str \in LogAppenders : appender' = StringToAppender(str)
    BY <1>1 DEF InitGlobalLogger
  <2>2. appender' \in Appenders
    BY <2>1 DEF StringToAppender, Appenders
  <2>3. pointer' \in BOOLEAN
    <3>1. pointer' = (appender' \in {"FILE", "BOTH"})
      BY <1>1 DEF InitGlobalLogger
    <3> QED BY <3>1
  <2>4. /\ deleted' = deleted /\ UNCHANGED statement
        /\ \A t \in Threads : stage[t] = "idle"
    BY <1>1 DEF InitGlobalLogger
  <2> QED BY <2>2, <2>3, <2>4 DEF statement
<1>2. CASE DestroyGlobalLogger \/ DestroyJoined \/ BackThread
  BY <1>2 DEF DestroyGlobalLogger, DestroyJoined, BackThread, globals, statement
<1>3. CASE DestroyDeletes \/ DestroyClears \/ DestroyResets
  <2>1. /\ disturbed' = [t \in Threads |-> TRUE] /\ stage' = stage /\ safe' = safe
        /\ appender' \in Appenders /\ pointer' \in BOOLEAN /\ deleted' \in BOOLEAN
        /\ main' # "init"
    BY <1>3 DEF DestroyDeletes, DestroyClears, DestroyResets, Disturb, Appenders
  <2> QED BY <2>1
<1>4. ASSUME NEW t \in Threads, Statement(t) PROVE LineInv'
  <2>1. CASE Begin(t)
    BY <2>1 DEF Begin, GoTo, globals, Stages
  <2>2. CASE ConsoleBranch(t)
    BY <2>2 DEF ConsoleBranch, Prints, Passes, GoTo, globals, Stages, Appenders
  <2>3. CASE FileBranch(t)
    BY <2>3 DEF FileBranch, Passes, GoTo, globals, Stages, Appenders
  <2>4. CASE HandOver(t)
    BY <2>4 DEF HandOver, Prints, GoTo, globals, Stages
  <2>5. CASE HandOverLate(t)
    BY <2>5 DEF HandOverLate, Passes, GoTo, globals, Stages
  <2>6. CASE FallbackBranch(t)
    BY <2>6 DEF FallbackBranch, Prints, Passes, GoTo, globals, Stages, Appenders
  <2>7. CASE Return(t)
    BY <2>7 DEF Return, Passes, GoTo, globals, Stages
  <2> QED BY <1>4, <2>1, <2>2, <2>3, <2>4, <2>5, <2>6, <2>7 DEF Statement
<1>5. CASE UNCHANGED loggerVars
  BY <1>5 DEF loggerVars, globals, statement
<1> QED BY <1>1, <1>2, <1>3, <1>4, <1>5 DEF LoggerNext, MainReturns

\* LineInv holds in every state of the logger.
LEMMA LineInvariant == LoggerSpec => []LineInv
<1>1. LoggerInit => LineInv
  BY DEF LoggerInit, LineInv, Appenders, Stages
<1> QED BY <1>1, LineStep, PTL DEF LoggerSpec

\* The places of main(), and the crash.
MainInv ==
    /\ main \in {"init", "running", "joining", "deleting", "clearing", "resetting", "done"}
    /\ aborted \in BOOLEAN

\* Every step of the logger keeps MainInv.
LEMMA MainStep == MainInv /\ [LoggerNext]_loggerVars => MainInv'
<1> SUFFICES ASSUME MainInv, [LoggerNext]_loggerVars PROVE MainInv'
  OBVIOUS
<1> USE DEF MainInv
<1>1. CASE InitGlobalLogger \/ DestroyGlobalLogger \/ DestroyJoined \/ BackThread
  BY <1>1 DEF InitGlobalLogger, DestroyGlobalLogger, DestroyJoined, BackThread
<1>2. CASE DestroyDeletes \/ DestroyClears \/ DestroyResets
  BY <1>2 DEF DestroyDeletes, DestroyClears, DestroyResets, Disturb
<1>3. ASSUME NEW t \in Threads, Statement(t) PROVE MainInv'
  BY <1>3 DEF Statement, Begin, ConsoleBranch, FileBranch, HandOver, HandOverLate,
              FallbackBranch, Return
<1>4. CASE UNCHANGED loggerVars
  BY <1>4 DEF loggerVars
<1> QED BY <1>1, <1>2, <1>3, <1>4 DEF LoggerNext, MainReturns

\* Type correctness of the logger.
THEOREM LoggerTypeCorrect == LoggerSpec => []LoggerTypeOK
<1>1. LoggerInit => MainInv
  BY DEF LoggerInit, MainInv
<1>2. LineInv /\ MainInv /\ TypeOK => LoggerTypeOK
  BY DEF LineInv, MainInv, LoggerTypeOK
<1> QED
  BY <1>1, <1>2, MainStep, LineInvariant, LoggerUsesAsyncLogging, TypeCorrect, PTL
     DEF LoggerSpec

\* A LOG_xxx statement of any thread loses its line only to destroyGlobalLogger.
THEOREM NoLineLost == LoggerSpec => []LineKept
<1>1. LineInv => LineKept
  BY DEF LineInv, LineKept
<1> QED BY <1>1, LineInvariant, PTL
============================================================================

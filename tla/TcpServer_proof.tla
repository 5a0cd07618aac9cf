-------------------------- MODULE TcpServer_proof --------------------------
(***************************************************************************)
(* Proofs about TcpServer, for any number of clients, requests and I/O     *)
(* loops: connections are counted right, closed once, deleted once and     *)
(* untouched afterwards.                                                   *)
(***************************************************************************)
EXTENDS TcpServer, FiniteSetTheorems, SequenceTheorems, TLAPS

----------------------------------------------------------------------------
\* The inductive invariant

Owning == Ops \ {"delete"}

\* How many of a queue's tasks are one of these operations on connection c.
Count(s, ops, c) == Cardinality({i \in DOMAIN s : s[i][1] \in ops /\ s[i][2] = c})

\* The queued closures that hold a connection c whose loop is k, and the tasks of
\* one kind in a loop.
Own(ts, k, c) ==
    Count(ts[k], Owning, c) + (IF k = Base THEN 0 ELSE Count(ts[Base], Owning, c))
Num(ts, l, op, c) == Count(ts[l], {op}, c)

\* Connections are numbered as long as clients may come, and the pool's cursor
\* points at a loop that was started.
BacklogInv ==
    /\ nextConnId + listener.waiting <= MaxConns
    /\ numThreads > 0 => next < numThreads
    /\ NobodyLeftWaiting

\* Tasks and events are about connections that were created; all but the removal
\* are in the connection's own loop.
Placed ==
    /\ \A l \in Loops : \A t \in Range(tasks[l]) :
          /\ t[2] < nextConnId
          /\ l = conn[t[2]].loop \/ (l = Base /\ t[1] = "remove")
    /\ \A l \in Loops : \A e \in active[l] :
          e[1] < nextConnId /\ conn[e[1]].loop = l /\ conn[e[1]].state # "deleted"

\* A connection whose connectEstablished is still queued is untouched.
Untouched(c) ==
    /\ conn[c] = [Unborn(conn[c].loop) EXCEPT !.state = "kConnected", !.refs = 2]
    /\ Num(tasks, conn[c].loop, "send", c) = 0
    /\ \A e \in active[conn[c].loop] : e[1] # c

\* The use count is the number of owners.
RefsInv(c) ==
    conn[c].refs = (IF c \in ledger THEN 1 ELSE 0) + Own(tasks, conn[c].loop, c)
                   + conn[c].working + conn[c].answered

\* The delete is queued when the last owner has gone, and only once.
DeleteInv(c) ==
    Num(tasks, conn[c].loop, "delete", c) =
        IF conn[c].state \in {"kConnected", "kDisconnecting"} /\ conn[c].refs = 0 THEN 1 ELSE 0

\* A closing connection has called closeCallback_, or forceClose's closure is going
\* to; before that the connection is in the ledger and its removal is not queued.
CloseInv(c) ==
    LET forced == Num(tasks, conn[c].loop, "forceClose", c)
    IN  /\ conn[c].state # "kDisconnecting" => forced = 0
        /\ conn[c].state = "kDisconnecting" => conn[c].closeCalls + forced = 1
        /\ conn[c].state \in {"none", "kConnected"} => conn[c].closeCalls = 0
        /\ conn[c].state = "deleted" => conn[c].closeCalls = 1 /\ conn[c].refs = 0
        /\ conn[c].closeCalls = 0 => Num(tasks, Base, "remove", c) = 0
        /\ conn[c].closeCalls = 0 /\ conn[c].state # "none" => c \in ledger

\* connectEstablished comes before anything else happens to a connection.
StartInv(c) ==
    /\ conn[c].state = "none" => conn[c] = Unborn(conn[c].loop)
    /\ Num(tasks, conn[c].loop, "establish", c) \in {0, 1}
    /\ Num(tasks, conn[c].loop, "establish", c) = 1 => Untouched(c)
    /\ conn[c].registered => conn[c].state \in {"kConnected", "kDisconnecting"}

\* The output of one connection that waits for EPOLLOUT.
OutputInv(c) ==
    conn[c].state = "kConnected" /\ conn[c].unsent > 0
        => "out" \in conn[c].events \/ conn[c].failed

ConnInv(c) == RefsInv(c) /\ DeleteInv(c) /\ CloseInv(c) /\ StartInv(c) /\ OutputInv(c)

ServerInv ==
    /\ TypeOK
    /\ BacklogInv
    /\ Placed
    /\ \A c \in Conns : ConnInv(c)

----------------------------------------------------------------------------
\* Lemmas about the tasks of a loop

\* A count is a number.
LEMMA CountType ==
    ASSUME NEW s \in Seq(Tasks), NEW ops, NEW c
    PROVE  Count(s, ops, c) \in Nat
<1> DEFINE I == {i \in DOMAIN s : s[i][1] \in ops /\ s[i][2] = c}
<1>1. IsFiniteSet(1..Len(s)) /\ DOMAIN s = 1..Len(s)
  BY FS_Interval
<1>2. IsFiniteSet(I)
  BY <1>1, FS_Subset
<1> QED BY <1>2, FS_CardinalityType DEF Count

\* A task put behind the others is counted.
LEMMA CountAppend ==
    ASSUME NEW s \in Seq(Tasks), NEW t \in Tasks, NEW ops, NEW c
    PROVE  /\ Count(s, ops, c) \in Nat
           /\ Count(Append(s, t), ops, c) =
                 Count(s, ops, c) + IF t[1] \in ops /\ t[2] = c THEN 1 ELSE 0
<1> DEFINE I(q) == {i \in DOMAIN q : q[i][1] \in ops /\ q[i][2] = c}
           n == Len(s) + 1
<1>1. /\ DOMAIN s = 1..Len(s) /\ Len(s) \in Nat
      /\ DOMAIN Append(s, t) = DOMAIN s \cup {n}
      /\ n \notin DOMAIN s
      /\ Append(s, t)[n] = t
      /\ \A i \in DOMAIN s : Append(s, t)[i] = s[i]
  OBVIOUS
<1>2. IsFiniteSet(I(s))
  <2>1. IsFiniteSet(1..Len(s))
    BY <1>1, FS_Interval
  <2> QED BY <1>1, <2>1, FS_Subset
<1>3. n \notin I(s) /\ I(Append(s, t)) = IF t[1] \in ops /\ t[2] = c THEN I(s) \cup {n} ELSE I(s)
  BY <1>1
<1> HIDE DEF I
<1>4. Cardinality(I(s)) \in Nat
  BY <1>2, FS_CardinalityType
<1>5. Cardinality(I(s) \cup {n}) = Cardinality(I(s)) + 1
  BY <1>2, <1>3, FS_AddElement
<1>6. Cardinality(I(Append(s, t))) =
         Cardinality(I(s)) + IF t[1] \in ops /\ t[2] = c THEN 1 ELSE 0
  BY <1>3, <1>4, <1>5
<1> QED BY <1>4, <1>6 DEF Count, I

\* A task taken from the front is no longer counted.
LEMMA CountTail ==
    ASSUME NEW s \in Seq(Tasks), s # <<>>, NEW ops, NEW c
    PROVE  Count(s, ops, c) =
             Count(Tail(s), ops, c) + IF Head(s)[1] \in ops /\ Head(s)[2] = c THEN 1 ELSE 0
<1> DEFINE I(q) == {i \in DOMAIN q : q[i][1] \in ops /\ q[i][2] = c}
           rest == I(s) \ {1}
           f == [i \in I(Tail(s)) |-> i + 1]
<1>1. /\ DOMAIN s = 1..Len(s) /\ Len(s) \in Nat /\ Len(s) > 0
      /\ Tail(s) \in Seq(Tasks) /\ Head(s) = s[1]
      /\ DOMAIN Tail(s) = 1..Len(s) - 1
      /\ \A i \in DOMAIN Tail(s) : Tail(s)[i] = s[i + 1]
  OBVIOUS
<1>2. IsFiniteSet(I(s)) /\ IsFiniteSet(I(Tail(s)))
  <2>1. IsFiniteSet(1..Len(s)) /\ IsFiniteSet(1..Len(s) - 1)
    BY <1>1, FS_Interval
  <2> QED BY <1>1, <2>1, FS_Subset
<1>3. \A i \in I(Tail(s)) : i \in Nat /\ i + 1 \in rest
  BY <1>1
<1>4. \A j \in rest : j - 1 \in I(Tail(s)) /\ (j - 1) + 1 = j
  BY <1>1
<1>5. 1 \in I(s) <=> Head(s)[1] \in ops /\ Head(s)[2] = c
  BY <1>1
<1> HIDE DEF I
<1>6. f \in Bijection(I(Tail(s)), rest)
  BY <1>3, <1>4 DEF Bijection, Injection, Surjection, IsInjective
<1>7. Cardinality(rest) = Cardinality(I(Tail(s)))
  BY <1>2, <1>6, FS_Bijection DEF ExistsBijection
<1>8. Cardinality(rest) = IF 1 \in I(s) THEN Cardinality(I(s)) - 1 ELSE Cardinality(I(s))
  BY <1>2, FS_RemoveElement
<1>9. Cardinality(I(s)) \in Nat /\ Cardinality(I(Tail(s))) \in Nat
  BY <1>2, FS_CardinalityType
<1>10. Cardinality(I(s)) = Cardinality(I(Tail(s))) + IF 1 \in I(s) THEN 1 ELSE 0
  BY <1>7, <1>8, <1>9
<1> QED BY <1>5, <1>10 DEF Count, I

\* Without the task in the queue nothing is counted, and conversely.
LEMMA CountNone ==
    ASSUME NEW s \in Seq(Tasks), NEW ops, NEW c
    PROVE  Count(s, ops, c) = 0 <=> \A t \in Range(s) : ~(t[1] \in ops /\ t[2] = c)
<1> DEFINE I == {i \in DOMAIN s : s[i][1] \in ops /\ s[i][2] = c}
<1>1. IsFiniteSet(I)
  <2>1. IsFiniteSet(1..Len(s)) /\ DOMAIN s = 1..Len(s)
    BY FS_Interval
  <2> QED BY <2>1, FS_Subset
<1>2. Cardinality(I) = 0 <=> I = {}
  BY <1>1, FS_EmptySet
<1> QED BY <1>2 DEF Count, Range

\* The counts of a connection's closures and tasks are numbers.
LEMMA CountsNat ==
    ASSUME NEW ts \in [Loops -> Seq(Tasks)], NEW k \in Loops, NEW c
    PROVE  /\ Own(ts, k, c) \in Nat
           /\ \A l \in Loops, op \in Ops : Num(ts, l, op, c) \in Nat
<1>1. ts[k] \in Seq(Tasks) /\ ts[Base] \in Seq(Tasks)
  BY DEF Loops
<1>2. Count(ts[k], Owning, c) \in Nat /\ Count(ts[Base], Owning, c) \in Nat
  BY <1>1, CountType
<1>3. ASSUME NEW l \in Loops, NEW op \in Ops
      PROVE  Num(ts, l, op, c) \in Nat
  BY CountType DEF Num
<1> QED BY <1>2, <1>3 DEF Own

\* What one task more on c in loop l, one of the places for the tasks of c, adds
\* to the counts.
OneMore(ts, us, l, op, c) ==
    /\ \A m \in Loops : m # l => us[m] = ts[m]
    /\ \A ops \in SUBSET Ops, d \in Conns :
          Count(us[l], ops, d) = Count(ts[l], ops, d) + IF op \in ops /\ c = d THEN 1 ELSE 0

Counted(ts, us, k, l, op, c) ==
    /\ op = "delete" => Own(us, k, c) = Own(ts, k, c)
    /\ op # "delete" => Own(us, k, c) = Own(ts, k, c) + 1
    /\ Num(us, l, op, c) = Num(ts, l, op, c) + 1
    /\ \A m \in Loops, o \in Ops : m # l \/ o # op => Num(us, m, o, c) = Num(ts, m, o, c)

OthersEqual(ts, us, c) ==
    \A d \in Conns \ {c}, m \in Loops :
        /\ Own(us, m, d) = Own(ts, m, d)
        /\ \A o \in Ops : Num(us, m, o, d) = Num(ts, m, o, d)

LEMMA OneMoreCounted ==
    ASSUME NEW ts \in [Loops -> Seq(Tasks)], NEW us \in [Loops -> Seq(Tasks)],
           NEW k \in Loops, NEW l \in Loops, l = k \/ l = Base,
           NEW op \in Ops, NEW c \in Conns, OneMore(ts, us, l, op, c)
    PROVE  Counted(ts, us, k, l, op, c) /\ OthersEqual(ts, us, c)
<1>0. /\ \A m \in Loops : m # l => us[m] = ts[m]
      /\ \A ops \in SUBSET Ops, d \in Conns :
            Count(us[l], ops, d) =
               Count(ts[l], ops, d) + IF op \in ops /\ c = d THEN 1 ELSE 0
  BY DEF OneMore
<1>1. /\ Base \in Loops
      /\ Owning \in SUBSET Ops
      /\ \A o \in Ops : {o} \in SUBSET Ops
  BY DEF Loops, Owning
<1>2. ASSUME NEW ops \in SUBSET Ops, NEW m \in Loops, NEW d \in Conns,
             m # l \/ op \notin ops \/ d # c
      PROVE  Count(us[m], ops, d) = Count(ts[m], ops, d)
  <2>1. Count(ts[m], ops, d) \in Nat
    BY CountType
  <2>2. CASE m # l
    <3>1. us[m] = ts[m]
      BY <1>0, <2>2
    <3> QED BY <3>1
  <2>3. CASE m = l
    <3>1. ~(op \in ops /\ c = d)
      BY <1>2, <2>3
    <3>2. Count(us[l], ops, d) = Count(ts[l], ops, d) + 0
      BY <1>0, <2>3, <3>1
    <3> QED BY <2>1, <2>3, <3>2
  <2> QED BY <2>2, <2>3
<1>3. ASSUME NEW ops \in SUBSET Ops, op \in ops
      PROVE  Count(us[l], ops, c) = Count(ts[l], ops, c) + 1
  BY <1>0, <1>3
<1>4. Count(ts[k], Owning, c) \in Nat /\ Count(ts[Base], Owning, c) \in Nat
  BY <1>1, CountType
<1>5. /\ op = "delete" => Own(us, k, c) = Own(ts, k, c)
      /\ op # "delete" => Own(us, k, c) = Own(ts, k, c) + 1
  <2>1. CASE op = "delete"
    <3>1. op \notin Owning
      BY <2>1 DEF Owning
    <3>2. Count(us[k], Owning, c) = Count(ts[k], Owning, c)
      BY <1>1, <1>2, <3>1
    <3>3. Count(us[Base], Owning, c) = Count(ts[Base], Owning, c)
      BY <1>1, <1>2, <3>1
    <3> QED BY <1>4, <2>1, <3>2, <3>3 DEF Own
  <2>2. CASE op # "delete"
    <3>1. op \in Owning
      BY <2>2 DEF Owning
    <3>2. Count(us[l], Owning, c) = Count(ts[l], Owning, c) + 1
      BY <1>1, <1>3, <3>1
    <3>3. CASE l = k
      <4>1. k # Base => Count(us[Base], Owning, c) = Count(ts[Base], Owning, c)
        BY <1>1, <1>2, <3>3
      <4>2. Count(us[k], Owning, c) = Count(ts[k], Owning, c) + 1
        BY <3>2, <3>3
      <4>3. Own(us, k, c) = Own(ts, k, c) + 1
        BY ONLY <1>4, <4>1, <4>2 DEF Own
      <4> QED BY <2>2, <4>3
    <3>4. CASE l = Base /\ k # Base
      <4>1. Count(us[k], Owning, c) = Count(ts[k], Owning, c)
        BY <1>1, <1>2, <3>4
      <4>2. Count(us[Base], Owning, c) = Count(ts[Base], Owning, c) + 1
        BY <3>2, <3>4
      <4>3. Own(us, k, c) = Own(ts, k, c) + 1
        BY <1>4, <3>4, <4>1, <4>2 DEF Own
      <4> QED BY <2>2, <4>3
    <3> QED BY <3>3, <3>4
  <2> QED BY <2>1, <2>2
<1>6. /\ Num(us, l, op, c) = Num(ts, l, op, c) + 1
      /\ \A m \in Loops, o \in Ops : m # l \/ o # op => Num(us, m, o, c) = Num(ts, m, o, c)
  <2>1. Count(us[l], {op}, c) = Count(ts[l], {op}, c) + 1
    BY <1>1, <1>3
  <2>2. ASSUME NEW m \in Loops, NEW o \in Ops, m # l \/ o # op
        PROVE  Count(us[m], {o}, c) = Count(ts[m], {o}, c)
    BY <1>1, <1>2, <2>2
  <2> QED BY <2>1, <2>2 DEF Num
<1>7. ASSUME NEW d \in Conns \ {c}, NEW m \in Loops
      PROVE  /\ Own(us, m, d) = Own(ts, m, d)
             /\ \A o \in Ops : Num(us, m, o, d) = Num(ts, m, o, d)
  <2>1. \A ops \in SUBSET Ops : Count(us[m], ops, d) = Count(ts[m], ops, d)
    BY <1>2
  <2>2. Count(us[Base], Owning, d) = Count(ts[Base], Owning, d)
    BY <1>1, <1>2
  <2>3. Own(us, m, d) = Own(ts, m, d)
    BY <1>1, <2>1, <2>2 DEF Own
  <2>4. ASSUME NEW o \in Ops PROVE Num(us, m, o, d) = Num(ts, m, o, d)
    BY <1>1, <2>1 DEF Num
  <2> QED BY <2>3, <2>4
<1> QED BY <1>5, <1>6, <1>7 DEF Counted, OthersEqual

\* us is ts with tasks added or removed that are all about connection c of loop k,
\* the added ones in their places.
Alters(ts, us, k, c) ==
    /\ us \in [Loops -> Seq(Tasks)]
    /\ \A l \in Loops : \A t \in Range(us[l]) :
          \/ t \in Range(ts[l])
          \/ t[2] = c /\ (l = k \/ (l = Base /\ t[1] = "remove"))
    /\ OthersEqual(ts, us, c)

\* Altering twice is altering.
LEMMA AltersTwice ==
    ASSUME NEW ts, NEW us, NEW vs, NEW k, NEW c, Alters(ts, us, k, c), Alters(us, vs, k, c)
    PROVE  Alters(ts, vs, k, c)
<1> HIDE DEF Own, Num
<1> QED BY DEF Alters, OthersEqual

\* Queueing a task on a connection in one of its places alters the counts of that
\* task only.
LEMMA PostEffect ==
    ASSUME NEW ts \in [Loops -> Seq(Tasks)], NEW k \in Loops, NEW l \in Loops,
           NEW op \in Ops, NEW c \in Conns, NEW us, us = Post(ts, l, <<op, c>>),
           l = k \/ (l = Base /\ op = "remove")
    PROVE  Alters(ts, us, k, c) /\ Counted(ts, us, k, l, op, c)
<1> DEFINE t == <<op, c>>
<1>1. t \in Tasks /\ t[1] = op /\ t[2] = c /\ ts[l] \in Seq(Tasks)
  BY DEF Tasks
<1>2. /\ us \in [Loops -> Seq(Tasks)]
      /\ us[l] = Append(ts[l], t)
      /\ \A m \in Loops : m # l => us[m] = ts[m]
  BY <1>1 DEF Post
<1> HIDE DEF t
<1>3. ASSUME NEW ops \in SUBSET Ops, NEW d \in Conns
      PROVE  Count(us[l], ops, d) =
                Count(ts[l], ops, d) + IF op \in ops /\ c = d THEN 1 ELSE 0
  <2>1. Count(Append(ts[l], t), ops, d) =
           Count(ts[l], ops, d) + IF t[1] \in ops /\ t[2] = d THEN 1 ELSE 0
    BY <1>1, CountAppend
  <2> QED BY ONLY <1>1, <1>2, <2>1
<1>4. ASSUME NEW m \in Loops, NEW x \in Range(us[m])
      PROVE  x \in Range(ts[m]) \/ (m = l /\ x = t)
  <2>1. ASSUME NEW x1 \in Range(Append(ts[l], t))
        PROVE  x1 \in Range(ts[l]) \/ x1 = t
    BY <1>1 DEF Range
  <2>2. CASE m = l
    BY <1>2, <1>4, <2>1, <2>2
  <2>3. CASE m # l
    BY <1>2, <1>4, <2>3
  <2> QED BY <2>2, <2>3
<1>5. OneMore(ts, us, l, op, c)
  BY <1>2, <1>3 DEF OneMore
<1>6. Counted(ts, us, k, l, op, c) /\ OthersEqual(ts, us, c)
  BY <1>2, <1>5, OneMoreCounted
<1>7. Alters(ts, us, k, c)
  BY <1>1, <1>2, <1>4, <1>6 DEF Alters
<1> QED BY <1>6, <1>7

\* Taking a task on a connection from the front of one of its places.
LEMMA PopEffect ==
    ASSUME NEW ts \in [Loops -> Seq(Tasks)], NEW k \in Loops, NEW l \in Loops,
           NEW op \in Ops, NEW c \in Conns, NEW us, us = [ts EXCEPT ![l] = Tail(@)],
           ts[l] # <<>>, Head(ts[l]) = <<op, c>>, l = k \/ l = Base
    PROVE  Alters(ts, us, k, c) /\ Counted(us, ts, k, l, op, c)
<1>1. /\ Head(ts[l])[1] = op /\ Head(ts[l])[2] = c
      /\ ts[l] \in Seq(Tasks)
  OBVIOUS
<1>2. /\ us \in [Loops -> Seq(Tasks)]
      /\ us[l] = Tail(ts[l])
      /\ \A m \in Loops : m # l => ts[m] = us[m]
  BY <1>1
<1>3. ASSUME NEW ops \in SUBSET Ops, NEW d \in Conns
      PROVE  Count(ts[l], ops, d) =
                Count(us[l], ops, d) + IF op \in ops /\ c = d THEN 1 ELSE 0
  <2>1. Count(ts[l], ops, d) =
           Count(Tail(ts[l]), ops, d)
              + IF Head(ts[l])[1] \in ops /\ Head(ts[l])[2] = d THEN 1 ELSE 0
    BY <1>1, CountTail
  <2> QED BY ONLY <1>1, <1>2, <2>1
<1>4. ASSUME NEW m \in Loops, NEW x \in Range(us[m])
      PROVE  x \in Range(ts[m])
  <2>1. ASSUME NEW x1 \in Range(Tail(ts[l]))
        PROVE  x1 \in Range(ts[l])
    BY <1>1 DEF Range
  <2>2. CASE m = l
    BY <1>2, <1>4, <2>1, <2>2
  <2>3. CASE m # l
    BY <1>2, <1>4, <2>3
  <2> QED BY <2>2, <2>3
<1>5. OneMore(us, ts, l, op, c)
  BY <1>2, <1>3 DEF OneMore
<1>6. Counted(us, ts, k, l, op, c) /\ OthersEqual(us, ts, c)
  BY <1>2, <1>5, OneMoreCounted
<1>7. OthersEqual(ts, us, c)
  BY <1>6 DEF OthersEqual
<1>8. Alters(ts, us, k, c)
  BY <1>2, <1>4, <1>7 DEF Alters
<1> QED BY <1>6, <1>8

\* Dropping references queues the delete when they were the last ones.
LEMMA ReleaseEffect ==
    ASSUME NEW ts \in [Loops -> Seq(Tasks)], NEW c \in Conns, conn[c].loop \in Loops,
           NEW n, NEW us, us = Release(ts, c, n)
    PROVE  /\ Alters(ts, us, conn[c].loop, c)
           /\ IF conn[c].refs = n
              THEN Counted(ts, us, conn[c].loop, conn[c].loop, "delete", c)
              ELSE us = ts
<1>1. CASE conn[c].refs = n
  <2>1. us = Post(ts, conn[c].loop, <<"delete", c>>)
    BY <1>1 DEF Release
  <2>2. "delete" \in Ops
    BY DEF Ops
  <2> QED BY <1>1, <2>1, <2>2, PostEffect
<1>2. CASE conn[c].refs # n
  <2>1. us = ts
    BY <1>2 DEF Release
  <2>2. Alters(ts, ts, conn[c].loop, c)
    BY DEF Alters, OthersEqual
  <2> QED BY <1>2, <2>1, <2>2
<1> QED BY <1>1, <1>2

\* Without an owning closure there is none of a kind.
LEMMA OwnNone ==
    ASSUME NEW ts \in [Loops -> Seq(Tasks)], NEW k \in Loops, NEW c,
           Own(ts, k, c) = 0
    PROVE  \A l \in {k, Base} : \A t \in Range(ts[l]) : ~(t[1] \in Owning /\ t[2] = c)
<1>1. ts[k] \in Seq(Tasks) /\ ts[Base] \in Seq(Tasks)
  BY DEF Loops
<1>2. Count(ts[k], Owning, c) \in Nat /\ Count(ts[Base], Owning, c) \in Nat
  BY <1>1, CountType
<1>3. Count(ts[k], Owning, c) = 0 /\ Count(ts[Base], Owning, c) = 0
  BY <1>2 DEF Own
<1> QED BY <1>1, <1>3, CountNone

----------------------------------------------------------------------------
\* Steps about one connection

\* Everything about the other connections stays as it is.
StepAbout(c) ==
    /\ UNCHANGED <<server, listener>>
    /\ ledger' \in {ledger, ledger \ {c}}
    /\ active' \in [Loops -> SUBSET Events] /\ \A l \in Loops : active'[l] \subseteq active[l]
    /\ conn' \in [Conns -> ConnType]
    /\ conn'[c].loop = conn[c].loop
    /\ conn'[c].state # "none"
    /\ conn'[c].state = "deleted" => \A e \in active[conn[c].loop] : e[1] # c
    /\ \A d \in Conns \ {c} : conn'[d] = conn[d]
    /\ Alters(tasks, tasks', conn[c].loop, c)

\* Such a step keeps the invariant if it does so for its own connection.
LEMMA AboutOne ==
    ASSUME ServerInv, NEW c \in Conns, c < nextConnId, StepAbout(c), ConnInv(c)'
    PROVE  ServerInv'
<1> USE DEF ServerInv
<1>1. TypeOK'
  <2>1. /\ numThreads' = numThreads /\ next' = next /\ nextConnId' = nextConnId
        /\ listener' = listener
    BY DEF StepAbout, server
  <2>2. ledger' \in SUBSET (0 .. nextConnId' - 1)
    BY <2>1 DEF TypeOK, StepAbout
  <2>3. \A d \in Conns : conn'[d].state = "none" <=> d >= nextConnId'
    <3>1. ~(c >= nextConnId)
      BY DEF TypeOK, Conns
    <3> QED BY <2>1, <3>1 DEF TypeOK, StepAbout
  <2>4. /\ tasks' \in [Loops -> Seq(Tasks)]
        /\ active' \in [Loops -> SUBSET Events]
        /\ conn' \in [Conns -> ConnType]
    BY DEF StepAbout, Alters
  <2> QED BY <2>1, <2>2, <2>3, <2>4 DEF TypeOK
<1>2. BacklogInv'
  BY DEF BacklogInv, NobodyLeftWaiting, StepAbout, server
<1>3. Placed'
  <2>1. ASSUME NEW l \in Loops, NEW t \in Range(tasks'[l])
        PROVE  /\ t[2] < nextConnId'
               /\ l = conn'[t[2]].loop \/ (l = Base /\ t[1] = "remove")
    <3>1. nextConnId' = nextConnId /\ conn'[c].loop = conn[c].loop
      BY DEF StepAbout, server
    <3>2. CASE t \in Range(tasks[l])
      <4>1. /\ t[2] < nextConnId
            /\ l = conn[t[2]].loop \/ (l = Base /\ t[1] = "remove")
        BY <3>2 DEF Placed
      <4>2. t[2] \in Conns
        BY <3>2 DEF TypeOK, Range, Tasks
      <4> QED BY <3>1, <4>1, <4>2 DEF StepAbout
    <3>3. CASE t[2] = c /\ (l = conn[c].loop \/ (l = Base /\ t[1] = "remove"))
      BY <3>1, <3>3
    <3> QED BY <2>1, <3>2, <3>3 DEF StepAbout, Alters
  <2>2. ASSUME NEW l \in Loops, NEW e \in active'[l]
        PROVE  e[1] < nextConnId' /\ conn'[e[1]].loop = l /\ conn'[e[1]].state # "deleted"
    <3>1. e \in active[l] /\ nextConnId' = nextConnId
      BY <2>2 DEF StepAbout, server
    <3>2. e[1] \in Conns
      BY <3>1 DEF TypeOK, Events
    <3>3. e[1] < nextConnId /\ conn[e[1]].loop = l /\ conn[e[1]].state # "deleted"
      BY <3>1 DEF Placed
    <3> QED BY <3>1, <3>2, <3>3 DEF StepAbout
  <2> QED BY <2>1, <2>2 DEF Placed
<1>4. ASSUME NEW d \in Conns, d # c
      PROVE  ConnInv(d)'
  <2>1. /\ conn'[d] = conn[d]
        /\ d \in ledger' <=> d \in ledger
        /\ conn[d].loop \in Loops
        /\ active'[conn[d].loop] \subseteq active[conn[d].loop]
    BY <1>4 DEF StepAbout, TypeOK, ConnType
  <2>2. /\ Own(tasks', conn[d].loop, d) = Own(tasks, conn[d].loop, d)
        /\ \A l \in Loops, op \in Ops : Num(tasks', l, op, d) = Num(tasks, l, op, d)
    BY <1>4, <2>1 DEF StepAbout, Alters, OthersEqual
  <2>3. Base \in Loops /\ {"delete", "forceClose", "remove", "establish", "send"} \subseteq Ops
    BY DEF Loops, Ops
  <2>4. ConnInv(d)
    OBVIOUS
  <2> HIDE DEF ServerInv
  <2>5. RefsInv(d)' /\ OutputInv(d)'
    BY <2>1, <2>2, <2>4 DEF ConnInv, RefsInv, OutputInv
  <2>6. DeleteInv(d)' /\ CloseInv(d)'
    BY <2>1, <2>2, <2>3, <2>4 DEF ConnInv, DeleteInv, CloseInv
  <2>7. StartInv(d)'
    BY <2>1, <2>2, <2>3, <2>4 DEF ConnInv, StartInv, Untouched
  <2> QED BY <2>5, <2>6, <2>7 DEF ConnInv
<1> QED BY <1>1, <1>2, <1>3, <1>4

----------------------------------------------------------------------------
\* Each step keeps the invariant

\* What the invariant says of one connection and its loop.
LEMMA ConnFacts ==
    ASSUME ServerInv, NEW c \in Conns
    PROVE  /\ conn[c] \in ConnType /\ conn[c].loop \in Loops /\ Base \in Loops
           /\ tasks \in [Loops -> Seq(Tasks)] /\ tasks[conn[c].loop] \in Seq(Tasks)
           /\ conn \in [Conns -> ConnType] /\ active \in [Loops -> SUBSET Events]
           /\ c < nextConnId <=> conn[c].state # "none"
           /\ ConnInv(c)
           /\ conn[c].refs \in Nat /\ conn[c].working \in Nat /\ conn[c].answered \in Nat
           /\ conn[c].unsent \in Nat /\ conn[c].closeCalls \in Nat
           /\ Own(tasks, conn[c].loop, c) \in Nat
           /\ \A l \in Loops, op \in Ops : Num(tasks, l, op, c) \in Nat
<1>1. conn[c] \in ConnType /\ conn[c].loop \in Loops
  BY DEF ServerInv, TypeOK, ConnType
<1>2. c < nextConnId <=> conn[c].state # "none"
  BY DEF ServerInv, TypeOK, Conns
<1>3. tasks \in [Loops -> Seq(Tasks)]
  BY DEF ServerInv, TypeOK
<1>4. /\ Own(tasks, conn[c].loop, c) \in Nat
      /\ \A l \in Loops, op \in Ops : Num(tasks, l, op, c) \in Nat
  BY <1>1, <1>3, CountsNat
<1>5. /\ conn[c].refs \in Nat /\ conn[c].working \in Nat /\ conn[c].answered \in Nat
      /\ conn[c].unsent \in Nat /\ conn[c].closeCalls \in Nat
  BY <1>1 DEF ConnType
<1> QED BY <1>1, <1>2, <1>3, <1>4, <1>5 DEF ServerInv, TypeOK, Loops

\* Another value for one connection.
LEMMA Replaced ==
    ASSUME conn \in [Conns -> ConnType], NEW c \in Conns, NEW v \in ConnType,
           conn' = [conn EXCEPT ![c] = v]
    PROVE  /\ conn' \in [Conns -> ConnType]
           /\ conn'[c] = v
           /\ \A d \in Conns \ {c} : conn'[d] = conn[d]
OBVIOUS

\* A loop that runs a task on c pops it.
LEMMA RunsEffect ==
    ASSUME ServerInv, NEW c \in Conns, NEW l \in {conn[c].loop, Base}, NEW op \in Ops,
           Runs(l, <<op, c>>)
    PROVE  /\ Alters(tasks, Popped(l), conn[c].loop, c)
           /\ Counted(Popped(l), tasks, conn[c].loop, l, op, c)
           /\ Num(tasks, l, op, c) > 0
           /\ op # "delete" => conn[c].refs > 0
           /\ conn[c].state # "none"
<1> DEFINE k == conn[c].loop
<1>1. k \in Loops /\ l \in Loops /\ tasks \in [Loops -> Seq(Tasks)] /\ conn[c] \in ConnType
  BY ConnFacts
<1>2. tasks[l] # <<>> /\ Head(tasks[l]) = <<op, c>>
  BY DEF Runs
<1>3. Popped(l) = [tasks EXCEPT ![l] = Tail(@)]
  BY DEF Popped
<1>4. l = k \/ l = Base
  OBVIOUS
<1>5. Alters(tasks, Popped(l), k, c) /\ Counted(Popped(l), tasks, k, l, op, c)
  BY ONLY <1>1, <1>2, <1>3, <1>4, PopEffect, c \in Conns, op \in Ops
<1>6. Popped(l) \in [Loops -> Seq(Tasks)]
  BY <1>5 DEF Alters
<1>7. Own(Popped(l), k, c) \in Nat /\ Num(Popped(l), l, op, c) \in Nat
  BY <1>1, <1>6, CountsNat
<1>8. Num(tasks, l, op, c) > 0 /\ (op # "delete" => Own(tasks, k, c) > 0)
  BY <1>1, <1>5, <1>7 DEF Counted
<1>9. RefsInv(c) /\ Own(tasks, k, c) \in Nat
  BY ConnFacts DEF ConnInv
<1>10. op # "delete" => conn[c].refs > 0
  <2>1. conn[c].refs = (IF c \in ledger THEN 1 ELSE 0) + Own(tasks, k, c)
                       + conn[c].working + conn[c].answered
    BY <1>9 DEF RefsInv
  <2>2. conn[c].working \in Nat /\ conn[c].answered \in Nat
    BY ConnFacts
  <2> QED BY ONLY <1>8, <1>9, <2>1, <2>2
<1>11. conn[c].state # "none"
  <2>1. tasks[l] \in Seq(Tasks)
    BY <1>1
  <2>2. <<op, c>> \in Range(tasks[l])
    BY <1>2, <2>1 DEF Range
  <2>3. c < nextConnId
    BY <1>1, <2>2 DEF ServerInv, Placed
  <2> QED BY <2>3, ConnFacts
<1> QED BY <1>5, <1>8, <1>10, <1>11

\* An event of c finds a connection that is not deleted.
LEMMA DispatchFacts ==
    ASSUME ServerInv, NEW c \in Conns, NEW kind, Dispatched(c, kind)
    PROVE  /\ conn[c].state \notin {"none", "deleted"}
           /\ Num(tasks, conn[c].loop, "establish", c) = 0
           /\ UNCHANGED <<server, listener, ledger>>
           /\ active' \in [Loops -> SUBSET Events]
           /\ \A l \in Loops : active'[l] \subseteq active[l]
<1>1. <<c, kind>> \in active[conn[c].loop] /\ conn[c].loop \in Loops
  BY ConnFacts DEF Dispatched
<1>2. c < nextConnId /\ conn[c].state # "deleted"
  BY <1>1 DEF ServerInv, Placed
<1>3. ~Untouched(c)
  BY <1>1 DEF Untouched
<1>4. Num(tasks, conn[c].loop, "establish", c) = 0
  BY <1>3, ConnFacts DEF ConnInv, StartInv
<1>5. active' = [active EXCEPT ![conn[c].loop] = @ \ {<<c, kind>>}]
      /\ active \in [Loops -> SUBSET Events]
  BY ConnFacts DEF Dispatched
<1>6. /\ active' \in [Loops -> SUBSET Events]
      /\ \A l \in Loops : active'[l] \subseteq active[l]
  BY <1>5
<1> QED BY <1>2, <1>4, <1>6, ConnFacts DEF Dispatched

\* EPOLLHUP and the events of a closing connection do nothing.
LEMMA IgnoreEventInv ==
    ASSUME ServerInv, NEW c \in Conns, NEW kind, IgnoreEvent(c, kind)
    PROVE  ServerInv'
<1>1. /\ conn' = conn /\ tasks' = tasks /\ ledger' = ledger
      /\ conn[c].state \notin {"none", "deleted"}
      /\ active' \in [Loops -> SUBSET Events]
      /\ \A l \in Loops : active'[l] \subseteq active[l]
      /\ UNCHANGED <<server, listener>>
  BY DispatchFacts DEF IgnoreEvent
<1>2. StepAbout(c)
  BY <1>1, ConnFacts DEF StepAbout, Alters, OthersEqual
<1>3. ConnInv(c)'
  <2>1. ConnInv(c) /\ conn[c].loop \in Loops
    BY ConnFacts
  <2>2. ~Untouched(c)
    BY DEF IgnoreEvent, Dispatched, Untouched
  <2> QED BY <1>1, <2>1, <2>2
          DEF ConnInv, RefsInv, DeleteInv, CloseInv, StartInv, OutputInv
<1> QED BY <1>1, <1>2, <1>3, AboutOne, ConnFacts

\* Complete requests become jobs that own the connection.
LEMMA ReadRequestsInv ==
    ASSUME ServerInv, NEW c \in Conns, NEW n \in 0..MaxRequests, ReadRequests(c, n)
    PROVE  ServerInv'
<1> DEFINE k == conn[c].loop
           cc == conn[c]
           new == [cc EXCEPT !.received = @ + n, !.working = @ + n, !.refs = @ + n,
                             !.timer = TRUE]
<1>1. cc \in ConnType /\ k \in Loops /\ conn \in [Conns -> ConnType]
  BY ConnFacts
<1>2. /\ Dispatched(c, "in") /\ cc.state = "kConnected" /\ cc.received + n <= MaxRequests
      /\ tasks' = tasks
  BY DEF ReadRequests, Reads
<1>3. conn' = [conn EXCEPT ![c] = new]
  BY <1>1 DEF ReadRequests, WithRequests, ConnType
<1>4. new \in ConnType
  <2>1. cc.received \in 0..MaxRequests /\ cc.working \in Nat /\ cc.refs \in Nat
    BY <1>1 DEF ConnType
  <2>2. cc.received + n \in 0..MaxRequests /\ cc.working + n \in Nat /\ cc.refs + n \in Nat
    BY ONLY <1>2, <2>1, n \in 0..MaxRequests, BoundsAssumption
  <2> QED BY ONLY <1>1, <2>2 DEF ConnType
<1>5. /\ new.loop = k /\ new.state = "kConnected" /\ new.refs = cc.refs + n
      /\ new.working = cc.working + n /\ new.answered = cc.answered
      /\ new.closeCalls = cc.closeCalls /\ new.unsent = cc.unsent
      /\ new.events = cc.events /\ new.failed = cc.failed
  BY <1>1, <1>2 DEF ConnType
<1> HIDE DEF new
<1>6. /\ conn' \in [Conns -> ConnType] /\ conn'[c] = new
      /\ \A d \in Conns \ {c} : conn'[d] = conn[d]
  BY <1>1, <1>3, <1>4, Replaced
<1>7. /\ Num(tasks, k, "establish", c) = 0
      /\ UNCHANGED <<server, listener, ledger>>
      /\ active' \in [Loops -> SUBSET Events]
      /\ \A l \in Loops : active'[l] \subseteq active[l]
  BY <1>2, DispatchFacts
<1>8. StepAbout(c)
  BY <1>2, <1>5, <1>6, <1>7, ConnFacts DEF StepAbout, Alters, OthersEqual
<1>9. ConnInv(c)'
  <2>1. ConnInv(c) /\ Own(tasks, k, c) \in Nat
        /\ cc.refs \in Nat /\ cc.working \in Nat /\ cc.answered \in Nat
    BY ConnFacts
  <2> HIDE DEF cc
  <2>2. RefsInv(c)'
    BY <1>2, <1>5, <1>6, <1>7, <2>1 DEF ConnInv, RefsInv, cc
  <2>3. DeleteInv(c)'
    <3>1. c \in ledger
      BY <1>2, <2>1 DEF ConnInv, CloseInv, cc
    <3>2. cc.refs > 0
      BY <2>1, <3>1 DEF ConnInv, RefsInv, cc
    <3> QED BY <1>2, <1>5, <1>6, <2>1, <3>2 DEF ConnInv, DeleteInv, cc
  <2>4. CloseInv(c)'
    BY <1>2, <1>5, <1>6, <1>7, <2>1 DEF ConnInv, CloseInv, cc
  <2>5. StartInv(c)' /\ OutputInv(c)'
    BY <1>2, <1>5, <1>6, <1>7, <2>1 DEF ConnInv, StartInv, OutputInv, cc
  <2> QED BY <2>2, <2>3, <2>4, <2>5 DEF ConnInv
<1> QED BY <1>2, <1>8, <1>9, AboutOne, ConnFacts

\* A malformed message leads to forceClose.
LEMMA ReadGarbageInv ==
    ASSUME ServerInv, NEW c \in Conns, NEW n \in 0..MaxRequests, ReadGarbage(c, n)
    PROVE  ServerInv'
<1> DEFINE k == conn[c].loop
           cc == conn[c]
           new == [cc EXCEPT !.received = @ + n, !.working = @ + n, !.refs = (@ + n) + 1,
                             !.state = "kDisconnecting", !.timer = FALSE]
<1>1. /\ cc \in ConnType /\ k \in Loops /\ conn \in [Conns -> ConnType]
      /\ tasks \in [Loops -> Seq(Tasks)]
  BY ConnFacts
<1>2. /\ Dispatched(c, "in") /\ cc.state = "kConnected" /\ cc.received + n <= MaxRequests
      /\ tasks' = Post(tasks, k, <<"forceClose", c>>)
  BY DEF ReadGarbage, Reads
<1>3. conn' = [conn EXCEPT ![c] = new]
  <2>1. ForceClosed(WithRequests(cc, n)) = new
    BY <1>1 DEF WithRequests, ForceClosed, ConnType
  <2> QED BY <2>1 DEF ReadGarbage
<1>4. new \in ConnType
  <2>1. cc.received \in 0..MaxRequests /\ cc.working \in Nat /\ cc.refs \in Nat
    BY <1>1 DEF ConnType
  <2>2. /\ cc.received + n \in 0..MaxRequests /\ cc.working + n \in Nat
        /\ (cc.refs + n) + 1 \in Nat
    BY ONLY <1>2, <2>1, n \in 0..MaxRequests, BoundsAssumption
  <2> QED BY ONLY <1>1, <2>2 DEF ConnType
<1>5. /\ new.loop = k /\ new.state = "kDisconnecting" /\ new.refs = (cc.refs + n) + 1
      /\ new.working = cc.working + n /\ new.answered = cc.answered
      /\ new.closeCalls = cc.closeCalls
  BY <1>1, <1>2 DEF ConnType
<1> HIDE DEF new
<1>6. /\ conn' \in [Conns -> ConnType] /\ conn'[c] = new
      /\ \A d \in Conns \ {c} : conn'[d] = conn[d]
  BY <1>1, <1>3, <1>4, Replaced
<1>7. /\ Num(tasks, k, "establish", c) = 0
      /\ UNCHANGED <<server, listener, ledger>>
      /\ active' \in [Loops -> SUBSET Events]
      /\ \A l \in Loops : active'[l] \subseteq active[l]
  BY <1>2, DispatchFacts
<1>8. Alters(tasks, tasks', k, c) /\ Counted(tasks, tasks', k, k, "forceClose", c)
  <2>1. "forceClose" \in Ops
    BY DEF Ops
  <2> QED BY <1>1, <1>2, <2>1, PostEffect
<1>9. StepAbout(c)
  BY <1>5, <1>6, <1>7, <1>8 DEF StepAbout
<1>10. ConnInv(c)'
  <2>1. /\ ConnInv(c) /\ Own(tasks, k, c) \in Nat
        /\ cc.refs \in Nat /\ cc.working \in Nat /\ cc.answered \in Nat
        /\ \A l \in Loops, op \in Ops : Num(tasks, l, op, c) \in Nat
    BY ConnFacts
  <2>2. /\ Own(tasks', k, c) = Own(tasks, k, c) + 1
        /\ Num(tasks', k, "forceClose", c) = Num(tasks, k, "forceClose", c) + 1
        /\ Num(tasks', k, "establish", c) = Num(tasks, k, "establish", c)
        /\ Num(tasks', k, "delete", c) = Num(tasks, k, "delete", c)
        /\ Num(tasks', Base, "remove", c) = Num(tasks, Base, "remove", c)
    BY <1>1, <1>8, <2>1 DEF Counted, Ops, Loops
  <2> HIDE DEF cc
  <2>3. c \in ledger /\ cc.closeCalls = 0 /\ Num(tasks, k, "forceClose", c) = 0
        /\ Num(tasks, Base, "remove", c) = 0
    BY <1>2, <2>1 DEF ConnInv, CloseInv, cc
  <2>4. RefsInv(c)'
    BY <1>2, <1>5, <1>6, <1>7, <2>1, <2>2 DEF ConnInv, RefsInv, cc
  <2>5. DeleteInv(c)'
    <3>1. cc.refs > 0
      BY <2>1, <2>3 DEF ConnInv, RefsInv, cc
    <3> QED BY <1>2, <1>5, <1>6, <2>1, <2>2, <3>1 DEF ConnInv, DeleteInv, cc
  <2>6. CloseInv(c)'
    BY <1>5, <1>6, <1>7, <2>2, <2>3 DEF CloseInv
  <2>7. StartInv(c)' /\ OutputInv(c)'
    BY <1>5, <1>6, <1>7, <2>2 DEF StartInv, OutputInv
  <2> QED BY <2>4, <2>5, <2>6, <2>7 DEF ConnInv
<1> QED BY <1>2, <1>9, <1>10, AboutOne, ConnFacts

\* closeCallback_ is called, and the timer is as given afterwards.
Closes(c, timer) ==
    /\ conn' = [conn EXCEPT ![c] = [Closed(conn[c]) EXCEPT !.timer = timer]]
    /\ tasks' = CloseCallback(tasks, c)
    /\ UNCHANGED <<server, listener, ledger>>

\* It is called for a connection that was open.
LEMMA ClosesInv ==
    ASSUME ServerInv, NEW c \in Conns, conn[c].state = "kConnected",
           Num(tasks, conn[c].loop, "establish", c) = 0,
           NEW timer \in BOOLEAN, Closes(c, timer),
           active' \in [Loops -> SUBSET Events], \A l \in Loops : active'[l] \subseteq active[l]
    PROVE  ServerInv'
<1> DEFINE k == conn[c].loop
           cc == conn[c]
           new == [cc EXCEPT !.state = "kDisconnecting", !.events = {}, !.refs = @ + 1,
                             !.closeCalls = @ + 1, !.timer = timer]
<1>1. /\ cc \in ConnType /\ k \in Loops /\ Base \in Loops /\ conn \in [Conns -> ConnType]
      /\ tasks \in [Loops -> Seq(Tasks)]
  BY ConnFacts
<1>2. conn' = [conn EXCEPT ![c] = new]
  <2>1. [Closed(cc) EXCEPT !.timer = timer] = new
    BY <1>1 DEF Closed, ConnType
  <2> QED BY <2>1 DEF Closes
<1>3. new \in ConnType
  <2>1. cc.refs + 1 \in Nat /\ cc.closeCalls + 1 \in Nat
    BY <1>1 DEF ConnType
  <2> QED BY ONLY <1>1, <2>1, timer \in BOOLEAN DEF ConnType
<1>4. /\ new.loop = k /\ new.state = "kDisconnecting" /\ new.refs = cc.refs + 1
      /\ new.working = cc.working /\ new.answered = cc.answered
      /\ new.closeCalls = cc.closeCalls + 1
  BY <1>1 DEF ConnType
<1> HIDE DEF new
<1>5. /\ conn' \in [Conns -> ConnType] /\ conn'[c] = new
      /\ \A d \in Conns \ {c} : conn'[d] = conn[d]
  BY <1>1, <1>2, <1>3, Replaced
<1>6. Alters(tasks, tasks', k, c) /\ Counted(tasks, tasks', k, Base, "remove", c)
  <2>1. "remove" \in Ops /\ tasks' = Post(tasks, Base, <<"remove", c>>)
    BY DEF Ops, CloseCallback, Closes
  <2> QED BY <1>1, <2>1, PostEffect
<1>7. StepAbout(c)
  BY <1>4, <1>5, <1>6 DEF StepAbout, Closes
<1>8. ConnInv(c)'
  <2>1. /\ ConnInv(c) /\ ledger' = ledger /\ Own(tasks, k, c) \in Nat
        /\ cc.refs \in Nat /\ cc.working \in Nat /\ cc.answered \in Nat
        /\ \A l \in Loops, op \in Ops : Num(tasks, l, op, c) \in Nat
    BY ConnFacts DEF Closes
  <2>2. /\ Own(tasks', k, c) = Own(tasks, k, c) + 1
        /\ Num(tasks', k, "forceClose", c) = Num(tasks, k, "forceClose", c)
        /\ Num(tasks', k, "establish", c) = Num(tasks, k, "establish", c)
        /\ Num(tasks', k, "delete", c) = Num(tasks, k, "delete", c)
    BY <1>1, <1>6, <2>1 DEF Counted, Ops
  <2> HIDE DEF cc
  <2>3. c \in ledger /\ cc.closeCalls = 0 /\ Num(tasks, k, "forceClose", c) = 0
    BY <2>1 DEF ConnInv, CloseInv, cc
  <2>4. RefsInv(c)'
    BY <1>4, <1>5, <2>1, <2>2 DEF ConnInv, RefsInv, cc
  <2>5. DeleteInv(c)'
    <3>1. cc.refs > 0
      BY <2>1, <2>3 DEF ConnInv, RefsInv, cc
    <3> QED BY <1>4, <1>5, <2>1, <2>2, <3>1 DEF ConnInv, DeleteInv, cc
  <2>6. CloseInv(c)'
    BY <1>4, <1>5, <2>1, <2>2, <2>3 DEF CloseInv
  <2>7. StartInv(c)' /\ OutputInv(c)'
    BY <1>4, <1>5, <2>2 DEF StartInv, OutputInv
  <2> QED BY <2>4, <2>5, <2>6, <2>7 DEF ConnInv
<1> QED BY <1>7, <1>8, AboutOne, ConnFacts

\* End of file or a socket error.
LEMMA ReadClosedInv ==
    ASSUME ServerInv, NEW c \in Conns, ReadClosed(c)
    PROVE  ServerInv'
<1>1. /\ Dispatched(c, "in") /\ conn[c].state = "kConnected"
      /\ conn' = [conn EXCEPT ![c] = Closed(conn[c])] /\ tasks' = CloseCallback(tasks, c)
  BY DEF ReadClosed, Reads
<1>2. conn[c] \in ConnType
  BY ConnFacts
<1>3. /\ conn[c].timer \in BOOLEAN
      /\ Closed(conn[c]) = [Closed(conn[c]) EXCEPT !.timer = conn[c].timer]
  BY <1>2 DEF Closed, ConnType
<1>4. /\ Num(tasks, conn[c].loop, "establish", c) = 0
      /\ UNCHANGED <<server, listener, ledger>>
      /\ active' \in [Loops -> SUBSET Events]
      /\ \A l \in Loops : active'[l] \subseteq active[l]
  BY <1>1, DispatchFacts
<1>5. Closes(c, conn[c].timer)
  BY <1>1, <1>3, <1>4 DEF Closes
<1> QED BY <1>1, <1>3, <1>4, <1>5, ClosesInv

\* What handleWrite does to a connection.
LEMMA FlushedFacts ==
    ASSUME NEW cc \in ConnType, NEW new \in Flushed(cc)
    PROVE  /\ new \in ConnType
           /\ new.loop = cc.loop /\ new.state = cc.state /\ new.registered = cc.registered
           /\ new.refs = cc.refs /\ new.working = cc.working /\ new.answered = cc.answered
           /\ new.closeCalls = cc.closeCalls
           /\ new.unsent > 0 => "out" \in new.events \/ new.failed
<1>1. cc.events \subseteq {"in", "out"} /\ cc.unsent \in Nat
  BY DEF ConnType
<1>2. CASE new = [cc EXCEPT !.unsent = 0, !.failed = FALSE, !.events = @ \ {"out"}]
  <2>1. cc.events \ {"out"} \in SUBSET {"in", "out"}
    BY <1>1
  <2>2. new \in ConnType /\ new.unsent = 0
    BY ONLY <1>2, <2>1, cc \in ConnType DEF ConnType
  <2>3. /\ new.loop = cc.loop /\ new.state = cc.state /\ new.registered = cc.registered
        /\ new.refs = cc.refs /\ new.working = cc.working /\ new.answered = cc.answered
        /\ new.closeCalls = cc.closeCalls
    BY ONLY <1>2, cc \in ConnType DEF ConnType
  <2> QED BY ONLY <2>2, <2>3
<1>3. CASE \E n \in 1..cc.unsent : new = Blocked(cc, n)
  <2>1. PICK n \in 1..cc.unsent : new = [cc EXCEPT !.unsent = n, !.failed = FALSE,
                                                 !.events = @ \cup {"out"}]
    BY <1>3 DEF Blocked
  <2>2. cc.events \cup {"out"} \in SUBSET {"in", "out"} /\ n \in Nat
    BY <1>1
  <2> QED BY ONLY <2>1, <2>2, cc \in ConnType DEF ConnType
<1>4. CASE \E n \in 1..cc.unsent : new = [cc EXCEPT !.unsent = n, !.failed = TRUE]
  <2>1. PICK n \in 1..cc.unsent : new = [cc EXCEPT !.unsent = n, !.failed = TRUE]
    BY <1>4
  <2>2. n \in Nat
    BY <1>1
  <2> QED BY ONLY <2>1, <2>2, cc \in ConnType DEF ConnType
<1> QED BY <1>2, <1>3, <1>4 DEF Flushed

\* A step that leaves the owners, the state and the tasks of a connection alone.
LEMMA QuietInv ==
    ASSUME ServerInv, NEW c \in Conns, NEW new \in ConnType,
           conn' = [conn EXCEPT ![c] = new],
           conn[c].state # "none", ~Untouched(c),
           tasks' = tasks, UNCHANGED <<server, listener, ledger>>,
           active' \in [Loops -> SUBSET Events], \A l \in Loops : active'[l] \subseteq active[l],
           new.loop = conn[c].loop, new.state = conn[c].state,
           new.registered = conn[c].registered, new.refs = conn[c].refs,
           new.working = conn[c].working, new.answered = conn[c].answered,
           new.closeCalls = conn[c].closeCalls,
           new.state = "kConnected" /\ new.unsent > 0 => "out" \in new.events \/ new.failed
    PROVE  ServerInv'
<1>1. /\ conn' \in [Conns -> ConnType] /\ conn'[c] = new
      /\ \A d \in Conns \ {c} : conn'[d] = conn[d]
  BY Replaced, ConnFacts
<1>2. conn[c].loop \in Loops /\ ConnInv(c) /\ c < nextConnId
  BY ConnFacts
<1>3. conn[c].state = "deleted" => \A e \in active[conn[c].loop] : e[1] # c
  BY <1>2 DEF ServerInv, Placed
<1>4. StepAbout(c)
  BY <1>1, <1>3, ConnFacts DEF StepAbout, Alters, OthersEqual
<1>5. Num(tasks, conn[c].loop, "establish", c) = 0
  BY <1>2 DEF ConnInv, StartInv
<1>6. RefsInv(c)' /\ DeleteInv(c)'
  BY <1>1, <1>2 DEF ConnInv, RefsInv, DeleteInv
<1>7. CloseInv(c)'
  BY <1>1, <1>2 DEF ConnInv, CloseInv
<1>8. StartInv(c)' /\ OutputInv(c)'
  BY <1>1, <1>2, <1>5 DEF ConnInv, StartInv, OutputInv
<1> QED BY <1>2, <1>4, <1>6, <1>7, <1>8, AboutOne DEF ConnInv

\* The socket is writable again.
LEMMA WriteReadyInv ==
    ASSUME ServerInv, NEW c \in Conns, WriteReady(c)
    PROVE  ServerInv'
<1>1. PICK new \in Flushed(conn[c]) : conn' = [conn EXCEPT ![c] = new]
  BY DEF WriteReady
<1>2. conn[c] \in ConnType
  BY ConnFacts
<1>3. /\ conn[c].state \notin {"none", "deleted"} /\ tasks' = tasks
      /\ UNCHANGED <<server, listener, ledger>>
      /\ active' \in [Loops -> SUBSET Events]
      /\ \A l \in Loops : active'[l] \subseteq active[l]
  BY DispatchFacts DEF WriteReady
<1>4. ~Untouched(c)
  BY DEF WriteReady, Dispatched, Untouched
<1> QED BY <1>1, <1>2, <1>3, <1>4, FlushedFacts, QuietInv

\* The keep-alive timer closes an open connection and nothing else.
LEMMA TimeoutInv ==
    ASSUME ServerInv, NEW c \in Conns, Timeout(c)
    PROVE  ServerInv'
<1>1. /\ conn[c] \in ConnType /\ conn[c].loop \in Loops /\ ConnInv(c)
      /\ active \in [Loops -> SUBSET Events]
  BY ConnFacts
<1>2. /\ active' = active /\ UNCHANGED <<server, listener, ledger>> /\ conn[c].timer
  BY DEF Timeout
<1>3. conn[c].state # "none" /\ ~Untouched(c)
  <2>1. ~Unborn(conn[c].loop).timer
        /\ ~[Unborn(conn[c].loop) EXCEPT !.state = "kConnected", !.refs = 2].timer
    BY DEF Unborn
  <2> QED BY <1>1, <1>2, <2>1 DEF ConnInv, StartInv, Untouched
<1>4. Num(tasks, conn[c].loop, "establish", c) = 0
  BY <1>1, <1>3 DEF ConnInv, StartInv
<1>5. CASE TimeoutCloses(c)
  <2>1. Closes(c, FALSE) /\ conn[c].state = "kConnected"
    BY <1>2, <1>5 DEF Closes, Timeout, TimeoutCloses
  <2> QED BY <1>1, <1>2, <1>4, <2>1, ClosesInv
<1>6. CASE ~TimeoutCloses(c)
  <2> DEFINE new == [conn[c] EXCEPT !.timer = FALSE]
  <2>1. conn' = [conn EXCEPT ![c] = new] /\ tasks' = tasks
    BY <1>6 DEF Timeout
  <2>2. new \in ConnType
    BY <1>1 DEF ConnType
  <2>3. /\ new.loop = conn[c].loop /\ new.state = conn[c].state
        /\ new.registered = conn[c].registered /\ new.refs = conn[c].refs
        /\ new.working = conn[c].working /\ new.answered = conn[c].answered
        /\ new.closeCalls = conn[c].closeCalls /\ new.unsent = conn[c].unsent
        /\ new.events = conn[c].events /\ new.failed = conn[c].failed
    BY <1>1 DEF ConnType
  <2>4. OutputInv(c)
    BY <1>1 DEF ConnInv
  <2> HIDE DEF new
  <2> QED BY <1>1, <1>2, <1>3, <2>1, <2>2, <2>3, <2>4, QuietInv DEF OutputInv
<1> QED BY <1>5, <1>6

\* References of a connection go: the rest of a step that drops n of them after it
\* changed the tasks to mid.
Drops(c, mid, n, new) ==
    /\ conn' = [conn EXCEPT ![c] = new]
    /\ tasks' = Release(mid, c, n)
    /\ ledger' \in {ledger, ledger \ {c}}
    /\ UNCHANGED <<server, listener, active>>

LEMMA DropsFacts ==
    ASSUME ServerInv, NEW c \in Conns, NEW n \in {1, 2}, NEW new \in ConnType, NEW mid,
           Alters(tasks, mid, conn[c].loop, c), Drops(c, mid, n, new),
           conn[c].state \in {"kConnected", "kDisconnecting"}, conn[c].refs >= n,
           Num(mid, conn[c].loop, "delete", c) = Num(tasks, conn[c].loop, "delete", c),
           new.loop = conn[c].loop, new.state = conn[c].state,
           new.refs = conn[c].refs - n
    PROVE  /\ StepAbout(c) /\ DeleteInv(c)'
           /\ conn'[c] = new
           /\ Own(tasks', conn[c].loop, c) = Own(mid, conn[c].loop, c)
           /\ \A op \in {"establish", "forceClose", "send"} :
                 Num(tasks', conn[c].loop, op, c) = Num(mid, conn[c].loop, op, c)
           /\ Num(tasks', Base, "remove", c) = Num(mid, Base, "remove", c)
<1> DEFINE k == conn[c].loop
<1>1. /\ k \in Loops /\ ConnInv(c) /\ conn \in [Conns -> ConnType] /\ conn[c].refs \in Nat
      /\ active \in [Loops -> SUBSET Events]
  BY ConnFacts
<1>2. /\ conn' \in [Conns -> ConnType] /\ conn'[c] = new
      /\ \A d \in Conns \ {c} : conn'[d] = conn[d]
  BY <1>1, Replaced DEF Drops
<1>3. mid \in [Loops -> Seq(Tasks)] /\ tasks' = Release(mid, c, n)
  BY DEF Alters, Drops
<1>4. /\ Alters(mid, tasks', k, c)
      /\ IF conn[c].refs = n THEN Counted(mid, tasks', k, k, "delete", c) ELSE tasks' = mid
  BY <1>1, <1>3, ReleaseEffect
<1>5. Own(mid, k, c) \in Nat /\ \A l \in Loops, op \in Ops : Num(mid, l, op, c) \in Nat
  BY <1>1, <1>3, CountsNat
<1>6. Own(tasks', k, c) = Own(mid, k, c)
  BY <1>4, <1>5 DEF Counted
<1>7. /\ \A op \in {"establish", "forceClose", "send"} :
            Num(tasks', k, op, c) = Num(mid, k, op, c)
      /\ Num(tasks', Base, "remove", c) = Num(mid, Base, "remove", c)
  <2>1. ASSUME NEW l \in Loops, NEW op \in Ops, op # "delete"
        PROVE  Num(tasks', l, op, c) = Num(mid, l, op, c)
    BY <1>4, <1>5, <2>1 DEF Counted
  <2>2. /\ {"establish", "forceClose", "send", "remove"} \subseteq Ops
        /\ Base \in Loops
    BY DEF Ops, Loops
  <2> QED BY <1>1, <2>1, <2>2
<1>8. Alters(tasks, tasks', k, c)
  BY <1>4, AltersTwice
<1>9. StepAbout(c)
  BY <1>1, <1>2, <1>8 DEF StepAbout, Drops
<1>10. DeleteInv(c)'
  <2>1. Num(mid, k, "delete", c) = 0
    BY <1>1 DEF ConnInv, DeleteInv
  <2>2. "delete" \in Ops
    BY DEF Ops
  <2>3. Num(tasks', k, "delete", c) = IF conn[c].refs = n THEN 1 ELSE 0
    BY <1>1, <1>4, <2>1, <2>2 DEF Counted
  <2>4. new.refs = 0 <=> conn[c].refs = n
    BY <1>1
  <2> QED BY <1>2, <2>3, <2>4 DEF DeleteInv
<1> QED BY <1>2, <1>6, <1>7, <1>9, <1>10

\* connectEstablished.
LEMMA EstablishInv ==
    ASSUME ServerInv, NEW c \in Conns, Establish(c)
    PROVE  ServerInv'
<1> DEFINE k == conn[c].loop
           cc == conn[c]
           mid == Popped(k)
           new == [cc EXCEPT !.registered = TRUE, !.events = {"in"}, !.timer = TRUE,
                             !.refs = @ - 1]
<1>1. /\ cc \in ConnType /\ k \in Loops /\ Base \in Loops /\ conn \in [Conns -> ConnType]
      /\ ConnInv(c) /\ tasks \in [Loops -> Seq(Tasks)] /\ Own(tasks, k, c) \in Nat
      /\ \A l \in Loops, op \in Ops : Num(tasks, l, op, c) \in Nat
  BY ConnFacts
<1>2. "establish" \in Ops /\ Runs(k, <<"establish", c>>)
  BY DEF Ops, Establish
<1>3. /\ Alters(tasks, mid, k, c) /\ Counted(mid, tasks, k, k, "establish", c)
      /\ Num(tasks, k, "establish", c) > 0
  BY <1>2, RunsEffect
<1>4. Num(tasks, k, "establish", c) = 1 /\ Untouched(c)
  BY <1>1, <1>3 DEF ConnInv, StartInv
<1>5. /\ cc.state = "kConnected" /\ cc.refs = 2 /\ cc.unsent = 0 /\ cc.closeCalls = 0
      /\ cc.working = 0 /\ cc.answered = 0
  <2>1. cc = [Unborn(k) EXCEPT !.state = "kConnected", !.refs = 2]
    BY <1>4 DEF Untouched
  <2> QED BY ONLY <2>1 DEF Unborn
<1>6. new \in ConnType
  <2>1. cc.refs - 1 \in Nat /\ {"in"} \in SUBSET {"in", "out"}
    BY <1>5
  <2> QED BY ONLY <1>1, <2>1 DEF ConnType
<1>7. /\ new.loop = k /\ new.state = "kConnected" /\ new.refs = cc.refs - 1
      /\ new.working = 0 /\ new.answered = 0 /\ new.closeCalls = 0 /\ new.unsent = 0
  BY <1>1, <1>5 DEF ConnType
<1>8. Drops(c, mid, 1, new) /\ ledger' = ledger
  BY <1>1 DEF Establish, Runs, Drops, ConnType
<1> HIDE DEF new, mid
<1>9. mid \in [Loops -> Seq(Tasks)]
  BY <1>3 DEF Alters
<1>10. Own(mid, k, c) \in Nat /\ \A l \in Loops, op \in Ops : Num(mid, l, op, c) \in Nat
  BY <1>1, <1>9, CountsNat
<1>11. /\ Own(tasks, k, c) = Own(mid, k, c) + 1
       /\ Num(tasks, k, "establish", c) = Num(mid, k, "establish", c) + 1
       /\ Num(mid, k, "forceClose", c) = Num(tasks, k, "forceClose", c)
       /\ Num(mid, k, "delete", c) = Num(tasks, k, "delete", c)
       /\ Num(mid, Base, "remove", c) = Num(tasks, Base, "remove", c)
  BY <1>1, <1>3, <1>10 DEF Counted, Ops
<1>12. /\ StepAbout(c) /\ DeleteInv(c)' /\ conn'[c] = new
       /\ Own(tasks', k, c) = Own(mid, k, c)
       /\ Num(tasks', k, "establish", c) = Num(mid, k, "establish", c)
       /\ Num(tasks', k, "forceClose", c) = Num(mid, k, "forceClose", c)
       /\ Num(tasks', Base, "remove", c) = Num(mid, Base, "remove", c)
  BY <1>3, <1>5, <1>6, <1>7, <1>8, <1>11, DropsFacts
<1>13. /\ Num(tasks', k, "establish", c) = 0
       /\ Num(tasks', k, "forceClose", c) = Num(tasks, k, "forceClose", c)
       /\ Num(tasks', Base, "remove", c) = Num(tasks, Base, "remove", c)
  <2>1. Num(mid, k, "establish", c) \in Nat
    BY <1>1, <1>2, <1>10
  <2> QED BY <1>4, <1>11, <1>12, <2>1
<1> HIDE DEF cc
<1>14. RefsInv(c)'
  BY <1>1, <1>5, <1>7, <1>8, <1>10, <1>11, <1>12 DEF ConnInv, RefsInv, cc
<1>15. CloseInv(c)'
  BY <1>1, <1>5, <1>7, <1>8, <1>12, <1>13 DEF ConnInv, CloseInv, cc
<1>16. StartInv(c)' /\ OutputInv(c)'
  BY <1>7, <1>12, <1>13 DEF StartInv, OutputInv
<1> QED BY <1>12, <1>14, <1>15, <1>16, <1>5, AboutOne, ConnFacts DEF ConnInv, cc

\* The second half of forceClose.
LEMMA ForceCloseInv ==
    ASSUME ServerInv, NEW c \in Conns, ForceClose(c)
    PROVE  ServerInv'
<1> DEFINE k == conn[c].loop
           cc == conn[c]
           mid == Popped(k)
           new == [cc EXCEPT !.events = {}, !.closeCalls = @ + 1]
<1>1. /\ cc \in ConnType /\ k \in Loops /\ Base \in Loops /\ conn \in [Conns -> ConnType]
      /\ ConnInv(c) /\ tasks \in [Loops -> Seq(Tasks)] /\ Own(tasks, k, c) \in Nat
      /\ active \in [Loops -> SUBSET Events]
      /\ \A l \in Loops, op \in Ops : Num(tasks, l, op, c) \in Nat
  BY ConnFacts
<1>2. {"forceClose", "remove"} \subseteq Ops /\ Runs(k, <<"forceClose", c>>)
  BY DEF Ops, ForceClose
<1>3. /\ Alters(tasks, mid, k, c) /\ Counted(mid, tasks, k, k, "forceClose", c)
      /\ Num(tasks, k, "forceClose", c) > 0 /\ cc.refs > 0
  BY <1>2, RunsEffect
<1>4. /\ cc.state = "kDisconnecting" /\ cc.closeCalls = 0
      /\ Num(tasks, k, "forceClose", c) = 1
      /\ Num(tasks, k, "establish", c) = 0
  <2>1. cc.closeCalls \in Nat /\ Num(tasks, k, "forceClose", c) \in Nat
    BY <1>1, <1>2 DEF ConnType
  <2>2. /\ cc.state = "kDisconnecting" /\ cc.closeCalls = 0
        /\ Num(tasks, k, "forceClose", c) = 1
    BY <1>1, <1>3, <2>1 DEF ConnInv, CloseInv
  <2>3. ~Untouched(c)
    BY <2>2 DEF Untouched, Unborn
  <2> QED BY <1>1, <2>2, <2>3 DEF ConnInv, StartInv
<1>5. new \in ConnType
  <2>1. cc.closeCalls + 1 \in Nat
    BY <1>4
  <2> QED BY ONLY <1>1, <2>1 DEF ConnType
<1>6. /\ new.loop = k /\ new.state = "kDisconnecting" /\ new.refs = cc.refs
      /\ new.working = cc.working /\ new.answered = cc.answered /\ new.closeCalls = 1
  BY <1>1, <1>4 DEF ConnType
<1>7. /\ conn' = [conn EXCEPT ![c] = new] /\ tasks' = Post(mid, Base, <<"remove", c>>)
      /\ UNCHANGED <<server, listener, ledger, active>>
  BY <1>1 DEF ForceClose, Runs, CloseCallback, ConnType
<1> HIDE DEF new, mid
<1>8. mid \in [Loops -> Seq(Tasks)]
  BY <1>3 DEF Alters
<1>9. Own(mid, k, c) \in Nat /\ \A l \in Loops, op \in Ops : Num(mid, l, op, c) \in Nat
  BY <1>1, <1>8, CountsNat
<1>10. /\ Own(tasks, k, c) = Own(mid, k, c) + 1
       /\ Num(mid, k, "forceClose", c) = 0
       /\ Num(mid, k, "establish", c) = 0
       /\ Num(mid, k, "delete", c) = Num(tasks, k, "delete", c)
  <2>1. /\ Own(tasks, k, c) = Own(mid, k, c) + 1
        /\ Num(tasks, k, "forceClose", c) = Num(mid, k, "forceClose", c) + 1
    BY <1>3 DEF Counted
  <2>2. /\ Num(tasks, k, "establish", c) = Num(mid, k, "establish", c)
        /\ Num(tasks, k, "delete", c) = Num(mid, k, "delete", c)
    BY <1>1, <1>3 DEF Counted, Ops
  <2>3. Num(mid, k, "forceClose", c) \in Nat
    BY <1>1, <1>9 DEF Ops
  <2>4. Num(mid, k, "forceClose", c) = 0
    BY <1>4, <2>1, <2>3
  <2> QED BY <1>4, <2>1, <2>2, <2>4
<1>11. Alters(mid, tasks', k, c) /\ Counted(mid, tasks', k, Base, "remove", c)
  BY <1>1, <1>2, <1>7, <1>8, PostEffect
<1>12. /\ Own(tasks', k, c) = Own(tasks, k, c)
       /\ Num(tasks', k, "forceClose", c) = 0
       /\ Num(tasks', k, "establish", c) = 0
       /\ Num(tasks', k, "delete", c) = Num(tasks, k, "delete", c)
  BY <1>1, <1>9, <1>10, <1>11 DEF Counted, Ops
<1>13. /\ conn' \in [Conns -> ConnType] /\ conn'[c] = new
       /\ \A d \in Conns \ {c} : conn'[d] = conn[d]
  BY <1>1, <1>5, <1>7, Replaced
<1>14. Alters(tasks, tasks', k, c)
  BY <1>3, <1>11, AltersTwice
<1>15. StepAbout(c)
  BY <1>1, <1>6, <1>7, <1>13, <1>14 DEF StepAbout
<1> HIDE DEF cc
<1>16. RefsInv(c)'
  BY <1>1, <1>6, <1>7, <1>12, <1>13 DEF ConnInv, RefsInv, cc
<1>17. DeleteInv(c)' /\ CloseInv(c)'
  BY <1>1, <1>4, <1>6, <1>7, <1>12, <1>13 DEF ConnInv, DeleteInv, CloseInv, cc
<1>18. StartInv(c)' /\ OutputInv(c)'
  BY <1>6, <1>12, <1>13 DEF StartInv, OutputInv
<1> QED BY <1>4, <1>15, <1>16, <1>17, <1>18, AboutOne, ConnFacts DEF ConnInv, cc

\* ~TcpConnection.
LEMMA DeleteKeeps ==
    ASSUME ServerInv, NEW c \in Conns, Delete(c)
    PROVE  ServerInv'
<1> DEFINE k == conn[c].loop
           cc == conn[c]
           new == [cc EXCEPT !.state = "deleted", !.registered = FALSE, !.events = {}]
<1>1. /\ cc \in ConnType /\ k \in Loops /\ Base \in Loops /\ conn \in [Conns -> ConnType]
      /\ ConnInv(c) /\ tasks \in [Loops -> Seq(Tasks)] /\ Own(tasks, k, c) \in Nat
      /\ active \in [Loops -> SUBSET Events]
      /\ \A l \in Loops, op \in Ops : Num(tasks, l, op, c) \in Nat
      /\ cc.refs \in Nat /\ cc.working \in Nat /\ cc.answered \in Nat
  BY ConnFacts
<1>2. "delete" \in Ops /\ Runs(k, <<"delete", c>>) /\ tasks' = Popped(k)
  BY DEF Ops, Delete
<1>3. /\ Alters(tasks, tasks', k, c) /\ Counted(tasks', tasks, k, k, "delete", c)
      /\ Num(tasks, k, "delete", c) > 0
  BY <1>2, RunsEffect
<1>4. /\ cc.state = "kDisconnecting" /\ cc.refs = 0
      /\ Num(tasks, k, "delete", c) = 1 /\ Own(tasks, k, c) = 0 /\ c \notin ledger
  <2>1. /\ cc.state \in {"kConnected", "kDisconnecting"} /\ cc.refs = 0
        /\ Num(tasks, k, "delete", c) = 1
    BY <1>1, <1>3 DEF ConnInv, DeleteInv
  <2>2. c \notin ledger /\ Own(tasks, k, c) = 0
    BY <1>1, <2>1 DEF ConnInv, RefsInv
  <2>3. cc.state # "kConnected"
    BY <1>1, <2>2 DEF ConnInv, CloseInv
  <2> QED BY <2>1, <2>2, <2>3
<1>5. /\ Num(tasks, k, "forceClose", c) = 0 /\ Num(tasks, k, "establish", c) = 0
      /\ cc.closeCalls = 1
  <2>1. \A t \in Range(tasks[k]) : ~(t[1] \in Owning /\ t[2] = c)
    BY <1>1, <1>4, OwnNone
  <2>2. {"forceClose", "establish"} \subseteq Owning
    BY DEF Owning, Ops
  <2>3. tasks[k] \in Seq(Tasks)
    BY <1>1
  <2>4. Count(tasks[k], {"forceClose"}, c) = 0 /\ Count(tasks[k], {"establish"}, c) = 0
    BY <2>1, <2>2, <2>3, CountNone
  <2>5. Num(tasks, k, "forceClose", c) = 0 /\ Num(tasks, k, "establish", c) = 0
    BY <2>4 DEF Num
  <2>6. cc.closeCalls \in Nat
    BY <1>1 DEF ConnType
  <2> QED BY <1>1, <1>4, <2>5, <2>6 DEF ConnInv, CloseInv
<1>6. new \in ConnType
  BY <1>1 DEF ConnType
<1>7. /\ new.loop = k /\ new.state = "deleted" /\ new.refs = 0 /\ ~new.registered
      /\ new.working = cc.working /\ new.answered = cc.answered /\ new.closeCalls = 1
  BY <1>1, <1>4, <1>5 DEF ConnType
<1>8. /\ conn' = [conn EXCEPT ![c] = new]
      /\ UNCHANGED <<server, listener, ledger, active>>
  BY <1>1 DEF Delete, Runs, ConnType
<1>9. active[k] = {}
  BY DEF Delete, Runs, Idle
<1> HIDE DEF new
<1>10. tasks' \in [Loops -> Seq(Tasks)]
  BY <1>3 DEF Alters
<1>11. /\ Own(tasks', k, c) \in Nat
       /\ \A l \in Loops, op \in Ops : Num(tasks', l, op, c) \in Nat
  BY <1>1, <1>10, CountsNat
<1>12. /\ Own(tasks', k, c) = 0
       /\ Num(tasks', k, "delete", c) = 0
       /\ Num(tasks', k, "forceClose", c) = 0
       /\ Num(tasks', k, "establish", c) = 0
  <2>1. Own(tasks', k, c) = Own(tasks, k, c)
    BY <1>3 DEF Counted
  <2>2. Num(tasks, k, "delete", c) = Num(tasks', k, "delete", c) + 1
    BY <1>3 DEF Counted
  <2>3. Num(tasks', k, "forceClose", c) = Num(tasks, k, "forceClose", c)
        /\ Num(tasks', k, "establish", c) = Num(tasks, k, "establish", c)
    BY <1>1, <1>3 DEF Counted, Ops
  <2>4. Num(tasks', k, "delete", c) \in Nat
    BY <1>1, <1>11 DEF Ops
  <2> QED BY <1>4, <1>5, <2>1, <2>2, <2>3, <2>4
<1>13. /\ conn' \in [Conns -> ConnType] /\ conn'[c] = new
       /\ \A d \in Conns \ {c} : conn'[d] = conn[d]
  BY <1>1, <1>6, <1>8, Replaced
<1>14. StepAbout(c)
  BY <1>1, <1>3, <1>7, <1>8, <1>9, <1>13 DEF StepAbout
<1> HIDE DEF cc
<1>15. RefsInv(c)'
  BY <1>1, <1>4, <1>7, <1>8, <1>12, <1>13 DEF ConnInv, RefsInv, cc
<1>16. DeleteInv(c)' /\ CloseInv(c)'
  BY <1>7, <1>8, <1>12, <1>13 DEF DeleteInv, CloseInv
<1>17. StartInv(c)' /\ OutputInv(c)'
  BY <1>7, <1>12, <1>13 DEF StartInv, OutputInv
<1> QED BY <1>4, <1>14, <1>15, <1>16, <1>17, AboutOne, ConnFacts DEF ConnInv, cc

\* A queued response, and an answering or finished job: the connection has an owner.
LEMMA OwnedFacts ==
    ASSUME ServerInv, NEW c \in Conns, conn[c].refs > 0, conn[c].state # "none"
    PROVE  /\ conn[c].state \in {"kConnected", "kDisconnecting"} /\ c < nextConnId
           /\ conn[c].state = "kConnected" => c \in ledger /\ conn[c].closeCalls = 0
           /\ conn[c].refs \in Nat
<1>1. conn[c] \in ConnType /\ ConnInv(c) /\ conn[c].refs \in Nat /\ c < nextConnId
  BY ConnFacts
<1>2. conn[c].state # "deleted"
  BY <1>1 DEF ConnInv, CloseInv
<1>3. conn[c].state \in {"kConnected", "kDisconnecting"}
  BY <1>1, <1>2 DEF ConnType
<1> QED BY <1>1, <1>3 DEF ConnInv, CloseInv

\* A job holds a reference to a connection that was established.
LEMMA JobFacts ==
    ASSUME ServerInv, NEW c \in Conns, conn[c].working + conn[c].answered > 0
    PROVE  conn[c].refs > 0 /\ conn[c].state # "none" /\ ~Untouched(c)
<1>1. /\ ConnInv(c) /\ Own(tasks, conn[c].loop, c) \in Nat
      /\ conn[c].refs \in Nat /\ conn[c].working \in Nat /\ conn[c].answered \in Nat
  BY ConnFacts
<1>2. conn[c].refs > 0
  BY <1>1 DEF ConnInv, RefsInv
<1>3. conn[c].working > 0 \/ conn[c].answered > 0
  BY <1>1
<1>4. conn[c].state # "none"
  <2>1. conn[c] = Unborn(conn[c].loop) => conn[c].working = 0 /\ conn[c].answered = 0
    BY DEF Unborn
  <2> QED BY <1>1, <1>3, <2>1 DEF ConnInv, StartInv
<1>5. ~Untouched(c)
  <2>1. Untouched(c) => conn[c].working = 0 /\ conn[c].answered = 0
    BY DEF Untouched, Unborn
  <2> QED BY <1>1, <1>3, <2>1
<1> QED BY <1>2, <1>4, <1>5

\* A response is sent, buffered or dropped.
LEMMA SendInv ==
    ASSUME ServerInv, NEW c \in Conns, Send(c)
    PROVE  ServerInv'
<1> DEFINE k == conn[c].loop
           cc == conn[c]
           mid == Popped(k)
           less == [cc EXCEPT !.refs = @ - 1]
           buffered == [less EXCEPT !.unsent = @ + 1]
<1>1. /\ cc \in ConnType /\ k \in Loops /\ Base \in Loops
      /\ ConnInv(c) /\ tasks \in [Loops -> Seq(Tasks)] /\ Own(tasks, k, c) \in Nat
      /\ \A l \in Loops, op \in Ops : Num(tasks, l, op, c) \in Nat
      /\ cc.refs \in Nat /\ cc.working \in Nat /\ cc.answered \in Nat /\ cc.unsent \in Nat
  BY ConnFacts
<1>2. "send" \in Ops /\ Runs(k, <<"send", c>>)
  BY DEF Ops, Send
<1>3. /\ Alters(tasks, mid, k, c) /\ Counted(mid, tasks, k, k, "send", c)
      /\ Num(tasks, k, "send", c) > 0 /\ cc.refs > 0 /\ cc.state # "none"
  BY <1>2, RunsEffect
<1>4. cc.state \in {"kConnected", "kDisconnecting"}
  BY <1>3, OwnedFacts
<1>5. ~Untouched(c) /\ Num(tasks, k, "establish", c) = 0
  BY <1>1, <1>3 DEF ConnInv, StartInv, Untouched
<1>6. less \in ConnType /\ buffered \in ConnType
  <2>1. cc.refs - 1 \in Nat /\ cc.unsent + 1 \in Nat
    BY <1>1, <1>3
  <2>2. less \in ConnType
    BY ONLY <1>1, <2>1 DEF ConnType
  <2>3. less.unsent = cc.unsent
    BY <1>1 DEF ConnType
  <2> QED BY ONLY <2>1, <2>2, <2>3 DEF ConnType
<1>7. /\ less.loop = k /\ less.state = cc.state /\ less.refs = cc.refs - 1
      /\ less.working = cc.working /\ less.answered = cc.answered
      /\ less.closeCalls = cc.closeCalls /\ less.events = cc.events
      /\ less.registered = cc.registered
  BY <1>1 DEF ConnType
<1>8. /\ buffered.loop = k /\ buffered.state = cc.state /\ buffered.refs = cc.refs - 1
      /\ buffered.working = cc.working /\ buffered.answered = cc.answered
      /\ buffered.closeCalls = cc.closeCalls /\ buffered.events = cc.events
      /\ buffered.registered = cc.registered
  BY <1>1 DEF ConnType
<1>9. PICK new \in IF less.state # "kConnected" THEN {less}
                   ELSE IF "out" \in less.events THEN {buffered}
                   ELSE Flushed(buffered) :
         Drops(c, mid, 1, new)
  BY DEF Send, Runs, Drops
<1>10. ledger' = ledger
  BY DEF Send
<1> HIDE DEF less, buffered, mid
<1>11. /\ new \in ConnType /\ new.loop = k /\ new.state = cc.state
       /\ new.refs = cc.refs - 1 /\ new.working = cc.working /\ new.answered = cc.answered
       /\ new.closeCalls = cc.closeCalls /\ new.registered = cc.registered
       /\ new.state = "kConnected" /\ new.unsent > 0 => "out" \in new.events \/ new.failed
  <2>1. CASE less.state # "kConnected"
    BY <1>6, <1>7, <1>9, <2>1
  <2>2. CASE less.state = "kConnected" /\ "out" \in less.events
    BY <1>6, <1>7, <1>8, <1>9, <2>2
  <2>3. CASE less.state = "kConnected" /\ "out" \notin less.events
    <3>1. new \in Flushed(buffered)
      BY <1>9, <2>3
    <3> QED BY <1>6, <1>8, <3>1, FlushedFacts
  <2> QED BY <2>1, <2>2, <2>3
<1>12. mid \in [Loops -> Seq(Tasks)]
  BY <1>3 DEF Alters
<1>13. Own(mid, k, c) \in Nat
  BY <1>1, <1>12, CountsNat
<1>14. /\ Own(tasks, k, c) = Own(mid, k, c) + 1
       /\ Num(mid, k, "establish", c) = Num(tasks, k, "establish", c)
       /\ Num(mid, k, "forceClose", c) = Num(tasks, k, "forceClose", c)
       /\ Num(mid, k, "delete", c) = Num(tasks, k, "delete", c)
       /\ Num(mid, Base, "remove", c) = Num(tasks, Base, "remove", c)
  BY <1>1, <1>3 DEF Counted, Ops
<1>15. /\ StepAbout(c) /\ DeleteInv(c)' /\ conn'[c] = new
       /\ Own(tasks', k, c) = Own(mid, k, c)
       /\ Num(tasks', k, "establish", c) = Num(mid, k, "establish", c)
       /\ Num(tasks', k, "forceClose", c) = Num(mid, k, "forceClose", c)
       /\ Num(tasks', Base, "remove", c) = Num(mid, Base, "remove", c)
  <2>1. cc.refs >= 1
    BY <1>1, <1>3
  <2> QED BY <1>3, <1>4, <1>9, <1>11, <1>14, <2>1, DropsFacts
<1> HIDE DEF cc
<1>16. RefsInv(c)'
  BY <1>1, <1>10, <1>11, <1>13, <1>14, <1>15 DEF ConnInv, RefsInv, cc
<1>17. CloseInv(c)'
  BY <1>1, <1>4, <1>10, <1>11, <1>14, <1>15 DEF ConnInv, CloseInv, cc
<1>18. StartInv(c)' /\ OutputInv(c)'
  BY <1>4, <1>5, <1>11, <1>14, <1>15 DEF StartInv, OutputInv
<1> QED BY <1>3, <1>15, <1>16, <1>17, <1>18, AboutOne, ConnFacts DEF ConnInv, cc

\* removeConnectionInLoop.
LEMMA RemoveInv ==
    ASSUME ServerInv, NEW c \in Conns, Remove(c)
    PROVE  ServerInv'
<1> DEFINE k == conn[c].loop
           cc == conn[c]
           mid == Popped(Base)
           n == IF c \in ledger THEN 2 ELSE 1
           new == [cc EXCEPT !.refs = @ - n]
<1>1. /\ cc \in ConnType /\ k \in Loops /\ Base \in Loops /\ conn \in [Conns -> ConnType]
      /\ ConnInv(c) /\ tasks \in [Loops -> Seq(Tasks)] /\ Own(tasks, k, c) \in Nat
      /\ \A l \in Loops, op \in Ops : Num(tasks, l, op, c) \in Nat
      /\ cc.refs \in Nat /\ cc.working \in Nat /\ cc.answered \in Nat
  BY ConnFacts
<1>2. "remove" \in Ops /\ Runs(Base, <<"remove", c>>)
  BY DEF Ops, Remove
<1>3. /\ Alters(tasks, mid, k, c) /\ Counted(mid, tasks, k, Base, "remove", c)
      /\ Num(tasks, Base, "remove", c) > 0 /\ cc.refs > 0 /\ cc.state # "none"
  BY <1>2, RunsEffect
<1>4. cc.state = "kDisconnecting" /\ cc.closeCalls # 0
  <2>1. cc.closeCalls # 0
    BY <1>1, <1>3 DEF ConnInv, CloseInv
  <2> QED BY <1>3, <2>1, OwnedFacts
<1>5. Num(tasks, k, "establish", c) = 0
  BY <1>1, <1>4 DEF ConnInv, StartInv, Untouched, Unborn
<1>6. mid \in [Loops -> Seq(Tasks)]
  BY <1>3 DEF Alters
<1>7. Own(mid, k, c) \in Nat
  BY <1>1, <1>6, CountsNat
<1>8. /\ Own(tasks, k, c) = Own(mid, k, c) + 1
      /\ Num(mid, k, "establish", c) = Num(tasks, k, "establish", c)
      /\ Num(mid, k, "forceClose", c) = Num(tasks, k, "forceClose", c)
      /\ Num(mid, k, "delete", c) = Num(tasks, k, "delete", c)
  BY <1>1, <1>3 DEF Counted, Ops
<1>9. cc.refs >= n /\ n \in {1, 2}
  BY <1>1, <1>7, <1>8 DEF ConnInv, RefsInv
<1>10. new \in ConnType
  <2>1. cc.refs - n \in Nat
    BY <1>1, <1>9
  <2> QED BY ONLY <1>1, <2>1 DEF ConnType
<1>11. /\ new.loop = k /\ new.state = cc.state /\ new.refs = cc.refs - n
       /\ new.working = cc.working /\ new.answered = cc.answered
       /\ new.closeCalls = cc.closeCalls /\ new.registered = cc.registered
  BY <1>1 DEF ConnType
<1>12. Drops(c, mid, n, new) /\ ledger' = ledger \ {c}
  BY <1>1 DEF Remove, Runs, Drops, ConnType
<1> HIDE DEF new, mid, n
<1>13. /\ StepAbout(c) /\ DeleteInv(c)' /\ conn'[c] = new
       /\ Own(tasks', k, c) = Own(mid, k, c)
       /\ Num(tasks', k, "establish", c) = Num(mid, k, "establish", c)
       /\ Num(tasks', k, "forceClose", c) = Num(mid, k, "forceClose", c)
  BY <1>3, <1>4, <1>8, <1>9, <1>10, <1>11, <1>12, DropsFacts
<1> HIDE DEF cc
<1>14. RefsInv(c)'
  BY <1>1, <1>7, <1>8, <1>11, <1>12, <1>13 DEF ConnInv, RefsInv, cc, n
<1>15. CloseInv(c)'
  BY <1>1, <1>4, <1>8, <1>11, <1>13 DEF ConnInv, CloseInv, cc
<1>16. StartInv(c)' /\ OutputInv(c)'
  BY <1>4, <1>5, <1>8, <1>11, <1>13 DEF StartInv, OutputInv
<1> QED BY <1>3, <1>13, <1>14, <1>15, <1>16, AboutOne, ConnFacts DEF ConnInv, cc

\* A worker thread hands over a response.
LEMMA AnswerInv ==
    ASSUME ServerInv, NEW c \in Conns, Answer(c)
    PROVE  ServerInv'
<1> DEFINE k == conn[c].loop
           cc == conn[c]
           new == [cc EXCEPT !.working = @ - 1, !.answered = @ + 1, !.refs = @ + 1]
<1>1. /\ cc \in ConnType /\ k \in Loops /\ Base \in Loops /\ conn \in [Conns -> ConnType]
      /\ ConnInv(c) /\ tasks \in [Loops -> Seq(Tasks)] /\ Own(tasks, k, c) \in Nat
      /\ active \in [Loops -> SUBSET Events]
      /\ \A l \in Loops, op \in Ops : Num(tasks, l, op, c) \in Nat
      /\ cc.refs \in Nat /\ cc.working \in Nat /\ cc.answered \in Nat
  BY ConnFacts
<1>2. /\ cc.working > 0 /\ tasks' = Post(tasks, k, <<"send", c>>)
      /\ UNCHANGED <<server, listener, ledger, active>>
  BY DEF Answer
<1>3. cc.refs > 0 /\ cc.state # "none" /\ ~Untouched(c)
  <2>1. cc.working + cc.answered > 0
    BY <1>1, <1>2
  <2> QED BY <2>1, JobFacts
<1>4. cc.state \in {"kConnected", "kDisconnecting"} /\ c < nextConnId
  BY <1>3, OwnedFacts
<1>5. new \in ConnType
  <2>1. cc.working - 1 \in Nat /\ cc.answered + 1 \in Nat /\ cc.refs + 1 \in Nat
    BY <1>1, <1>2
  <2> QED BY ONLY <1>1, <2>1 DEF ConnType
<1>6. /\ new.loop = k /\ new.state = cc.state /\ new.refs = cc.refs + 1
      /\ new.working = cc.working - 1 /\ new.answered = cc.answered + 1
      /\ new.closeCalls = cc.closeCalls /\ new.registered = cc.registered
      /\ new.events = cc.events /\ new.unsent = cc.unsent /\ new.failed = cc.failed
  BY <1>1 DEF ConnType
<1>7. conn' = [conn EXCEPT ![c] = new]
  BY <1>1 DEF Answer, ConnType
<1> HIDE DEF new
<1>8. /\ conn' \in [Conns -> ConnType] /\ conn'[c] = new
      /\ \A d \in Conns \ {c} : conn'[d] = conn[d]
  BY <1>1, <1>5, <1>7, Replaced
<1>9. Alters(tasks, tasks', k, c) /\ Counted(tasks, tasks', k, k, "send", c)
  <2>1. "send" \in Ops
    BY DEF Ops
  <2> QED BY <1>1, <1>2, <2>1, PostEffect
<1>10. StepAbout(c)
  BY <1>1, <1>2, <1>4, <1>6, <1>8, <1>9 DEF StepAbout
<1>11. /\ Own(tasks', k, c) = Own(tasks, k, c) + 1
       /\ Num(tasks', k, "establish", c) = Num(tasks, k, "establish", c)
       /\ Num(tasks', k, "forceClose", c) = Num(tasks, k, "forceClose", c)
       /\ Num(tasks', k, "delete", c) = Num(tasks, k, "delete", c)
       /\ Num(tasks', Base, "remove", c) = Num(tasks, Base, "remove", c)
  BY <1>1, <1>9 DEF Counted, Ops
<1>12. Num(tasks, k, "establish", c) = 0
  BY <1>1, <1>3 DEF ConnInv, StartInv
<1> HIDE DEF cc
<1>13. RefsInv(c)'
  <2> DEFINE listed == IF c \in ledger THEN 1 ELSE 0
  <2>1. cc.refs = listed + Own(tasks, k, c) + cc.working + cc.answered
    BY <1>1 DEF ConnInv, RefsInv, cc
  <2>2. listed \in Nat
    OBVIOUS
  <2>3. listed = IF c \in ledger' THEN 1 ELSE 0
    BY <1>2
  <2> HIDE DEF listed
  <2>4. new.refs = listed + (Own(tasks, k, c) + 1) + new.working + new.answered
    <3>1. /\ cc.refs \in Nat /\ Own(tasks, k, c) \in Nat
          /\ cc.working \in Nat /\ cc.answered \in Nat
      BY <1>1
    <3> QED BY ONLY <1>6, <2>1, <2>2, <3>1
  <2> QED BY <1>6, <1>8, <1>11, <2>3, <2>4 DEF RefsInv
<1>14. DeleteInv(c)'
  BY <1>1, <1>3, <1>6, <1>8, <1>11 DEF ConnInv, DeleteInv, cc
<1>15. CloseInv(c)'
  BY <1>1, <1>2, <1>4, <1>6, <1>8, <1>11 DEF ConnInv, CloseInv, cc
<1>16. StartInv(c)' /\ OutputInv(c)'
  BY <1>1, <1>4, <1>6, <1>8, <1>11, <1>12 DEF ConnInv, StartInv, OutputInv, cc
<1> QED BY <1>4, <1>10, <1>13, <1>14, <1>15, <1>16, AboutOne DEF ConnInv

\* A worker thread destroys a job.
LEMMA JobDoneInv ==
    ASSUME ServerInv, NEW c \in Conns, JobDone(c)
    PROVE  ServerInv'
<1> DEFINE k == conn[c].loop
           cc == conn[c]
           new == [cc EXCEPT !.answered = @ - 1, !.refs = @ - 1]
<1>1. /\ cc \in ConnType /\ k \in Loops /\ Base \in Loops /\ conn \in [Conns -> ConnType]
      /\ ConnInv(c) /\ tasks \in [Loops -> Seq(Tasks)] /\ Own(tasks, k, c) \in Nat
      /\ cc.refs \in Nat /\ cc.working \in Nat /\ cc.answered \in Nat
  BY ConnFacts
<1>2. cc.answered > 0
  BY DEF JobDone
<1>3. cc.refs > 0 /\ cc.state # "none" /\ ~Untouched(c)
  <2>1. cc.working + cc.answered > 0
    BY <1>1, <1>2
  <2> QED BY <2>1, JobFacts
<1>4. cc.state \in {"kConnected", "kDisconnecting"} /\ c < nextConnId
  BY <1>3, OwnedFacts
<1>5. new \in ConnType
  <2>1. cc.answered - 1 \in Nat /\ cc.refs - 1 \in Nat
    BY <1>1, <1>2, <1>3
  <2> QED BY ONLY <1>1, <2>1 DEF ConnType
<1>6. /\ new.loop = k /\ new.state = cc.state /\ new.refs = cc.refs - 1
      /\ new.working = cc.working /\ new.answered = cc.answered - 1
      /\ new.closeCalls = cc.closeCalls /\ new.registered = cc.registered
      /\ new.events = cc.events /\ new.unsent = cc.unsent /\ new.failed = cc.failed
  BY <1>1 DEF ConnType
<1>7. Drops(c, tasks, 1, new) /\ ledger' = ledger
  BY <1>1 DEF JobDone, Drops, ConnType
<1> HIDE DEF new
<1>8. Alters(tasks, tasks, k, c)
  BY <1>1 DEF Alters, OthersEqual
<1>9. /\ StepAbout(c) /\ DeleteInv(c)' /\ conn'[c] = new
      /\ Own(tasks', k, c) = Own(tasks, k, c)
      /\ Num(tasks', k, "establish", c) = Num(tasks, k, "establish", c)
      /\ Num(tasks', k, "forceClose", c) = Num(tasks, k, "forceClose", c)
      /\ Num(tasks', Base, "remove", c) = Num(tasks, Base, "remove", c)
  <2>1. cc.refs >= 1
    BY <1>1, <1>3
  <2> QED BY <1>4, <1>5, <1>6, <1>7, <1>8, <2>1, DropsFacts
<1>10. Num(tasks, k, "establish", c) = 0
  BY <1>1, <1>3 DEF ConnInv, StartInv
<1> HIDE DEF cc
<1>11. RefsInv(c)'
  BY <1>1, <1>2, <1>6, <1>7, <1>9 DEF ConnInv, RefsInv, cc
<1>12. CloseInv(c)'
  BY <1>1, <1>4, <1>6, <1>7, <1>9 DEF ConnInv, CloseInv, cc
<1>13. StartInv(c)' /\ OutputInv(c)'
  BY <1>1, <1>4, <1>6, <1>9, <1>10 DEF ConnInv, StartInv, OutputInv, cc
<1> QED BY <1>4, <1>9, <1>11, <1>12, <1>13, AboutOne DEF ConnInv

\* Steps of the listening socket and of epoll: a connection is only reported while it
\* is registered.
LEMMA SameConnections ==
    ASSUME ServerInv, UNCHANGED <<server, ledger, tasks, conn>>,
           listener' \in ListenerType, BacklogInv',
           active' \in [Loops -> SUBSET Events],
           \A l \in Loops : \A e \in active'[l] :
              e \in active[l] \/ (conn[e[1]].registered /\ conn[e[1]].loop = l)
    PROVE  ServerInv'
<1>1. /\ numThreads' = numThreads /\ next' = next /\ nextConnId' = nextConnId
      /\ ledger' = ledger /\ tasks' = tasks /\ conn' = conn
  BY DEF server
<1>2. TypeOK'
  BY <1>1 DEF ServerInv, TypeOK
<1>3. Placed'
  <2>1. ASSUME NEW l \in Loops, NEW e \in active'[l]
        PROVE  e[1] < nextConnId /\ conn[e[1]].loop = l /\ conn[e[1]].state # "deleted"
    <3>1. CASE e \in active[l]
      BY <3>1 DEF ServerInv, Placed
    <3>2. CASE conn[e[1]].registered /\ conn[e[1]].loop = l
      <4>1. e[1] \in Conns
        BY DEF Events
      <4>2. conn[e[1]].state \in {"kConnected", "kDisconnecting"}
        BY <3>2, <4>1 DEF ServerInv, ConnInv, StartInv
      <4> QED BY <3>2, <4>1, <4>2, ConnFacts
    <3> QED BY <3>1, <3>2
  <2>2. \A l \in Loops : \A t \in Range(tasks[l]) :
           /\ t[2] < nextConnId
           /\ l = conn[t[2]].loop \/ (l = Base /\ t[1] = "remove")
    BY DEF ServerInv, Placed
  <2> QED BY <1>1, <2>1, <2>2 DEF Placed
<1>4. ASSUME NEW c \in Conns
      PROVE  ConnInv(c)'
  <2>1. ConnInv(c) /\ conn[c].loop \in Loops
    BY ConnFacts
  <2>2. RefsInv(c)' /\ DeleteInv(c)' /\ CloseInv(c)' /\ OutputInv(c)'
    BY <1>1, <2>1 DEF ConnInv, RefsInv, DeleteInv, CloseInv, OutputInv
  <2>3. Untouched(c) => Untouched(c)'
    <3>1. Untouched(c) => ~conn[c].registered
      BY DEF Untouched, Unborn
    <3>2. Untouched(c) => \A e \in active'[conn[c].loop] : e[1] # c
      BY <2>1, <3>1 DEF Untouched
    <3> QED BY <1>1, <3>2 DEF Untouched
  <2>4. StartInv(c)'
    BY <1>1, <2>1, <2>3 DEF ConnInv, StartInv
  <2> QED BY <2>2, <2>4 DEF ConnInv
<1> QED BY <1>2, <1>3, <1>4 DEF ServerInv

LEMMA ClientConnectsInv ==
    ASSUME ServerInv, ClientConnects
    PROVE  ServerInv'
<1>1. /\ nextConnId + listener.waiting < MaxConns
      /\ listener' = [listener EXCEPT !.waiting = @ + 1, !.ready = TRUE, !.failed = FALSE]
      /\ UNCHANGED <<server, ledger, tasks, active, conn>>
  BY DEF ClientConnects
<1>2. /\ listener \in ListenerType /\ nextConnId \in Nat /\ next \in Nat
      /\ active \in [Loops -> SUBSET Events]
  BY DEF ServerInv, TypeOK
<1>3. listener.waiting \in 0..MaxConns
  BY <1>2 DEF ListenerType
<1>4. listener.waiting + 1 \in 0..MaxConns
  BY <1>1, <1>2, <1>3, BoundsAssumption
<1>5. listener' \in ListenerType
  BY <1>1, <1>2, <1>4 DEF ListenerType
<1>6. listener'.waiting = listener.waiting + 1 /\ listener'.ready
  BY <1>1, <1>2 DEF ListenerType
<1>7. BacklogInv'
  <2>1. nextConnId + (listener.waiting + 1) <= MaxConns
    BY <1>1, <1>2, <1>3, BoundsAssumption
  <2> QED BY <1>1, <1>6, <2>1 DEF ServerInv, BacklogInv, NobodyLeftWaiting, server
<1> QED BY <1>1, <1>2, <1>5, <1>7, SameConnections

LEMMA AcceptEndsInv ==
    ASSUME ServerInv, AcceptEnds
    PROVE  ServerInv'
<1>1. /\ listener' = [listener EXCEPT !.handler = "none", !.failed = listener.waiting > 0]
      /\ UNCHANGED <<server, ledger, tasks, active, conn>>
  BY DEF AcceptEnds
<1>2. /\ listener \in ListenerType
      /\ active \in [Loops -> SUBSET Events]
  BY DEF ServerInv, TypeOK
<1>3. listener' \in ListenerType
  <2>1. (listener.waiting > 0) \in BOOLEAN
    OBVIOUS
  <2> QED BY <1>1, <1>2, <2>1 DEF ListenerType
<1>4. listener'.waiting = listener.waiting /\ listener'.failed = (listener.waiting > 0)
  BY <1>1, <1>2 DEF ListenerType
<1>5. BacklogInv'
  BY <1>1, <1>4 DEF ServerInv, BacklogInv, NobodyLeftWaiting, server
<1> QED BY <1>1, <1>2, <1>3, <1>5, SameConnections

LEMMA EpollWaitInv ==
    ASSUME ServerInv, NEW l \in Loops, EpollWait(l)
    PROVE  ServerInv'
<1>1. PICK batch \in SUBSET UNION {Reportable(c) :
                       c \in {d \in Conns : conn[d].registered /\ conn[d].loop = l}} :
         active' = [active EXCEPT ![l] = batch]
  BY DEF EpollWait
<1>2. /\ UNCHANGED <<server, ledger, tasks, conn>>
      /\ listener' = IF ListenerReported(l)
                     THEN [listener EXCEPT !.ready = FALSE, !.handler = "reported"]
                     ELSE listener
  BY DEF EpollWait
<1>3. /\ listener \in ListenerType /\ active \in [Loops -> SUBSET Events]
      /\ conn \in [Conns -> ConnType]
  BY DEF ServerInv, TypeOK
<1>4. ASSUME NEW e \in batch
      PROVE  e \in Events /\ conn[e[1]].registered /\ conn[e[1]].loop = l
  <2>1. PICK c \in Conns : conn[c].registered /\ conn[c].loop = l /\ e \in Reportable(c)
    BY <1>1, <1>4
  <2>2. conn[c].events \subseteq {"in", "out"}
    BY <1>3 DEF ConnType
  <2>3. e[1] = c /\ e \in Events
    BY <2>1, <2>2 DEF Reportable, Events
  <2> QED BY <2>1, <2>3
<1>5. batch \in SUBSET Events
  BY <1>4
<1>6. /\ active' \in [Loops -> SUBSET Events]
      /\ active'[l] = batch
      /\ \A m \in Loops : m # l => active'[m] = active[m]
  BY ONLY <1>1, <1>3, <1>5
<1>7. \A m \in Loops : \A e \in active'[m] :
         e \in active[m] \/ (conn[e[1]].registered /\ conn[e[1]].loop = m)
  BY <1>4, <1>6
<1>8. /\ listener' \in ListenerType /\ listener'.waiting = listener.waiting
      /\ listener'.ready \/ listener'.handler # "none" \/ listener'.failed \/ ~listener.ready
      /\ listener' = listener \/ listener'.handler = "reported"
  BY <1>2, <1>3 DEF ListenerType
<1>9. BacklogInv'
  BY <1>2, <1>8 DEF ServerInv, BacklogInv, NobodyLeftWaiting, server
<1> QED BY <1>2, <1>6, <1>7, <1>8, <1>9, SameConnections

\* A connection that does not exist yet is mentioned nowhere.
LEMMA UnbornFacts ==
    ASSUME ServerInv, NEW c \in Conns, c >= nextConnId
    PROVE  /\ \A l \in Loops : Own(tasks, l, c) = 0 /\ \A op \in Ops : Num(tasks, l, op, c) = 0
           /\ \A l \in Loops : \A e \in active[l] : e[1] # c
           /\ c \notin ledger
<1>1. /\ tasks \in [Loops -> Seq(Tasks)] /\ Base \in Loops /\ nextConnId \in Nat
      /\ ledger \subseteq 0 .. nextConnId - 1
  BY DEF ServerInv, TypeOK, Loops
<1>2. c \in Nat /\ ~(c < nextConnId)
  BY <1>1 DEF Conns
<1>3. \A l \in Loops : \A t \in Range(tasks[l]) : t[2] # c
  BY <1>2 DEF ServerInv, Placed
<1>4. \A l \in Loops : \A e \in active[l] : e[1] # c
  BY <1>2 DEF ServerInv, Placed
<1>5. ASSUME NEW l \in Loops, NEW ops \in SUBSET Ops
      PROVE  Count(tasks[l], ops, c) = 0
  <2>1. tasks[l] \in Seq(Tasks)
    BY <1>1
  <2> QED BY <1>3, <2>1, CountNone
<1>6. Owning \in SUBSET Ops /\ \A op \in Ops : {op} \in SUBSET Ops
  BY DEF Owning
<1>7. ASSUME NEW l \in Loops
      PROVE  Own(tasks, l, c) = 0
  <2>1. Count(tasks[l], Owning, c) = 0 /\ Count(tasks[Base], Owning, c) = 0
    BY <1>1, <1>5, <1>6
  <2> QED BY <2>1 DEF Own
<1>8. \A l \in Loops, op \in Ops : Num(tasks, l, op, c) = 0
  BY <1>5, <1>6 DEF Num
<1> QED BY <1>1, <1>2, <1>4, <1>7, <1>8

\* A client is accepted.
LEMMA NewConnectionInv ==
    ASSUME ServerInv, NewConnection
    PROVE  ServerInv'
<1>0. PICK c : c = nextConnId
  OBVIOUS
<1> DEFINE k == NextLoop
           new == [Unborn(k) EXCEPT !.state = "kConnected", !.refs = 2]
<1>1. /\ listener \in ListenerType /\ nextConnId \in Nat /\ next \in Nat
      /\ numThreads \in 0..Len(IoLoops) /\ Len(IoLoops) \in Nat
      /\ tasks \in [Loops -> Seq(Tasks)] /\ conn \in [Conns -> ConnType]
      /\ ledger \subseteq 0 .. nextConnId - 1
      /\ active \in [Loops -> SUBSET Events]
      /\ nextConnId + listener.waiting <= MaxConns
      /\ numThreads > 0 => next < numThreads
  BY LoopsAssumption DEF ServerInv, TypeOK, BacklogInv
<1>2. /\ listener.handler # "none" /\ listener.waiting > 0
      /\ listener' = [listener EXCEPT !.waiting = @ - 1, !.handler = "accepting",
                                      !.ready = @ /\ listener.waiting > 1]
      /\ next' = IF numThreads = 0 THEN next ELSE (next + 1) % numThreads
      /\ nextConnId' = nextConnId + 1
      /\ ledger' = ledger \cup {c}
      /\ conn' = [conn EXCEPT ![c] = new]
      /\ tasks' = Post(tasks, k, <<"establish", c>>)
      /\ numThreads' = numThreads /\ active' = active
  BY <1>0 DEF NewConnection, AfterAccept
<1>3. listener.waiting \in 0..MaxConns
  BY <1>1 DEF ListenerType
<1>4. c \in Conns /\ nextConnId' \in 0..MaxConns
  BY <1>1, <1>2, <1>3, BoundsAssumption, <1>0 DEF Conns
<1>5. k \in Loops /\ Base \in Loops
  <2>1. CASE numThreads = 0
    BY <2>1 DEF NextLoop, Loops
  <2>2. CASE numThreads # 0
    <3>1. next + 1 \in 1..Len(IoLoops)
      BY <1>1, <2>2
    <3> QED BY <2>2, <3>1, LoopsAssumption DEF NextLoop, Loops
  <2> QED BY <2>1, <2>2
<1>6. new \in ConnType
  <2>1. MaxRequests \in Nat /\ 0 \in 0..MaxRequests
    BY BoundsAssumption
  <2> QED BY ONLY <1>5, <2>1 DEF ConnType, Unborn
<1>7. /\ new.state = "kConnected" /\ new.loop = k /\ new.refs = 2 /\ new.working = 0
      /\ new.answered = 0 /\ new.closeCalls = 0 /\ new.unsent = 0 /\ ~new.registered
      /\ new = [Unborn(new.loop) EXCEPT !.state = "kConnected", !.refs = 2]
  BY DEF Unborn
<1> HIDE DEF k, new
<1>8. /\ conn' \in [Conns -> ConnType] /\ conn'[c] = new
      /\ \A d \in Conns \ {c} : conn'[d] = conn[d]
  BY <1>1, <1>2, <1>4, <1>6, Replaced
<1>9. /\ \A l \in Loops : Own(tasks, l, c) = 0 /\ \A op \in Ops : Num(tasks, l, op, c) = 0
      /\ \A l \in Loops : \A e \in active[l] : e[1] # c
  <2>1. c >= nextConnId
    BY <1>0, <1>1
  <2> QED BY <1>4, <2>1, UnbornFacts
<1>10. Alters(tasks, tasks', k, c) /\ Counted(tasks, tasks', k, k, "establish", c)
  <2>1. "establish" \in Ops
    BY DEF Ops
  <2> QED BY <1>1, <1>2, <1>4, <1>5, <2>1, PostEffect
<1>11. TypeOK'
  <2>1. next' \in Nat
    BY <1>1, <1>2
  <2>2. ledger' \in SUBSET (0 .. nextConnId' - 1)
    BY <1>0, <1>1, <1>2
  <2>3. listener' \in ListenerType
    <3>1. listener.waiting - 1 \in 0..MaxConns /\ (listener.ready /\ listener.waiting > 1) \in BOOLEAN
      BY <1>1, <1>2, <1>3, BoundsAssumption
    <3> QED BY ONLY <1>1, <1>2, <3>1 DEF ListenerType
  <2>4. \A d \in Conns : conn'[d].state = "none" <=> d >= nextConnId'
    <3>1. ASSUME NEW d \in Conns
          PROVE  conn'[d].state = "none" <=> d >= nextConnId'
      <4>1. conn[d].state = "none" <=> d >= nextConnId
        BY DEF ServerInv, TypeOK
      <4>2. d \in Nat
        BY DEF Conns
      <4>3. CASE d = c
        BY <1>0, <1>1, <1>2, <1>7, <1>8, <4>3
      <4>4. CASE d # c
        <5>1. d >= nextConnId <=> d >= nextConnId'
          BY <1>0, <1>1, <1>2, <4>2, <4>4
        <5> QED BY <1>8, <4>1, <4>4, <5>1
      <4> QED BY <4>3, <4>4
    <3> QED BY <3>1
  <2>5. tasks' \in [Loops -> Seq(Tasks)]
    BY <1>10 DEF Alters
  <2> QED BY <1>1, <1>2, <1>4, <1>8, <2>1, <2>2, <2>3, <2>4, <2>5 DEF TypeOK
<1>12. BacklogInv'
  <2>1. /\ listener'.waiting = listener.waiting - 1 /\ listener'.handler = "accepting"
    BY <1>1, <1>2 DEF ListenerType
  <2>2. nextConnId' + listener'.waiting <= MaxConns
    BY <1>1, <1>2, <1>3, <2>1, BoundsAssumption
  <2>3. numThreads' > 0 => next' < numThreads'
    BY <1>1, <1>2
  <2> QED BY <2>1, <2>2, <2>3 DEF BacklogInv, NobodyLeftWaiting
<1>13. Placed'
  <2>1. ASSUME NEW l \in Loops, NEW t \in Range(tasks'[l])
        PROVE  /\ t[2] < nextConnId'
               /\ l = conn'[t[2]].loop \/ (l = Base /\ t[1] = "remove")
    <3>1. CASE t \in Range(tasks[l])
      <4>1. /\ t[2] < nextConnId
            /\ l = conn[t[2]].loop \/ (l = Base /\ t[1] = "remove")
        BY <3>1 DEF ServerInv, Placed
      <4>2. t[2] \in Conns /\ t[2] \in Nat
        BY <1>1, <3>1 DEF Range, Tasks, Conns
      <4>3. t[2] # c /\ t[2] < nextConnId'
        BY <1>0, <1>1, <1>2, <4>1, <4>2
      <4> QED BY <1>8, <4>1, <4>2, <4>3
    <3>2. CASE t[2] = c /\ (l = k \/ (l = Base /\ t[1] = "remove"))
      <4>1. c < nextConnId'
        BY <1>0, <1>1, <1>2
      <4> QED BY <1>7, <1>8, <3>2, <4>1
    <3> QED BY <1>10, <3>1, <3>2 DEF Alters
  <2>2. ASSUME NEW l \in Loops, NEW e \in active'[l]
        PROVE  e[1] < nextConnId' /\ conn'[e[1]].loop = l /\ conn'[e[1]].state # "deleted"
    <3>1. e \in active[l] /\ e[1] \in Conns /\ e[1] \in Nat
      BY <1>1, <1>2, <2>2 DEF Events, Conns
    <3>2. e[1] < nextConnId /\ conn[e[1]].loop = l /\ conn[e[1]].state # "deleted"
      BY <3>1 DEF ServerInv, Placed
    <3>3. e[1] # c /\ e[1] < nextConnId'
      BY <1>0, <1>1, <1>2, <3>1, <3>2
    <3> QED BY <1>8, <3>1, <3>2, <3>3
  <2> QED BY <2>1, <2>2 DEF Placed
<1>14. ConnInv(c)'
  <2>1. /\ Own(tasks', k, c) = 1
        /\ Num(tasks', k, "establish", c) = 1
        /\ Num(tasks', k, "delete", c) = 0
        /\ Num(tasks', k, "forceClose", c) = 0
        /\ Num(tasks', k, "send", c) = 0
        /\ Num(tasks', Base, "remove", c) = 0
    <3>1. {"establish", "delete", "forceClose", "send", "remove"} \subseteq Ops
      BY DEF Ops
    <3>2. Own(tasks, k, c) = 0 /\ Num(tasks, k, "establish", c) = 0
      BY <1>5, <1>9, <3>1
    <3> QED BY <1>5, <1>9, <1>10, <3>1, <3>2 DEF Counted
  <2>2. c \in ledger'
    BY <1>2
  <2>3. RefsInv(c)'
    BY <1>7, <1>8, <2>1, <2>2 DEF RefsInv
  <2>4. DeleteInv(c)' /\ CloseInv(c)' /\ OutputInv(c)'
    BY <1>7, <1>8, <2>1, <2>2 DEF DeleteInv, CloseInv, OutputInv
  <2>5. Untouched(c)'
    BY <1>2, <1>5, <1>7, <1>8, <1>9, <2>1 DEF Untouched
  <2>6. StartInv(c)'
    BY <1>7, <1>8, <2>1, <2>5 DEF StartInv
  <2> QED BY <2>3, <2>4, <2>6 DEF ConnInv
<1>15. ASSUME NEW d \in Conns, d # c
       PROVE  ConnInv(d)'
  <2>1. /\ conn'[d] = conn[d] /\ active' = active
        /\ d \in ledger' <=> d \in ledger
        /\ conn[d].loop \in Loops
    BY <1>2, <1>8, <1>15, ConnFacts
  <2>2. /\ Own(tasks', conn[d].loop, d) = Own(tasks, conn[d].loop, d)
        /\ \A l \in Loops, op \in Ops : Num(tasks', l, op, d) = Num(tasks, l, op, d)
    BY <1>10, <1>15, <2>1 DEF Alters, OthersEqual
  <2>3. Base \in Loops /\ {"delete", "forceClose", "remove", "establish", "send"} \subseteq Ops
    BY DEF Loops, Ops
  <2>4. ConnInv(d)
    BY DEF ServerInv
  <2>5. RefsInv(d)' /\ OutputInv(d)'
    BY <2>1, <2>2, <2>4 DEF ConnInv, RefsInv, OutputInv
  <2>6. DeleteInv(d)' /\ CloseInv(d)'
    BY <2>1, <2>2, <2>3, <2>4 DEF ConnInv, DeleteInv, CloseInv
  <2>7. StartInv(d)'
    BY <2>1, <2>2, <2>3, <2>4 DEF ConnInv, StartInv, Untouched
  <2> QED BY <2>5, <2>6, <2>7 DEF ConnInv
<1> QED BY <1>11, <1>12, <1>13, <1>14, <1>15 DEF ServerInv

LEMMA InitInv == Init => ServerInv
<1> SUFFICES ASSUME Init PROVE ServerInv
  OBVIOUS
<1>1. /\ Base \in Loops /\ MaxConns \in Nat /\ MaxRequests \in Nat /\ Len(IoLoops) \in Nat
  BY LoopsAssumption, BoundsAssumption DEF Loops
<1>2. Unborn(Base) \in ConnType
  BY <1>1 DEF Unborn, ConnType
<1>3. TypeOK
  <2>1. listener \in ListenerType
    BY <1>1 DEF Init, ListenerType
  <2>2. conn \in [Conns -> ConnType]
    BY <1>2 DEF Init
  <2>3. \A c \in Conns : conn[c].state = "none" <=> c >= nextConnId
    BY DEF Init, Unborn, Conns
  <2>4. ledger \in SUBSET (0 .. nextConnId - 1)
    BY DEF Init
  <2>5. /\ tasks \in [Loops -> Seq(Tasks)] /\ active \in [Loops -> SUBSET Events]
    BY DEF Init
  <2>6. numThreads \in 0..Len(IoLoops) /\ next \in Nat /\ nextConnId \in 0..MaxConns
    BY <1>1 DEF Init
  <2> QED BY <2>1, <2>2, <2>3, <2>4, <2>5, <2>6 DEF TypeOK
<1>4. BacklogInv
  BY <1>1 DEF Init, BacklogInv, NobodyLeftWaiting
<1>5. Placed
  BY DEF Init, Placed, Range
<1>6. ASSUME NEW c \in Conns
      PROVE  ConnInv(c)
  <2>1. \A l \in Loops : \A ops \in SUBSET Ops : Count(tasks[l], ops, c) = 0
    <3>1. ASSUME NEW l \in Loops, NEW ops \in SUBSET Ops
          PROVE  Count(tasks[l], ops, c) = 0
      <4>1. tasks[l] = <<>>
        BY DEF Init
      <4>2. \A t \in Range(<<>>) : ~(t[1] \in ops /\ t[2] = c)
        BY DEF Range
      <4>3. tasks[l] \in Seq(Tasks)
        BY <4>1
      <4>4. \A t \in Range(tasks[l]) : ~(t[1] \in ops /\ t[2] = c)
        BY <4>1, <4>2
      <4> QED BY <4>3, <4>4, CountNone
    <3> QED BY <3>1
  <2>2. Owning \in SUBSET Ops /\ \A op \in Ops : {op} \in SUBSET Ops
    BY DEF Owning
  <2>3. Own(tasks, Base, c) = 0 /\ \A op \in Ops : Num(tasks, Base, op, c) = 0
    <3>1. Count(tasks[Base], Owning, c) = 0
      BY <1>1, <2>1, <2>2
    <3>2. \A op \in Ops : Count(tasks[Base], {op}, c) = 0
      BY <1>1, <2>1, <2>2
    <3> QED BY <3>1, <3>2 DEF Own, Num
  <2>4. conn[c] = Unborn(Base) /\ c \notin ledger
    BY DEF Init
  <2>5. /\ conn[c].loop = Base /\ conn[c].refs = 0 /\ conn[c].working = 0
        /\ conn[c].answered = 0 /\ conn[c].closeCalls = 0 /\ conn[c].state = "none"
        /\ ~conn[c].registered
    BY <2>4 DEF Unborn
  <2>6. {"delete", "forceClose", "remove", "establish"} \subseteq Ops
    BY DEF Ops
  <2>7. RefsInv(c) /\ DeleteInv(c) /\ CloseInv(c) /\ OutputInv(c)
    BY <2>3, <2>4, <2>5, <2>6 DEF RefsInv, DeleteInv, CloseInv, OutputInv
  <2>8. StartInv(c)
    BY <2>3, <2>4, <2>5, <2>6 DEF StartInv
  <2> QED BY <2>7, <2>8 DEF ConnInv
<1> QED BY <1>3, <1>4, <1>5, <1>6 DEF ServerInv

LEMMA NextInv == ServerInv /\ [Next]_vars => ServerInv'
<1> SUFFICES ASSUME ServerInv, [Next]_vars PROVE ServerInv'
  OBVIOUS
<1>1. CASE ClientConnects
  BY <1>1, ClientConnectsInv
<1>2. CASE Accept
  BY <1>2, NewConnectionInv, AcceptEndsInv DEF Accept
<1>3. ASSUME NEW l \in Loops, EpollWait(l) PROVE ServerInv'
  BY <1>3, EpollWaitInv
<1>4. ASSUME NEW c \in Conns, DispatchEvent(c) PROVE ServerInv'
  BY <1>4, IgnoreEventInv, ReadRequestsInv, ReadGarbageInv, ReadClosedInv, WriteReadyInv
     DEF DispatchEvent
<1>5. ASSUME NEW c \in Conns, RunTask(c) PROVE ServerInv'
  BY <1>5, EstablishInv, ForceCloseInv, SendInv, RemoveInv, DeleteKeeps DEF RunTask
<1>6. ASSUME NEW c \in Conns, Timeout(c) \/ Answer(c) \/ JobDone(c) PROVE ServerInv'
  BY <1>6, TimeoutInv, AnswerInv, JobDoneInv
<1>7. CASE UNCHANGED vars
  <2>1. /\ UNCHANGED <<server, ledger, tasks, conn>> /\ active' = active /\ listener' = listener
    BY <1>7 DEF vars
  <2>2. BacklogInv' /\ listener' \in ListenerType /\ active' \in [Loops -> SUBSET Events]
    BY <2>1 DEF ServerInv, TypeOK, BacklogInv, NobodyLeftWaiting, server
  <2> QED BY <2>1, <2>2, SameConnections
<1> QED BY <1>1, <1>2, <1>3, <1>4, <1>5, <1>6, <1>7 DEF Next

\* The inductive invariant holds in every reachable state.
THEOREM ServerInvariant == Spec => []ServerInv
BY InitInv, NextInv, PTL DEF Spec

----------------------------------------------------------------------------
\* What the invariant implies

\* The counts of the properties and of the invariant are the same.
LEMMA SameCounts ==
    ASSUME ServerInv, NEW c \in Conns
    PROVE  /\ \A l \in Loops : Closures(l, c) = Count(tasks[l], Owning, c)
           /\ Deletes(c) = Num(tasks, conn[c].loop, "delete", c)
<1>1. tasks \in [Loops -> Seq(Tasks)] /\ conn[c].loop \in Loops
  BY ConnFacts
<1>2. \A l \in Loops : \A i \in DOMAIN tasks[l] : tasks[l][i] \in Ops \X Conns
  BY <1>1 DEF Tasks
<1>3. \A l \in Loops : \A i \in DOMAIN tasks[l] :
         tasks[l][i][1] # "delete" <=> tasks[l][i][1] \in Owning
  BY <1>2 DEF Owning
<1>4. \A l \in Loops :
         {i \in DOMAIN tasks[l] : tasks[l][i][2] = c /\ tasks[l][i][1] # "delete"}
            = {i \in DOMAIN tasks[l] : tasks[l][i][1] \in Owning /\ tasks[l][i][2] = c}
  BY <1>3
<1>5. \A l \in Loops :
         {i \in DOMAIN tasks[l] : tasks[l][i] = <<"delete", c>>}
            = {i \in DOMAIN tasks[l] : tasks[l][i][1] \in {"delete"} /\ tasks[l][i][2] = c}
  BY <1>2
<1> QED BY <1>1, <1>4, <1>5 DEF Closures, Deletes, Count, Num

\* The types, the numbering of connections, and the places where they are mentioned.
THEOREM TypeCorrect == Spec => []TypeOK
<1>1. ServerInv => TypeOK
  BY DEF ServerInv
<1> QED BY <1>1, ServerInvariant, PTL

\* The use count of every connection is the number of its owners: nothing that
\* newConnection, forceClose, sendResponse or a worker job does leaks a reference or
\* drops one too many.
THEOREM RefsCounted == Spec => []RefsCountOwners
<1>1. ServerInv => RefsCountOwners
  <2> SUFFICES ASSUME ServerInv, NEW c \in Conns
               PROVE  conn[c].refs = (IF c \in ledger THEN 1 ELSE 0)
                         + Closures(conn[c].loop, c)
                         + (IF conn[c].loop = Base THEN 0 ELSE Closures(Base, c))
                         + conn[c].working + conn[c].answered
    BY DEF RefsCountOwners
  <2> DEFINE k == conn[c].loop
             listed == IF c \in ledger THEN 1 ELSE 0
             far == IF k = Base THEN 0 ELSE Closures(Base, c)
  <2>1. /\ ConnInv(c) /\ k \in Loops /\ Base \in Loops /\ tasks \in [Loops -> Seq(Tasks)]
        /\ conn[c].working \in Nat /\ conn[c].answered \in Nat
    BY ConnFacts
  <2>2. /\ Closures(k, c) = Count(tasks[k], Owning, c)
        /\ Closures(Base, c) = Count(tasks[Base], Owning, c)
    BY <2>1, SameCounts
  <2>3. Count(tasks[k], Owning, c) \in Nat /\ Count(tasks[Base], Owning, c) \in Nat
    BY <2>1, CountType
  <2>4. Own(tasks, k, c) = Closures(k, c) + far
    BY <2>2 DEF Own
  <2>5. listed \in Nat /\ far \in Nat /\ Closures(k, c) \in Nat
    BY <2>2, <2>3
  <2>6. conn[c].refs = listed + Own(tasks, k, c) + conn[c].working + conn[c].answered
    BY <2>1 DEF ConnInv, RefsInv
  <2> HIDE DEF k, listed, far
  <2>7. conn[c].refs = listed + Closures(k, c) + far + conn[c].working + conn[c].answered
    BY ONLY <2>1, <2>4, <2>5, <2>6
  <2> QED BY <2>7 DEF k, listed, far
<1> QED BY <1>1, ServerInvariant, PTL

\* The deleter runs once for each connection, when and only when its last owner has
\* gone.
THEOREM DeletedOnce == Spec => []DeletePostedOnce
<1>1. ServerInv => DeletePostedOnce
  BY ConnFacts, SameCounts DEF DeletePostedOnce, ConnInv, DeleteInv
<1> QED BY <1>1, ServerInvariant, PTL

\* Whatever order the loops and the workers run in, nothing touches a connection
\* that was deleted.
THEOREM UnusedAfterDelete == Spec => []NoUseAfterDelete
<1>1. ServerInv => NoUseAfterDelete
  <2> SUFFICES ASSUME ServerInv, NEW c \in Conns, conn[c].state = "deleted"
               PROVE  /\ \A l \in Loops :
                            /\ \A e \in active[l] : e[1] # c
                            /\ \A i \in DOMAIN tasks[l] : tasks[l][i][2] # c
                      /\ conn[c].working = 0 /\ conn[c].answered = 0
                      /\ c \notin ledger
    BY DEF NoUseAfterDelete
  <2> DEFINE k == conn[c].loop
  <2>1. /\ ConnInv(c) /\ k \in Loops /\ Base \in Loops /\ tasks \in [Loops -> Seq(Tasks)]
        /\ conn[c].working \in Nat /\ conn[c].answered \in Nat
        /\ Own(tasks, k, c) \in Nat
    BY ConnFacts
  <2>2. conn[c].refs = 0 /\ Num(tasks, k, "delete", c) = 0
    BY <2>1 DEF ConnInv, CloseInv, DeleteInv
  <2>3. /\ c \notin ledger /\ Own(tasks, k, c) = 0
        /\ conn[c].working = 0 /\ conn[c].answered = 0
    <3>1. conn[c].refs = (IF c \in ledger THEN 1 ELSE 0) + Own(tasks, k, c)
                         + conn[c].working + conn[c].answered
      BY <2>1 DEF ConnInv, RefsInv
    <3>2. conn[c].working \in Nat /\ conn[c].answered \in Nat /\ Own(tasks, k, c) \in Nat
      BY <2>1
    <3> DEFINE listed == IF c \in ledger THEN 1 ELSE 0
               own == Own(tasks, k, c)
               working == conn[c].working
               answered == conn[c].answered
    <3>3. /\ 0 = listed + own + working + answered
          /\ listed \in Nat /\ own \in Nat /\ working \in Nat /\ answered \in Nat
      BY <2>2, <3>1, <3>2
    <3> HIDE DEF listed, own, working, answered
    <3>4. listed = 0 /\ own = 0 /\ working = 0 /\ answered = 0
      BY ONLY <3>3
    <3> QED BY <3>4 DEF listed, own, working, answered
  <2>4. \A l \in {k, Base} : \A t \in Range(tasks[l]) : ~(t[1] \in Owning /\ t[2] = c)
    BY <2>1, <2>3, OwnNone
  <2>5. \A t \in Range(tasks[k]) : ~(t[1] \in {"delete"} /\ t[2] = c)
    <3>1. tasks[k] \in Seq(Tasks) /\ Count(tasks[k], {"delete"}, c) = 0
      BY <2>1, <2>2 DEF Num
    <3> QED BY <3>1, CountNone
  <2>6. ASSUME NEW l \in Loops, NEW i \in DOMAIN tasks[l]
        PROVE  tasks[l][i][2] # c
    <3>1. tasks[l][i] \in Range(tasks[l]) /\ tasks[l][i] \in Ops \X Conns
      BY <2>1 DEF Range, Tasks
    <3>2. tasks[l][i][1] \in Owning \/ tasks[l][i][1] \in {"delete"}
      BY <3>1 DEF Owning
    <3>3. l = conn[tasks[l][i][2]].loop \/ (l = Base /\ tasks[l][i][1] = "remove")
      BY <3>1 DEF ServerInv, Placed
    <3>4. "remove" \in Owning
      BY DEF Owning, Ops
    <3> QED BY <2>4, <2>5, <3>1, <3>2, <3>3, <3>4
  <2>7. \A l \in Loops : \A e \in active[l] : e[1] # c
    BY DEF ServerInv, Placed
  <2> QED BY <2>3, <2>6, <2>7
<1> QED BY <1>1, ServerInvariant, PTL

\* However end of file, errors, the timer and forceClose meet, closeCallback_ runs
\* at most once, and a connection is in the ledger until it has.
THEOREM ClosedAtMostOnce == Spec => []ClosedOnce
<1>1. ServerInv => ClosedOnce
  <2> SUFFICES ASSUME ServerInv, NEW c \in Conns
               PROVE  /\ conn[c].closeCalls <= 1
                      /\ c < nextConnId /\ c \notin ledger => conn[c].closeCalls = 1
    BY DEF ClosedOnce
  <2>1. /\ ConnInv(c) /\ conn[c] \in ConnType /\ conn[c].loop \in Loops
        /\ c < nextConnId <=> conn[c].state # "none"
        /\ conn[c].closeCalls \in Nat
        /\ \A l \in Loops, op \in Ops : Num(tasks, l, op, c) \in Nat
    BY ConnFacts
  <2>2. Num(tasks, conn[c].loop, "forceClose", c) \in Nat
    BY <2>1 DEF Ops
  <2>3. conn[c].closeCalls <= 1
    <3>1. CASE conn[c].state = "kDisconnecting"
      BY <2>1, <2>2, <3>1 DEF ConnInv, CloseInv
    <3>2. CASE conn[c].state # "kDisconnecting"
      <4>1. conn[c].state \in {"none", "kConnected", "deleted"}
        BY <2>1, <3>2 DEF ConnType
      <4> QED BY <2>1, <4>1 DEF ConnInv, CloseInv
    <3> QED BY <3>1, <3>2
  <2>4. c < nextConnId /\ c \notin ledger => conn[c].closeCalls # 0
    BY <2>1 DEF ConnInv, CloseInv
  <2> QED BY <2>1, <2>3, <2>4
<1> QED BY <1>1, ServerInvariant, PTL

\* The edge-triggered listening socket leaves no client in the backlog unnoticed,
\* except after accept() has failed.
THEOREM BacklogServed == Spec => []NobodyLeftWaiting
<1>1. ServerInv => NobodyLeftWaiting
  BY DEF ServerInv, BacklogInv
<1> QED BY <1>1, ServerInvariant, PTL

\* A connection with buffered output waits for EPOLLOUT unless send() failed.
THEOREM OutputWaits == Spec => []OutputArmed
<1>1. ServerInv => OutputArmed
  BY DEF ServerInv, ConnInv, OutputInv, OutputArmed
<1> QED BY <1>1, ServerInvariant, PTL
============================================================================

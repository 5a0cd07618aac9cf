-------------------------- MODULE TcpClient_proof --------------------------
(***************************************************************************)
(* Proofs about TcpClient, for any number of calls, attempts and messages: *)
(* every socket has one owner, a connection is deleted once and when       *)
(* nothing refers to it, attempts and retries are conserved, and a wanted  *)
(* connection is worked on.                                                *)
(***************************************************************************)
EXTENDS TcpClient, FiniteSetTheorems, SequenceTheorems, TLAPS

----------------------------------------------------------------------------
\* The inductive invariant

\* How many tasks of the queue ts are among those in T.
Count(ts, T) == Cardinality({i \in DOMAIN ts : ts[i] \in T})

\* The closures that hold a reference to connection c, its deletes and forced
\* closes, the closures that own the Channel of socket c, and the queued starts.
Refs(ts, c) == Count(ts, RefKinds \X {c})
Deletes(ts, c) == Count(ts, {<<"delete", c>>})
Closes(ts, c) == Count(ts, {<<"forceClose", c>>})
Frees(ts, c) == Count(ts, {<<"freeChannel", c>>})
Starts(ts) == Count(ts, {"start"} \X (Socks \cup {None}))

Referenced(c) == connection = c \/ held = c \/ Refs(tasks, c) > 0

\* A socket is connecting, or belongs to the one connection there is: startInLoop
\* does nothing once the Connector has been connected.
SocketInv ==
    /\ SocketsOwned
    /\ connector.channel <= attempts
    /\ \A s \in Socks : s > attempts \/ s = connector.channel => conn[s] = "none"
    /\ connector.state # "kConnected" => \A s \in Socks : conn[s] = "none"
    /\ connector.state = "kConnected" =>
          connector.dropped \/ \E s \in Socks : conn[s] # "none"
    /\ \A s, t \in Socks : conn[s] # "none" /\ conn[t] # "none" => s = t

\* connection_ points at a connection until its close callback runs, which is then
\* queued or running; the delete is queued when the last reference goes.
Life(c) ==
    /\ Deletes(tasks, c) > 0 => conn[c] = "kDisconnecting"
    /\ Referenced(c) =>
          conn[c] \in {"kConnected", "kDisconnecting"} /\ Deletes(tasks, c) = 0
    /\ conn[c] = "kConnected" => connection = c
    /\ conn[c] = "kDisconnecting" => Referenced(c) \/ Deletes(tasks, c) = 1
    /\ conn[c] = "kDisconnecting" /\ connection = c => Closes(tasks, c) > 0
    /\ Closes(tasks, c) > 0 => conn[c] \in {"kDisconnecting", "deleted"}

LifeInv == \A c \in Socks : Life(c)

\* The Channel whose event is handled is channel_ or waits to be freed.
EventInv ==
    /\ current = None <=> callbacks = <<>>
    /\ current # None => connector.channel = current \/ Frees(tasks, current) > 0

\* A call of start() is with the user thread, queued, an attempt or a retry timer,
\* or has ended.
RetryInv ==
    /\ Cardinality(connector.timers) + Starts(tasks)
          + (IF connector.channel = None THEN 0 ELSE 1)
          + (IF user = "flagged" THEN 1 ELSE 0) <= starts
    /\ connector.connect /\ connector.state = "kDisconnected" =>
          connector.timers # {} \/ Starts(tasks) > 0 \/ user = "flagged" \/ connector.gaveUp

ClientInv == TypeOK /\ SocketInv /\ LifeInv /\ EventInv /\ RetryInv

----------------------------------------------------------------------------
\* Lemmas about the queue

\* A count is a number, and 0 if there is no such task.
LEMMA CountType ==
    ASSUME NEW s \in Seq(Tasks), NEW T
    PROVE  /\ Count(s, T) \in Nat
           /\ Count(s, T) = 0 <=> \A i \in DOMAIN s : s[i] \notin T
<1> DEFINE I == {i \in DOMAIN s : s[i] \in T}
<1>1. IsFiniteSet(1..Len(s)) /\ DOMAIN s = 1..Len(s)
  BY FS_Interval
<1>2. IsFiniteSet(I)
  BY <1>1, FS_Subset
<1>3. Cardinality(I) = 0 <=> I = {}
  BY <1>2, FS_EmptySet
<1> QED BY <1>2, <1>3, FS_CardinalityType DEF Count

\* A task put behind the others is counted.
LEMMA CountAppend ==
    ASSUME NEW s \in Seq(Tasks), NEW t \in Tasks, NEW T
    PROVE  Count(Append(s, t), T) = Count(s, T) + IF t \in T THEN 1 ELSE 0
<1> DEFINE I(q) == {i \in DOMAIN q : q[i] \in T}
           n == Len(s) + 1
<1>1. /\ DOMAIN s = 1..Len(s) /\ Len(s) \in Nat
      /\ DOMAIN Append(s, t) = DOMAIN s \cup {n}
      /\ n \notin DOMAIN s
      /\ Append(s, t)[n] = t
      /\ \A i \in DOMAIN s : Append(s, t)[i] = s[i]
  OBVIOUS
<1>2. IsFiniteSet(I(s))
  <2>1. IsFiniteSet(1..Len(s))
    BY <1>1, FS_Interval
  <2> QED BY <1>1, <2>1, FS_Subset
<1>3. n \notin I(s) /\ I(Append(s, t)) = IF t \in T THEN I(s) \cup {n} ELSE I(s)
  BY <1>1
<1> HIDE DEF I
<1>4. Cardinality(I(s)) \in Nat
  BY <1>2, FS_CardinalityType
<1>5. Cardinality(I(s) \cup {n}) = Cardinality(I(s)) + 1
  BY <1>2, <1>3, FS_AddElement
<1>6. Cardinality(I(Append(s, t))) = Cardinality(I(s)) + IF t \in T THEN 1 ELSE 0
  BY <1>3, <1>4, <1>5
<1> QED BY <1>6 DEF Count, I

\* A task taken from the front is no longer counted.
LEMMA CountTail ==
    ASSUME NEW s \in Seq(Tasks), s # <<>>, NEW T
    PROVE  Count(s, T) = Count(Tail(s), T) + IF Head(s) \in T THEN 1 ELSE 0
<1> DEFINE I(q) == {i \in DOMAIN q : q[i] \in T}
           rest == I(s) \ {1}
           f == [i \in I(Tail(s)) |-> i + 1]
<1>1. /\ DOMAIN s = 1..Len(s) /\ Len(s) \in Nat /\ Len(s) > 0
      /\ Tail(s) \in Seq(Tasks) /\ Head(s) = s[1]
      /\ DOMAIN Tail(s) = 1..Len(s) - 1
      /\ \A i \in DOMAIN Tail(s) : Tail(s)[i] = s[i + 1]
  OBVIOUS
<1>2. IsFiniteSet(I(s)) /\ IsFiniteSet(I(Tail(s)))
  <2>1. IsFiniteSet(1..Len(s)) /\ IsFiniteSet(1..Len(s) - 1)
    BY <1>1, FS_Interval
  <2> QED BY <1>1, <2>1, FS_Subset
<1>3. \A i \in I(Tail(s)) : i \in Nat /\ i + 1 \in rest
  BY <1>1
<1>4. \A j \in rest : j - 1 \in I(Tail(s)) /\ (j - 1) + 1 = j
  BY <1>1
<1>5. 1 \in I(s) <=> Head(s) \in T
  BY <1>1
<1> HIDE DEF I
<1>6. f \in Bijection(I(Tail(s)), rest)
  BY <1>3, <1>4 DEF Bijection, Injection, Surjection, IsInjective
<1>7. Cardinality(rest) = Cardinality(I(Tail(s)))
  BY <1>2, <1>6, FS_Bijection DEF ExistsBijection
<1>8. Cardinality(rest) = IF 1 \in I(s) THEN Cardinality(I(s)) - 1 ELSE Cardinality(I(s))
  BY <1>2, FS_RemoveElement
<1>9. Cardinality(I(s)) \in Nat /\ Cardinality(I(Tail(s))) \in Nat
  BY <1>2, FS_CardinalityType
<1>10. Cardinality(I(s)) = Cardinality(I(Tail(s))) + IF 1 \in I(s) THEN 1 ELSE 0
  BY <1>7, <1>8, <1>9
<1> QED BY <1>5, <1>10 DEF Count, I

\* The counts of a queue are numbers.
Counts(ts) ==
    /\ ts \in Seq(Tasks)
    /\ \A c \in Socks : {Refs(ts, c), Deletes(ts, c), Closes(ts, c), Frees(ts, c)} \subseteq Nat
    /\ Starts(ts) \in Nat

\* Both queues hold the same for connection c.
Same(ts, us, c) ==
    /\ Refs(us, c) = Refs(ts, c) /\ Deletes(us, c) = Deletes(ts, c)
    /\ Closes(us, c) = Closes(ts, c)

\* us is ts with one task more, <<kind, s>>, at either end.
OneMore(ts, us, kind, s) ==
    /\ Counts(ts) /\ Counts(us)
    /\ \A c \in Socks : c # s => Same(ts, us, c) /\ Frees(us, c) = Frees(ts, c)
    /\ s \in Socks =>
          /\ Refs(us, s) = IF kind \in RefKinds THEN Refs(ts, s) + 1 ELSE Refs(ts, s)
          /\ Deletes(us, s) = IF kind = "delete" THEN Deletes(ts, s) + 1 ELSE Deletes(ts, s)
          /\ Closes(us, s) = IF kind = "forceClose" THEN Closes(ts, s) + 1 ELSE Closes(ts, s)
          /\ Frees(us, s) = IF kind = "freeChannel" THEN Frees(ts, s) + 1 ELSE Frees(ts, s)
    /\ Starts(us) = IF kind = "start" THEN Starts(ts) + 1 ELSE Starts(ts)

\* Every queue has its counts.
LEMMA CountsAre == ASSUME NEW ts \in Seq(Tasks) PROVE Counts(ts)
BY CountType DEF Counts, Refs, Deletes, Closes, Frees, Starts

\* What is counted decides what holds of the counts.
LEMMA OneMoreIs ==
    ASSUME NEW ts \in Seq(Tasks), NEW us \in Seq(Tasks),
           NEW kind \in TaskKinds, NEW s \in Socks \cup {None},
           \A T \in SUBSET Tasks :
              Count(us, T) = Count(ts, T) + IF <<kind, s>> \in T THEN 1 ELSE 0
    PROVE  OneMore(ts, us, kind, s)
<1>1. Counts(ts) /\ Counts(us)
  BY CountsAre
<1>2. ASSUME NEW c \in Socks
      PROVE  /\ Refs(us, c) = IF kind \in RefKinds /\ c = s THEN Refs(ts, c) + 1 ELSE Refs(ts, c)
             /\ Deletes(us, c) = IF kind = "delete" /\ c = s THEN Deletes(ts, c) + 1 ELSE Deletes(ts, c)
             /\ Closes(us, c) = IF kind = "forceClose" /\ c = s THEN Closes(ts, c) + 1 ELSE Closes(ts, c)
             /\ Frees(us, c) = IF kind = "freeChannel" /\ c = s THEN Frees(ts, c) + 1 ELSE Frees(ts, c)
  <2>1. /\ RefKinds \X {c} \in SUBSET Tasks /\ {<<"delete", c>>} \in SUBSET Tasks
        /\ {<<"forceClose", c>>} \in SUBSET Tasks /\ {<<"freeChannel", c>>} \in SUBSET Tasks
    BY DEF Tasks, TaskKinds, RefKinds
  <2>2. /\ <<kind, s>> \in RefKinds \X {c} <=> kind \in RefKinds /\ c = s
        /\ <<kind, s>> \in {<<"delete", c>>} <=> kind = "delete" /\ c = s
        /\ <<kind, s>> \in {<<"forceClose", c>>} <=> kind = "forceClose" /\ c = s
        /\ <<kind, s>> \in {<<"freeChannel", c>>} <=> kind = "freeChannel" /\ c = s
    OBVIOUS
  <2>3. {Refs(ts, c), Deletes(ts, c), Closes(ts, c), Frees(ts, c)} \subseteq Nat
    BY <1>1 DEF Counts
  <2>4. /\ Refs(us, c) = Refs(ts, c) + IF <<kind, s>> \in RefKinds \X {c} THEN 1 ELSE 0
        /\ Deletes(us, c) = Deletes(ts, c) + IF <<kind, s>> \in {<<"delete", c>>} THEN 1 ELSE 0
        /\ Closes(us, c) = Closes(ts, c) + IF <<kind, s>> \in {<<"forceClose", c>>} THEN 1 ELSE 0
        /\ Frees(us, c) = Frees(ts, c) + IF <<kind, s>> \in {<<"freeChannel", c>>} THEN 1 ELSE 0
    BY <2>1 DEF Refs, Deletes, Closes, Frees
  <2> QED BY <2>2, <2>3, <2>4
<1>3. Starts(us) = IF kind = "start" THEN Starts(ts) + 1 ELSE Starts(ts)
  <2>1. {"start"} \X (Socks \cup {None}) \in SUBSET Tasks
    BY DEF Tasks, TaskKinds
  <2>2. <<kind, s>> \in {"start"} \X (Socks \cup {None}) <=> kind = "start"
    OBVIOUS
  <2>3. Starts(us) = Starts(ts) + IF <<kind, s>> \in {"start"} \X (Socks \cup {None}) THEN 1 ELSE 0
    BY <2>1 DEF Starts
  <2>4. Starts(ts) \in Nat
    BY <1>1 DEF Counts
  <2> QED BY <2>2, <2>3, <2>4
<1> QED BY <1>1, <1>2, <1>3 DEF OneMore, Same

\* Queueing a task.
LEMMA Queueing ==
    ASSUME NEW ts \in Seq(Tasks), NEW kind \in TaskKinds, NEW s \in Socks \cup {None}
    PROVE  Append(ts, <<kind, s>>) \in Seq(Tasks) /\ OneMore(ts, Append(ts, <<kind, s>>), kind, s)
<1>1. <<kind, s>> \in Tasks
  BY DEF Tasks
<1>2. Append(ts, <<kind, s>>) \in Seq(Tasks)
  BY <1>1, AppendProperties
<1>3. \A T \in SUBSET Tasks : Count(Append(ts, <<kind, s>>), T) =
                                 Count(ts, T) + IF <<kind, s>> \in T THEN 1 ELSE 0
  BY <1>1, CountAppend
<1> QED BY <1>2, <1>3, OneMoreIs

\* Running a task.
LEMMA Running ==
    ASSUME NEW ts \in Seq(Tasks), ts # <<>>,
           NEW kind \in TaskKinds, NEW s \in Socks \cup {None}, Head(ts) = <<kind, s>>
    PROVE  Tail(ts) \in Seq(Tasks) /\ OneMore(Tail(ts), ts, kind, s)
<1>1. Tail(ts) \in Seq(Tasks)
  OBVIOUS
<1>2. \A T \in SUBSET Tasks : Count(ts, T) =
                                 Count(Tail(ts), T) + IF <<kind, s>> \in T THEN 1 ELSE 0
  BY CountTail
<1> QED BY <1>1, <1>2, OneMoreIs

\* What Unreferenced leaves behind.
LEMMA Unreferencing ==
    ASSUME NEW ts \in Seq(Tasks), NEW c \in Socks
    PROVE  LET us == Unreferenced(c, ts)
           IN  IF connection' = c \/ held = c \/ Refs(ts, c) > 0
               THEN us = ts
               ELSE us \in Seq(Tasks) /\ OneMore(ts, us, "delete", c)
<1>1. Refs(ts, c) > 0 <=> \E i \in DOMAIN ts : ts[i] \in RefKinds \X {c}
  BY CountType DEF Refs
<1>2. \A i \in DOMAIN ts : ts[i] \in Tasks
  OBVIOUS
<1>3. \A i \in DOMAIN ts : ts[i] \in RefKinds \X {c} <=> ts[i][1] \in RefKinds /\ ts[i][2] = c
  BY <1>2 DEF Tasks
<1>4. "delete" \in TaskKinds
  BY DEF TaskKinds
<1> QED BY <1>1, <1>3, <1>4, Queueing DEF Unreferenced

----------------------------------------------------------------------------
\* What startInLoop is called with: a queued start or a retry timer is used up,
\* and the rest of the Connector and of the queue is as it was.
Triggered(k, ts) ==
    /\ k \in ConnectorType /\ ts \in Seq(Tasks)
    /\ k.connect = connector.connect /\ k.state = connector.state
    /\ k.channel = connector.channel /\ k.gaveUp = connector.gaveUp
    /\ k.dropped = connector.dropped
    /\ k.timers \subseteq connector.timers
    /\ \A c \in Socks : Same(ts, tasks, c)
    /\ Counts(ts)
    /\ Cardinality(k.timers) + Starts(ts) + 1 = Cardinality(connector.timers) + Starts(tasks)

\* A set of sockets is finite.
LEMMA SocksFinite ==
    ASSUME NEW S \in SUBSET Socks
    PROVE  /\ IsFiniteSet(S) /\ Cardinality(S) \in Nat
           /\ \A s \in S : Cardinality(S \ {s}) + 1 = Cardinality(S)
           /\ \A s : Cardinality(S \ {s}) \in Nat /\ Cardinality(S \ {s}) <= Cardinality(S)
           /\ \A s \in Socks : Cardinality(S \cup {s}) \in Nat
                               /\ Cardinality(S \cup {s}) <= Cardinality(S) + 1
<1>1. MaxAttempts \in Nat /\ IsFiniteSet(Socks)
  BY BoundsAssumption, FS_Interval DEF Socks
<1>2. IsFiniteSet(S) /\ Cardinality(S) \in Nat
  BY <1>1, FS_Subset, FS_CardinalityType
<1>3. \A s : Cardinality(S \ {s}) = IF s \in S THEN Cardinality(S) - 1 ELSE Cardinality(S)
  BY <1>2, FS_RemoveElement
<1>4. \A s : Cardinality(S \cup {s}) = IF s \in S THEN Cardinality(S) ELSE Cardinality(S) + 1
  BY <1>2, FS_AddElement
<1>5. \A s \in S : Cardinality(S) # 0
  BY <1>2, FS_EmptySet
<1> QED BY <1>2, <1>3, <1>4, <1>5

LEMMA TriggerFacts ==
    ASSUME TypeOK, NEW t \in Triggers
    PROVE  Triggered(t[1], t[2])
<1>0. /\ connector \in ConnectorType /\ tasks \in Seq(Tasks) /\ Counts(tasks)
      /\ connector.timers \in SUBSET Socks
  BY CountsAre DEF TypeOK, ConnectorType
<1>1. ASSUME tasks # <<>>, Head(tasks) = <<"start", None>>, t = <<connector, Tail(tasks)>>
      PROVE  Triggered(t[1], t[2])
  <2>1. Tail(tasks) \in Seq(Tasks) /\ OneMore(Tail(tasks), tasks, "start", None)
    <3>1. "start" \in TaskKinds /\ None \in Socks \cup {None}
      BY DEF TaskKinds
    <3> QED BY <1>0, <1>1, <3>1, Running
  <2>2. \A c \in Socks : c # None
    BY DEF Socks, None
  <2>3. (\A c \in Socks : Same(Tail(tasks), tasks, c)) /\ Starts(tasks) = Starts(Tail(tasks)) + 1
    BY <2>1, <2>2 DEF OneMore
  <2>4. Counts(Tail(tasks)) /\ Starts(Tail(tasks)) \in Nat
    BY <2>1 DEF OneMore, Counts
  <2>5. Cardinality(connector.timers) \in Nat
    BY <1>0, SocksFinite
  <2> QED BY <1>0, <1>1, <2>1, <2>3, <2>4, <2>5 DEF Triggered
<1>2. ASSUME NEW r \in connector.timers,
             t = <<[connector EXCEPT !.timers = @ \ {r}], tasks>>
      PROVE  Triggered(t[1], t[2])
  <2>1. t[1] = [connector EXCEPT !.timers = connector.timers \ {r}] /\ t[2] = tasks
    BY <1>2
  <2>2. /\ t[1] \in ConnectorType /\ t[1].timers = connector.timers \ {r}
        /\ t[1].connect = connector.connect /\ t[1].state = connector.state
        /\ t[1].channel = connector.channel /\ t[1].gaveUp = connector.gaveUp
        /\ t[1].dropped = connector.dropped
    BY <1>0, <2>1 DEF ConnectorType
  <2>3. /\ Cardinality(connector.timers \ {r}) + 1 = Cardinality(connector.timers)
        /\ Cardinality(connector.timers \ {r}) \in Nat /\ Starts(tasks) \in Nat
    BY <1>0, SocksFinite DEF Counts
  <2>4. Cardinality(t[1].timers) + Starts(t[2]) + 1 = Cardinality(connector.timers) + Starts(tasks)
    BY <2>1, <2>2, <2>3
  <2> QED BY <1>0, <2>1, <2>2, <2>4 DEF Triggered, Same
<1> QED BY <1>1, <1>2 DEF Triggers

----------------------------------------------------------------------------
\* The socket of an attempt is new.
LEMMA NewSocket ==
    ASSUME attempts \in 0..MaxAttempts, attempts < MaxAttempts
    PROVE  attempts + 1 \in Socks /\ attempts + 1 \in 0..MaxAttempts
BY BoundsAssumption DEF Socks

\* What is left of the Connector when an attempt fails.
LEMMA RetriedIs ==
    ASSUME NEW k \in ConnectorType, NEW s \in Socks
    PROVE  /\ Retried(k, s) \in ConnectorType
           /\ Retried(k, s).connect = k.connect /\ Retried(k, s).gaveUp = k.gaveUp
           /\ Retried(k, s).state = "kDisconnected" /\ Retried(k, s).channel = None
           /\ Retried(k, s).timers = IF k.connect THEN k.timers \cup {s} ELSE k.timers
BY DEF Retried, ConnectorType, None

\* The Connector with its flag set, or connected.
LEMMA ConnectorIs ==
    ASSUME NEW k \in ConnectorType
    PROVE  /\ Connected(k) \in ConnectorType
           /\ Connected(k).state = "kConnected" /\ Connected(k).channel = None
           /\ Connected(k).timers = k.timers /\ Connected(k).connect = k.connect
           /\ \A s \in Socks :
                 LET p == [k EXCEPT !.state = "kConnecting", !.channel = s]
                 IN  /\ p \in ConnectorType /\ p.state = "kConnecting" /\ p.channel = s
                     /\ p.timers = k.timers /\ p.connect = k.connect
           /\ LET g == [k EXCEPT !.gaveUp = TRUE]
              IN  /\ g \in ConnectorType /\ g.gaveUp
                  /\ g.state = k.state /\ g.channel = k.channel
                  /\ g.timers = k.timers /\ g.connect = k.connect
BY DEF Connected, ConnectorType

\* The Connector after a success, kept or dropped.
LEMMA SucceededIs ==
    ASSUME connector \in ConnectorType, AttemptSucceeds
    PROVE  /\ connector' \in ConnectorType
           /\ connector'.state = "kConnected" /\ connector'.channel = None
           /\ connector'.timers = connector.timers
           /\ ~StillWanted => connector'.dropped
<1>1. CASE StillWanted /\ connector' = Connected(connector)
  BY <1>1, ConnectorIs
<1>2. CASE ~StillWanted /\ connector' = Dropped(connector)
  <2>1. /\ Dropped(connector) \in ConnectorType /\ Dropped(connector).dropped
        /\ Dropped(connector).state = "kConnected" /\ Dropped(connector).channel = None
        /\ Dropped(connector).timers = connector.timers
    BY DEF Dropped, ConnectorType
  <2> QED BY <1>2, <2>1
<1> QED BY <1>1, <1>2 DEF AttemptSucceeds

LEMMA FlaggedIs ==
    ASSUME connector \in ConnectorType
    PROVE  /\ Flagged \in ConnectorType /\ Flagged.connect /\ ~Flagged.gaveUp
           /\ Flagged.state = connector.state /\ Flagged.channel = connector.channel
           /\ Flagged.timers = connector.timers /\ Flagged.dropped = connector.dropped
BY DEF Flagged, ConnectorType

----------------------------------------------------------------------------
\* Every step keeps the types.

\* The steps of startInLoop.
LEMMA StartTypes ==
    ASSUME TypeOK, NEW k, NEW ts, Triggered(k, ts), StartInLoop(k, ts), UNCHANGED thread
    PROVE  TypeOK'
<1>1. /\ k \in ConnectorType /\ ts \in Seq(Tasks)
      /\ k.state = connector.state /\ k.channel = connector.channel
  BY DEF Triggered
<1>2. UNCHANGED <<wanted, callbacks, current, user, held, calls, starts>>
  BY DEF StartInLoop, event, thread
<1>3. CASE StartIgnored(k, ts)
  BY <1>1, <1>2, <1>3 DEF StartIgnored, sockets, TypeOK
<1>4. CASE /\ k.connect /\ k.state = "kDisconnected"
           /\ attempts < MaxAttempts
           /\ attempts' = attempts + 1
           /\ \/ ConnectGivesUp(k, ts)
              \/ ConnectsAtOnce(k, ts)
              \/ ConnectInProgress(k, ts)
              \/ ConnectRefused(k, ts)
  <2>1. attempts' \in Socks /\ attempts' \in 0..MaxAttempts /\ attempts' # None
    BY <1>4, NewSocket DEF TypeOK, Socks, None
  <2>2. CASE ConnectGivesUp(k, ts)
    <3>1. /\ connector' \in ConnectorType
          /\ connector'.channel = k.channel /\ connector'.state = k.state
      BY <1>1, <2>2, ConnectorIs DEF ConnectGivesUp
    <3> QED BY <1>1, <1>2, <2>1, <2>2, <3>1 DEF ConnectGivesUp, TypeOK
  <2>3. CASE ConnectsAtOnce(k, ts)
    <3>1. /\ connector' \in ConnectorType
          /\ connector'.channel = None /\ connector'.state = "kConnected"
      BY <1>1, <2>3, ConnectorIs DEF ConnectsAtOnce
    <3>2. tasks' \in Seq(Tasks)
      BY <1>1, <2>1, <2>3, Queueing DEF ConnectsAtOnce, NewConnection, TaskKinds, RefKinds
    <3>3. /\ conn' = [conn EXCEPT ![attempts'] = "kConnected"]
          /\ connection' = attempts' /\ open' = open \cup {attempts'}
      BY <2>3 DEF ConnectsAtOnce, NewConnection
    <3> QED BY <1>1, <1>2, <2>1, <3>1, <3>2, <3>3 DEF TypeOK
  <2>4. CASE ConnectInProgress(k, ts)
    <3>1. /\ connector' \in ConnectorType
          /\ connector'.channel = attempts' /\ connector'.state = "kConnecting"
      BY <1>1, <2>1, <2>4, ConnectorIs DEF ConnectInProgress
    <3> QED BY <1>1, <1>2, <2>1, <2>4, <3>1 DEF ConnectInProgress, TypeOK
  <2>5. CASE ConnectRefused(k, ts)
    <3>1. /\ connector' \in ConnectorType
          /\ connector'.channel = None /\ connector'.state = "kDisconnected"
      BY <1>1, <2>1, <2>5, RetriedIs DEF ConnectRefused
    <3> QED BY <1>1, <1>2, <2>1, <2>5, <3>1 DEF ConnectRefused, TypeOK
  <2> QED BY <1>4, <2>2, <2>3, <2>4, <2>5
<1> QED BY <1>3, <1>4 DEF StartInLoop

\* The steps of a callback of the connecting Channel.
LEMMA CallbackTypes ==
    ASSUME TypeOK, CallbackIgnored \/ AttemptFails \/ AttemptSucceeds, UNCHANGED thread
    PROVE  TypeOK'
<1>1. /\ UNCHANGED <<wanted, attempts, starts, user, held, calls>>
      /\ callbacks' \in Seq({"handleError", "handleWrite"})
      /\ current' \in Socks \cup {None}
  <2>1. PICK name : Callback(name)
    BY DEF CallbackIgnored, AttemptFails, AttemptSucceeds
  <2>2. /\ UNCHANGED <<wanted, attempts, starts>> /\ callbacks # <<>>
        /\ callbacks' = Tail(callbacks) /\ current' \in {None, current}
    BY <2>1 DEF Callback
  <2>3. callbacks \in Seq({"handleError", "handleWrite"}) /\ current \in Socks \cup {None}
    BY DEF TypeOK
  <2>4. Tail(callbacks) \in Seq({"handleError", "handleWrite"})
    BY <2>2, <2>3
  <2> QED BY <2>2, <2>3, <2>4 DEF thread
<1>2. connector \in ConnectorType /\ tasks \in Seq(Tasks) /\ connector.channel \in Socks \cup {None}
  BY DEF TypeOK, ConnectorType
<1>3. CASE CallbackIgnored
  BY <1>1, <1>3 DEF CallbackIgnored, TypeOK
<1>4. CASE Connecting
  <2>1. connector.channel \in Socks
    BY <1>2, <1>4 DEF TypeOK, Connecting
  <2>2. ChannelReleased \in Seq(Tasks)
    BY <1>2, Queueing DEF ChannelReleased, TaskKinds
  <2>3. CASE AttemptFails
    <3>1. /\ connector' \in ConnectorType
          /\ connector'.channel = None /\ connector'.state = "kDisconnected"
      BY <1>2, <2>1, <2>3, RetriedIs DEF AttemptFails
    <3>2. UNCHANGED <<connection, conn>> /\ open' \in SUBSET Socks /\ tasks' \in Seq(Tasks)
      BY <2>2, <2>3 DEF AttemptFails, TypeOK
    <3> QED BY <1>1, <3>1, <3>2 DEF TypeOK
  <2>4. CASE AttemptSucceeds
    <3>1. /\ connector' \in ConnectorType
          /\ connector'.channel = None /\ connector'.state = "kConnected"
      BY <1>2, <2>4, SucceededIs
    <3>2. Append(ChannelReleased, <<"establish", connector.channel>>) \in Seq(Tasks)
      BY <2>1, <2>2, Queueing DEF TaskKinds, RefKinds
    <3>3. /\ open' \in SUBSET Socks /\ tasks' \in Seq(Tasks)
          /\ connection' \in Socks \cup {None}
          /\ conn' \in [Socks -> {"none", "kConnected", "kDisconnecting", "deleted"}]
      BY <2>1, <2>2, <2>4, <3>2 DEF AttemptSucceeds, NewConnection, UnwantedClosed, TypeOK
    <3> QED BY <1>1, <3>1, <3>3 DEF TypeOK
  <2> QED BY <1>3, <2>3, <2>4
<1> QED BY <1>3, <1>4 DEF AttemptFails, AttemptSucceeds

\* What removeConnection leaves behind is of the right type.
LEMMA RemoveTypes ==
    ASSUME TypeOK, NEW c \in Socks, NEW ts \in Seq(Tasks), RemoveConnection(c, ts),
           conn' \in [Socks -> {"none", "kConnected", "kDisconnecting", "deleted"}],
           UNCHANGED thread
    PROVE  TypeOK'
<1>1. /\ connection' = None
      /\ UNCHANGED <<wanted, callbacks, current, open, attempts, user, held, calls>>
  BY DEF RemoveConnection, ConnectionReset, event, sockets, thread
<1>2. connector \in ConnectorType /\ starts \in Nat
  BY DEF TypeOK
<1>3. /\ connector' \in ConnectorType /\ starts' \in Nat
      /\ connector'.channel = connector.channel /\ connector'.state = connector.state
  BY <1>2, FlaggedIs DEF RemoveConnection
<1>4. tasks' \in Seq(Tasks)
  <2>1. Append(ts, <<"start", None>>) \in Seq(Tasks)
    BY Queueing DEF TaskKinds
  <2>2. tasks' = Unreferenced(c, IF wanted THEN Append(ts, <<"start", None>>) ELSE ts)
    BY DEF RemoveConnection
  <2> QED BY <2>1, <2>2, Unreferencing
<1> QED BY <1>1, <1>3, <1>4 DEF TypeOK

LEMMA TypeStep == TypeOK /\ [Next]_vars => TypeOK'
<1> SUFFICES ASSUME TypeOK, [Next]_vars PROVE TypeOK'
  OBVIOUS
<1> USE DEF TypeOK
<1>0. /\ connector \in ConnectorType /\ tasks \in Seq(Tasks) /\ connector.channel \in Socks \cup {None}
      /\ \A kind \in TaskKinds, s \in Socks \cup {None} : Append(tasks, <<kind, s>>) \in Seq(Tasks)
      /\ tasks # <<>> => Tail(tasks) \in Seq(Tasks)
  BY Queueing DEF ConnectorType
<1>1. CASE UserConnect
  <2>1. calls' \in [connect : 0..MaxConnects, send : 0..MaxSends]
    BY <1>1, BoundsAssumption DEF UserConnect
  <2> QED BY <1>1, <2>1 DEF UserConnect, event, sockets
<1>2. CASE UserStart
  BY <1>0, <1>2, FlaggedIs DEF UserStart, event, sockets
<1>3. CASE UserQueue
  BY <1>0, <1>3 DEF UserQueue, event, sockets, TaskKinds
<1>4. CASE UserSend
  <2>1. calls' \in [connect : 0..MaxConnects, send : 0..MaxSends]
    BY <1>4, BoundsAssumption DEF UserSend
  <2> QED BY <1>4, <2>1 DEF UserSend, event, sockets
<1>5. CASE UserSendQueue
  BY <1>0, <1>5 DEF UserSendQueue, event, sockets, TaskKinds, RefKinds
<1>6. CASE ConnectingEvent
  <2>1. callbacks' \in Seq({"handleError", "handleWrite"})
    <3>1. callbacks' \in {<<"handleWrite">>, <<"handleError", "handleWrite">>,
                           <<"handleError", "handleError", "handleWrite">>}
      BY <1>6 DEF ConnectingEvent
    <3>2. <<"handleWrite">> \in Seq({"handleError", "handleWrite"})
      OBVIOUS
    <3>3. <<"handleError", "handleWrite">> \in Seq({"handleError", "handleWrite"})
      OBVIOUS
    <3>4. <<"handleError", "handleError", "handleWrite">> \in Seq({"handleError", "handleWrite"})
      OBVIOUS
    <3> QED BY <3>1, <3>2, <3>3, <3>4
  <2> QED BY <1>0, <1>6, <2>1 DEF ConnectingEvent, sockets, thread
<1>7. ASSUME NEW t \in Triggers, StartInLoop(t[1], t[2]), UNCHANGED thread PROVE TypeOK'
  BY <1>7, TriggerFacts, StartTypes
<1>8. ASSUME CallbackIgnored \/ AttemptFails \/ AttemptSucceeds, UNCHANGED thread PROVE TypeOK'
  BY <1>8, CallbackTypes
<1>9. CASE Disconnect
  <2>1. /\ connector' \in ConnectorType
        /\ connector'.channel = connector.channel /\ connector'.state = connector.state
    BY <1>0, <1>9 DEF Disconnect, ConnectorType, None
  <2>2. tasks' \in Seq(Tasks) /\ conn' \in [Socks -> {"none", "kConnected", "kDisconnecting", "deleted"}]
    <3>1. CASE connection # None /\ conn[connection] = "kConnected"
      <4>1. /\ conn' = [conn EXCEPT ![connection] = "kDisconnecting"]
            /\ tasks' = Append(tasks, <<"forceClose", connection>>)
        BY <1>9, <3>1 DEF Disconnect, ForceClosed
      <4>2. "forceClose" \in TaskKinds
        BY DEF TaskKinds, RefKinds
      <4> QED BY <1>0, <4>1, <4>2
    <3>2. CASE ~(connection # None /\ conn[connection] = "kConnected")
      BY <1>0, <1>9, <3>2 DEF Disconnect
    <3> QED BY <3>1, <3>2
  <2> QED BY <1>9, <2>1, <2>2 DEF Disconnect, event, sockets, thread
<1>10. ASSUME NEW c \in Socks, ConnectionLost(c) PROVE TypeOK'
  BY <1>0, <1>10, RemoveTypes DEF ConnectionLost
<1>11. ASSUME NEW c \in Socks, GarbageReceived(c) PROVE TypeOK'
  BY <1>0, <1>11 DEF GarbageReceived, ForceClosed, event, sockets, thread, TaskKinds, RefKinds
<1>12. ASSUME NEW c \in Socks, ForceClose(c), UNCHANGED thread PROVE TypeOK'
  BY <1>0, <1>12, RemoveTypes DEF ForceClose, Runs
<1>13. ASSUME NEW c \in Socks, RunReference(c), UNCHANGED thread PROVE TypeOK'
  <2>1. tasks' \in Seq(Tasks)
    BY <1>0, <1>13, Unreferencing DEF RunReference, Runs
  <2> QED BY <1>13, <2>1 DEF RunReference, event, sockets, thread
<1>14. ASSUME NEW c \in Socks, FreeChannel(c) \/ Delete(c), UNCHANGED thread PROVE TypeOK'
  BY <1>0, <1>14 DEF FreeChannel, Delete, Runs, event, sockets, thread
<1>15. CASE UNCHANGED vars
  BY <1>15 DEF vars, event, sockets, thread
<1> QED
  BY <1>1, <1>2, <1>3, <1>4, <1>5, <1>6, <1>7, <1>8, <1>9, <1>10, <1>11, <1>12, <1>13, <1>14,
     <1>15 DEF Next, UserStep, LoopStep

----------------------------------------------------------------------------
\* Every step keeps the sockets owned.

\* The sockets do not notice a connection that starts closing.
LEMMA SocketsKept ==
    ASSUME TypeOK, SocketInv, UNCHANGED sockets,
           connector'.channel = connector.channel, connector'.state = connector.state,
           connector'.dropped = connector.dropped,
           \/ conn' = conn
           \/ \E c \in Socks : conn[c] = "kConnected"
                               /\ conn' = [conn EXCEPT ![c] = "kDisconnecting"]
    PROVE  SocketInv'
<1>1. /\ UNCHANGED <<open, attempts>>
      /\ \A s \in Socks : /\ conn'[s] = "none" <=> conn[s] = "none"
                          /\ conn'[s] \in {"kConnected", "kDisconnecting"} <=>
                                conn[s] \in {"kConnected", "kDisconnecting"}
  BY DEF TypeOK, sockets
<1>2. SocketsOwned'
  BY <1>1 DEF SocketInv, SocketsOwned
<1> QED BY <1>1, <1>2 DEF SocketInv

LEMMA SocketStart ==
    ASSUME TypeOK, SocketInv, NEW k, NEW ts, Triggered(k, ts), StartInLoop(k, ts)
    PROVE  SocketInv'
<1>1. /\ k \in ConnectorType
      /\ k.state = connector.state /\ k.channel = connector.channel
      /\ k.dropped = connector.dropped
  BY DEF Triggered
<1>2. CASE StartIgnored(k, ts)
  BY <1>1, <1>2, SocketsKept DEF StartIgnored
<1>3. CASE /\ k.connect /\ k.state = "kDisconnected"
           /\ attempts < MaxAttempts
           /\ attempts' = attempts + 1
           /\ \/ ConnectGivesUp(k, ts)
              \/ ConnectsAtOnce(k, ts)
              \/ ConnectInProgress(k, ts)
              \/ ConnectRefused(k, ts)
  <2>1. /\ attempts' \in Socks /\ attempts' > attempts /\ attempts \in Nat
        /\ connector.channel = None
        /\ \A s \in Socks : s \in Nat /\ s # None /\ (s > attempts' => s > attempts)
    BY <1>1, <1>3, NewSocket DEF TypeOK, Socks, None
  <2>2. /\ open = {} /\ \A s \in Socks : conn[s] = "none"
    BY <1>1, <1>3, <2>1 DEF SocketInv, SocketsOwned
  <2>3. CASE ConnectGivesUp(k, ts) \/ ConnectRefused(k, ts)
    <3>1. /\ connector'.channel = None /\ connector'.state = "kDisconnected"
          /\ UNCHANGED <<conn, open>>
      <4>1. CASE ConnectGivesUp(k, ts)
        BY <1>1, <1>3, <2>1, <4>1, ConnectorIs DEF ConnectGivesUp
      <4>2. CASE ConnectRefused(k, ts)
        BY <1>1, <2>1, <4>2, RetriedIs DEF ConnectRefused
      <4> QED BY <2>3, <4>1, <4>2
    <3>2. None <= attempts'
      BY <2>1 DEF None
    <3> QED BY <2>1, <2>2, <3>1, <3>2 DEF SocketInv, SocketsOwned
  <2>4. CASE ConnectInProgress(k, ts)
    <3>1. /\ connector'.channel = attempts' /\ connector'.state = "kConnecting"
          /\ open' = {attempts'} /\ conn' = conn
      <4>1. /\ connector' = [k EXCEPT !.state = "kConnecting", !.channel = attempts']
            /\ open' = open \cup {attempts'} /\ conn' = conn
        BY <2>4 DEF ConnectInProgress
      <4>2. k \in ConnectorType
        BY <1>1
      <4>3. connector'.channel = attempts' /\ connector'.state = "kConnecting"
        <5>1. DOMAIN k = DOMAIN [k EXCEPT !.state = "kConnecting", !.channel = attempts']
              /\ "state" \in DOMAIN k /\ "channel" \in DOMAIN k
          BY ONLY <4>2 DEF ConnectorType
        <5> QED BY ONLY <4>1, <5>1
      <4> QED BY <2>2, <4>1, <4>3
    <3>2. attempts' <= attempts'
      BY <2>1
    <3> QED BY <2>1, <2>2, <3>1, <3>2 DEF SocketInv, SocketsOwned
  <2>5. CASE ConnectsAtOnce(k, ts)
    <3>1. /\ connector'.channel = None /\ connector'.state = "kConnected"
          /\ open' = {attempts'} /\ conn' = [conn EXCEPT ![attempts'] = "kConnected"]
      BY <1>1, <2>1, <2>2, <2>5, ConnectorIs DEF ConnectsAtOnce, NewConnection
    <3>2. conn'[attempts'] = "kConnected"
          /\ \A s \in Socks : s # attempts' => conn'[s] = "none"
      BY <2>1, <2>2, <3>1 DEF TypeOK
    <3>3. None <= attempts' /\ ~(attempts' > attempts')
      BY <2>1 DEF None
    <3> QED BY <2>1, <3>1, <3>2, <3>3 DEF SocketInv, SocketsOwned
  <2> QED BY <1>3, <2>3, <2>4, <2>5
<1> QED BY <1>2, <1>3 DEF StartInLoop

LEMMA SocketCallback ==
    ASSUME TypeOK, SocketInv, CallbackIgnored \/ AttemptFails \/ AttemptSucceeds
    PROVE  SocketInv'
<1>1. connector \in ConnectorType /\ connector.channel \in Socks \cup {None}
      /\ attempts' = attempts /\ attempts \in Nat
  BY DEF TypeOK, ConnectorType, CallbackIgnored, AttemptFails, AttemptSucceeds, Callback
<1>2. CASE CallbackIgnored
  BY <1>1, <1>2, SocketsKept DEF CallbackIgnored, sockets
<1>3. CASE Connecting
  <2>1. /\ connector.channel \in Socks
        /\ open = {connector.channel} /\ \A s \in Socks : conn[s] = "none"
    BY <1>1, <1>3 DEF TypeOK, Connecting, SocketInv, SocketsOwned
  <2>2. \A s \in Socks : s # None
    BY DEF Socks, None
  <2>3. None <= attempts
    BY <1>1 DEF None
  <2>4. CASE AttemptFails
    <3>1. /\ connector'.channel = None /\ connector'.state = "kDisconnected"
          /\ open' = {} /\ conn' = conn
      BY <1>1, <2>1, <2>4, RetriedIs DEF AttemptFails
    <3> QED BY <1>1, <2>1, <2>2, <2>3, <3>1 DEF SocketInv, SocketsOwned
  <2>5. CASE AttemptSucceeds
    <3>1. connector'.channel = None /\ connector'.state = "kConnected"
      BY <1>1, <2>5, SucceededIs
    <3>2. CASE StillWanted
      <4>1. /\ conn' = [conn EXCEPT ![connector.channel] = "kConnected"]
            /\ open' = {connector.channel}
        BY <2>1, <2>5, <3>2 DEF AttemptSucceeds, NewConnection
      <4>2. /\ conn'[connector.channel] = "kConnected"
            /\ \A s \in Socks : s # connector.channel => conn'[s] = "none"
        BY <2>1, <4>1 DEF TypeOK
      <4>3. ~(connector.channel > attempts)
        BY <1>1, <2>1 DEF SocketInv, Socks
      <4> QED BY <1>1, <2>1, <2>2, <2>3, <3>1, <4>1, <4>2, <4>3 DEF SocketInv, SocketsOwned
    <3>3. CASE ~StillWanted
      <4>1. conn' = conn /\ open' = {}
        BY <2>1, <2>5, <3>3 DEF AttemptSucceeds, UnwantedClosed
      <4>2. connector'.dropped
        BY <1>1, <2>5, <3>3, SucceededIs
      <4> QED BY <1>1, <2>1, <2>2, <2>3, <3>1, <4>1, <4>2 DEF SocketInv, SocketsOwned
    <3> QED BY <3>2, <3>3
  <2> QED BY <1>2, <2>4, <2>5
<1> QED BY <1>2, <1>3 DEF AttemptFails, AttemptSucceeds

LEMMA SocketStep ==
    ASSUME TypeOK, SocketInv, LifeInv, Next
    PROVE  SocketInv'
<1>0. connector \in ConnectorType /\ tasks \in Seq(Tasks)
  BY DEF TypeOK
<1>1. CASE UserConnect \/ UserQueue \/ UserSend \/ UserSendQueue \/ ConnectingEvent
  BY <1>1, SocketsKept
     DEF UserConnect, UserQueue, UserSend, UserSendQueue, ConnectingEvent
<1>2. CASE UserStart
  BY <1>0, <1>2, FlaggedIs, SocketsKept DEF UserStart
<1>3. ASSUME NEW t \in Triggers, StartInLoop(t[1], t[2]) PROVE SocketInv'
  BY <1>3, TriggerFacts, SocketStart
<1>4. CASE CallbackIgnored \/ AttemptFails \/ AttemptSucceeds
  BY <1>4, SocketCallback
<1>5. CASE Disconnect
  <2>1. /\ connector'.channel = connector.channel /\ connector'.state = connector.state
        /\ connector'.dropped = connector.dropped
    BY <1>0, <1>5 DEF Disconnect, ConnectorType
  <2>2. CASE connection # None /\ conn[connection] = "kConnected"
    <3>1. connection \in Socks /\ conn' = [conn EXCEPT ![connection] = "kDisconnecting"]
      BY <1>5, <2>2 DEF Disconnect, ForceClosed, TypeOK
    <3> QED BY <1>5, <2>1, <2>2, <3>1, SocketsKept DEF Disconnect
  <2>3. CASE ~(connection # None /\ conn[connection] = "kConnected")
    BY <1>5, <2>1, <2>3, SocketsKept DEF Disconnect
  <2> QED BY <2>2, <2>3
<1>6. ASSUME NEW c \in Socks, ConnectionLost(c) PROVE SocketInv'
  <2>1. /\ conn[c] = "kConnected" /\ conn' = [conn EXCEPT ![c] = "kDisconnecting"]
        /\ UNCHANGED sockets
        /\ connector'.channel = connector.channel /\ connector'.state = connector.state
        /\ connector'.dropped = connector.dropped
    BY <1>0, <1>6, FlaggedIs DEF ConnectionLost, Established, RemoveConnection
  <2> QED BY <2>1, SocketsKept
<1>7. ASSUME NEW c \in Socks, GarbageReceived(c) PROVE SocketInv'
  BY <1>7, SocketsKept DEF GarbageReceived, Established, ForceClosed
<1>8. ASSUME NEW c \in Socks, ForceClose(c) PROVE SocketInv'
  <2>1. /\ conn' = conn /\ UNCHANGED sockets
        /\ connector'.channel = connector.channel /\ connector'.state = connector.state
        /\ connector'.dropped = connector.dropped
    BY <1>0, <1>8, FlaggedIs DEF ForceClose, RemoveConnection
  <2> QED BY <2>1, SocketsKept
<1>9. ASSUME NEW c \in Socks, RunReference(c) \/ FreeChannel(c) PROVE SocketInv'
  BY <1>9, SocketsKept DEF RunReference, FreeChannel
<1>10. ASSUME NEW c \in Socks, Delete(c) PROVE SocketInv'
  <2>1. /\ tasks # <<>> /\ Head(tasks) = <<"delete", c>>
        /\ conn' = [conn EXCEPT ![c] = "deleted"] /\ open' = open \ {c}
        /\ UNCHANGED <<connector, attempts>>
    BY <1>10 DEF Delete, Runs
  <2>2. conn[c] = "kDisconnecting"
    <3>1. OneMore(Tail(tasks), tasks, "delete", c)
      BY <1>0, <2>1, Running DEF TaskKinds
    <3>2. Deletes(tasks, c) > 0
      BY <3>1 DEF OneMore, Counts
    <3> QED BY <3>2 DEF LifeInv, Life
  <2>3. conn'[c] = "deleted" /\ \A s \in Socks : s # c => conn'[s] = conn[s]
    BY <2>1 DEF TypeOK
  <2>4. connector.channel # c /\ ~(c > attempts) /\ connector.state = "kConnected"
    BY <2>2 DEF SocketInv
  <2>5. SocketsOwned'
    BY <2>1, <2>2, <2>3, <2>4 DEF SocketInv, SocketsOwned
  <2> QED BY <2>1, <2>2, <2>3, <2>4, <2>5 DEF SocketInv
<1> QED
  BY <1>1, <1>2, <1>3, <1>4, <1>5, <1>6, <1>7, <1>8, <1>9, <1>10
     DEF Next, UserStep, LoopStep

----------------------------------------------------------------------------
\* Every step keeps the life of every connection in order.

\* A step that does not touch what Life of c is about.
LEMMA LifeKept ==
    ASSUME NEW c \in Socks, Life(c), Same(tasks, tasks', c), conn'[c] = conn[c],
           connection' = c <=> connection = c, held' = c <=> held = c
    PROVE  Life(c)'
BY DEF Life, Referenced, Same

\* No socket has become a connection yet: nothing mentions one.
LEMMA NoConnection ==
    ASSUME TypeOK, SocketInv, LifeInv, connector.state # "kConnected"
    PROVE  /\ connection = None
           /\ \A c \in Socks : /\ conn[c] = "none" /\ held # c
                               /\ Refs(tasks, c) = 0 /\ Deletes(tasks, c) = 0
                               /\ Closes(tasks, c) = 0
<1>1. \A c \in Socks : conn[c] = "none" /\ Life(c)
  BY DEF SocketInv, LifeInv
<1>2. Counts(tasks)
  BY CountsAre DEF TypeOK
<1>3. ASSUME NEW c \in Socks
      PROVE  /\ connection # c /\ held # c
             /\ Refs(tasks, c) = 0 /\ Deletes(tasks, c) = 0 /\ Closes(tasks, c) = 0
  <2>1. ~Referenced(c) /\ ~(Deletes(tasks, c) > 0) /\ ~(Closes(tasks, c) > 0)
    BY <1>1 DEF Life
  <2>2. {Refs(tasks, c), Deletes(tasks, c), Closes(tasks, c)} \subseteq Nat
    BY <1>2 DEF Counts
  <2> QED BY <2>1, <2>2 DEF Referenced
<1> QED BY <1>1, <1>3 DEF TypeOK

\* The first and only connection is handed over, in socket s.
LEMMA LifeBegins ==
    ASSUME TypeOK, SocketInv, LifeInv, connector.state # "kConnected", held' = held,
           NEW s \in Socks, NEW ts \in Seq(Tasks), NewConnection(s, ts),
           \A c \in Socks : Same(tasks, ts, c)
    PROVE  LifeInv'
<1>1. \A c \in Socks : /\ conn[c] = "none" /\ held # c
                       /\ Refs(ts, c) = 0 /\ Deletes(ts, c) = 0 /\ Closes(ts, c) = 0
  BY NoConnection DEF Same
<1>2. OneMore(ts, tasks', "establish", s)
  BY Queueing DEF NewConnection, TaskKinds, RefKinds
<1>3. /\ conn'[s] = "kConnected" /\ connection' = s
      /\ \A c \in Socks : c # s => conn'[c] = "none"
  BY <1>1 DEF NewConnection, TypeOK
<1>4. Life(s)'
  <2>1. Refs(tasks', s) = 1 /\ Deletes(tasks', s) = 0 /\ Closes(tasks', s) = 0
    BY <1>1, <1>2 DEF OneMore, RefKinds
  <2> QED BY <1>3, <2>1 DEF Life, Referenced
<1>5. ASSUME NEW c \in Socks, c # s PROVE Life(c)'
  <2>1. Refs(tasks', c) = 0 /\ Deletes(tasks', c) = 0 /\ Closes(tasks', c) = 0
    BY <1>1, <1>2, <1>5 DEF OneMore, Same
  <2> QED BY <1>1, <1>3, <1>5, <2>1 DEF Life, Referenced
<1> QED BY <1>4, <1>5 DEF LifeInv

\* forceClose of a connected c.
LEMMA LifeForced ==
    ASSUME TypeOK, LifeInv, NEW c \in Socks, conn[c] = "kConnected", ForceClosed(c),
           connection' = connection, held' = held
    PROVE  LifeInv'
<1>1. OneMore(tasks, tasks', "forceClose", c)
  BY Queueing DEF ForceClosed, TaskKinds, RefKinds, TypeOK
<1>2. conn'[c] = "kDisconnecting" /\ \A d \in Socks : d # c => conn'[d] = conn[d]
  BY DEF ForceClosed, TypeOK
<1>3. Life(c) /\ connection = c
  BY DEF LifeInv, Life
<1>4. Life(c)'
  <2>1. Deletes(tasks, c) = 0
    BY <1>3 DEF Life, Referenced
  <2>2. Deletes(tasks', c) = 0 /\ Closes(tasks', c) > 0
    BY <1>1, <2>1 DEF OneMore, Counts, RefKinds
  <2> QED BY <1>2, <1>3, <2>2 DEF Life, Referenced
<1>5. ASSUME NEW d \in Socks, d # c PROVE Life(d)'
  <2>1. Same(tasks, tasks', d)
    BY <1>1, <1>5 DEF OneMore
  <2> QED BY <1>2, <1>5, <2>1, LifeKept DEF LifeInv
<1> QED BY <1>4, <1>5 DEF LifeInv

\* removeConnection of c, in whatever way it is reached.
LEMMA LifeRemoved ==
    ASSUME TypeOK, SocketInv, LifeInv, NEW c \in Socks, NEW ts \in Seq(Tasks),
           RemoveConnection(c, ts), held' = held,
           conn[c] # "none", conn'[c] = "kDisconnecting",
           \A d \in Socks : d # c => conn'[d] = conn[d] /\ Same(tasks, ts, d),
           Deletes(ts, c) = 0
    PROVE  LifeInv'
<1> DEFINE us == IF wanted THEN Append(ts, <<"start", None>>) ELSE ts
<1>1. us \in Seq(Tasks) /\ \A d \in Socks : Same(ts, us, d)
  <2>1. /\ Append(ts, <<"start", None>>) \in Seq(Tasks)
        /\ OneMore(ts, Append(ts, <<"start", None>>), "start", None)
    BY Queueing DEF TaskKinds
  <2>2. \A d \in Socks : d # None
    BY DEF Socks, None
  <2>3. \A d \in Socks : Same(ts, Append(ts, <<"start", None>>), d)
    BY <2>1, <2>2 DEF OneMore
  <2> QED BY <2>1, <2>3 DEF Same
<1>2. /\ tasks' = Unreferenced(c, us) /\ connection' = None /\ c # None
      /\ \A d \in Socks : d # None
  BY DEF RemoveConnection, ConnectionReset, Socks, None
<1> HIDE DEF us
<1>3. IF held = c \/ Refs(us, c) > 0 THEN tasks' = us ELSE OneMore(us, tasks', "delete", c)
  BY <1>1, <1>2, Unreferencing
<1>4. Deletes(us, c) = 0 /\ Counts(us)
  BY <1>1, CountsAre DEF Same
<1>5. Life(c)'
  <2>1. CASE held = c \/ Refs(us, c) > 0
    BY <1>2, <1>3, <1>4, <2>1 DEF Life, Referenced
  <2>2. CASE ~(held = c \/ Refs(us, c) > 0)
    <3>1. /\ Refs(tasks', c) = Refs(us, c) /\ Deletes(tasks', c) = 1
          /\ Refs(us, c) \in Nat
      BY <1>3, <1>4, <2>2 DEF OneMore, Counts, RefKinds
    <3>2. ~Referenced(c)'
      BY <1>2, <2>2, <3>1 DEF Referenced
    <3> QED BY <1>2, <3>1, <3>2 DEF Life
  <2> QED BY <2>1, <2>2
<1>6. ASSUME NEW d \in Socks, d # c PROVE Life(d)'
  <2>1. conn[d] = "none" /\ Life(d)
    BY <1>6 DEF SocketInv, LifeInv
  <2>2. connection # d
    BY <2>1 DEF Life, Referenced
  <2>3. Same(us, tasks', d)
    BY <1>3, <1>6 DEF OneMore, Same
  <2>4. Same(tasks, tasks', d)
    BY <1>1, <1>6, <2>3 DEF Same
  <2> QED BY <1>2, <1>6, <2>1, <2>2, <2>4, LifeKept
<1> QED BY <1>5, <1>6 DEF LifeInv

\* A closure on c has run and lets go of it.
LEMMA LifeReleased ==
    ASSUME TypeOK, LifeInv, NEW c \in Socks, RunReference(c), held' = held
    PROVE  LifeInv'
<1>1. PICK kind \in {"establish", "send"} : Runs(kind, c)
  BY DEF RunReference
<1>2. /\ OneMore(Tail(tasks), tasks, kind, c) /\ Tail(tasks) \in Seq(Tasks)
      /\ kind \in RefKinds /\ kind \notin {"delete", "forceClose"}
  <2>1. kind \in TaskKinds /\ kind \in RefKinds /\ kind \notin {"delete", "forceClose"}
    BY <1>1 DEF TaskKinds, RefKinds
  <2> QED BY <1>1, <2>1, Running DEF Runs, TypeOK
<1>3. /\ tasks' = Unreferenced(c, Tail(tasks))
      /\ conn' = conn /\ connection' = connection
  BY DEF RunReference
<1> DEFINE ts == Tail(tasks)
<1> HIDE DEF ts
<1>4. /\ IF connection = c \/ held = c \/ Refs(ts, c) > 0
         THEN tasks' = ts ELSE OneMore(ts, tasks', "delete", c)
      /\ OneMore(ts, tasks, kind, c)
  BY <1>2, <1>3, Unreferencing DEF ts
<1>5. /\ Refs(tasks, c) > 0 /\ Deletes(ts, c) = Deletes(tasks, c)
      /\ Closes(ts, c) = Closes(tasks, c)
  BY <1>2, <1>4 DEF OneMore, Counts
<1>6. /\ Life(c) /\ Deletes(ts, c) = 0
      /\ conn[c] \in {"kConnected", "kDisconnecting"}
  BY <1>5 DEF LifeInv, Life, Referenced
<1>7. Life(c)'
  <2>1. CASE connection = c \/ held = c \/ Refs(ts, c) > 0
    BY <1>3, <1>4, <1>5, <1>6, <2>1 DEF Life, Referenced
  <2>2. CASE ~(connection = c \/ held = c \/ Refs(ts, c) > 0)
    <3>1. /\ Refs(tasks', c) = Refs(ts, c) /\ Deletes(tasks', c) = 1
          /\ Closes(tasks', c) = Closes(ts, c)
      BY <1>4, <1>6, <2>2 DEF OneMore, RefKinds
    <3>2. ~Referenced(c)'
      BY <1>3, <2>2, <3>1 DEF Referenced
    <3>3. conn[c] = "kDisconnecting"
      BY <1>6, <2>2 DEF Life
    <3> QED BY <1>3, <2>2, <3>1, <3>2, <3>3 DEF Life
  <2> QED BY <2>1, <2>2
<1>8. ASSUME NEW d \in Socks, d # c PROVE Life(d)'
  <2>1. Same(ts, tasks, d) /\ Same(ts, tasks', d)
    BY <1>4, <1>8 DEF OneMore, Same
  <2>2. Same(tasks, tasks', d)
    BY <2>1 DEF Same
  <2> QED BY <1>3, <2>2, LifeKept DEF LifeInv
<1> QED BY <1>7, <1>8 DEF LifeInv

\* The delete of c runs.
LEMMA LifeEnds ==
    ASSUME TypeOK, LifeInv, NEW c \in Socks, Delete(c), held' = held
    PROVE  LifeInv'
<1>1. OneMore(tasks', tasks, "delete", c)
  BY Running DEF Delete, Runs, TypeOK, TaskKinds
<1>2. /\ conn'[c] = "deleted" /\ connection' = connection
      /\ \A d \in Socks : d # c => conn'[d] = conn[d]
  BY DEF Delete, TypeOK
<1>3. /\ Deletes(tasks, c) = Deletes(tasks', c) + 1 /\ Deletes(tasks', c) \in Nat
      /\ Refs(tasks', c) = Refs(tasks, c) /\ Closes(tasks', c) = Closes(tasks, c)
      /\ Closes(tasks', c) \in Nat
  BY <1>1 DEF OneMore, Counts, RefKinds
<1>4. Life(c) /\ ~Referenced(c) /\ Deletes(tasks, c) = 1
  BY <1>3 DEF LifeInv, Life
<1>5. Life(c)'
  <2>1. ~Referenced(c)'
    BY <1>2, <1>3, <1>4 DEF Referenced
  <2>2. Deletes(tasks', c) = 0
    BY <1>3, <1>4
  <2> QED BY <1>2, <2>1, <2>2 DEF Life
<1>6. ASSUME NEW d \in Socks, d # c PROVE Life(d)'
  <2>1. Same(tasks, tasks', d)
    BY <1>1, <1>6 DEF OneMore, Same
  <2> QED BY <1>2, <1>6, <2>1, LifeKept DEF LifeInv
<1> QED BY <1>5, <1>6 DEF LifeInv

LEMMA LifeStep ==
    ASSUME TypeOK, SocketInv, LifeInv, Next
    PROVE  LifeInv'
<1>0. /\ connector \in ConnectorType /\ tasks \in Seq(Tasks)
      /\ \A c \in Socks : c # None /\ Life(c) /\ Same(tasks, tasks, c)
  BY DEF TypeOK, LifeInv, Socks, None, Same
\* Nothing that concerns a connection changes.
<1>a. ASSUME UNCHANGED <<conn, connection, held>>, \A c \in Socks : Same(tasks, tasks', c)
      PROVE  LifeInv'
  BY <1>0, <1>a, LifeKept DEF LifeInv
<1>1. CASE UserConnect \/ UserStart \/ ConnectingEvent
  <2>1. UNCHANGED <<conn, connection, held, tasks>>
    BY <1>1 DEF UserConnect, UserStart, ConnectingEvent, thread
  <2> QED BY <1>0, <1>a, <2>1
<1>2. CASE UserQueue
  <2>1. OneMore(tasks, tasks', "start", None)
    BY <1>0, <1>2, Queueing DEF UserQueue, TaskKinds
  <2>2. \A c \in Socks : Same(tasks, tasks', c)
    BY <1>0, <2>1 DEF OneMore
  <2> QED BY <1>2, <1>a, <2>2 DEF UserQueue
<1>3. CASE UserSend
  <2>1. held' = connection /\ held = None /\ UNCHANGED <<conn, connection, tasks>>
    BY <1>3 DEF UserSend, TypeOK
  <2>2. ASSUME NEW c \in Socks PROVE Life(c)'
    BY <1>0, <2>1 DEF Life, Referenced
  <2> QED BY <2>2 DEF LifeInv
<1>4. CASE UserSendQueue
  <2>1. /\ held \in Socks /\ held' = None /\ UNCHANGED <<conn, connection>>
        /\ tasks' = Append(tasks, <<"send", held>>)
    BY <1>4 DEF UserSendQueue, TypeOK
  <2>2. OneMore(tasks, tasks', "send", held)
    BY <1>0, <2>1, Queueing DEF TaskKinds, RefKinds
  <2>3. ASSUME NEW c \in Socks, c # held PROVE Life(c)'
    <3>1. Same(tasks, tasks', c)
      BY <2>2, <2>3 DEF OneMore
    <3> QED BY <1>0, <2>1, <2>3, <3>1, LifeKept
  <2>4. ASSUME NEW c \in Socks, c = held PROVE Life(c)'
    <3>1. /\ Refs(tasks', c) = Refs(tasks, c) + 1 /\ Refs(tasks, c) \in Nat
          /\ Deletes(tasks', c) = Deletes(tasks, c)
          /\ Closes(tasks', c) = Closes(tasks, c)
      BY <2>2, <2>4 DEF OneMore, Counts, RefKinds
    <3>2. Referenced(c) /\ Refs(tasks', c) > 0
      BY <2>4, <3>1 DEF Referenced
    <3> QED BY <1>0, <2>1, <3>1, <3>2 DEF Life, Referenced
  <2> QED BY <2>3, <2>4 DEF LifeInv
<1>5. ASSUME NEW t \in Triggers, StartInLoop(t[1], t[2]), UNCHANGED thread PROVE LifeInv'
  <2> DEFINE k == t[1]
             ts == t[2]
  <2>1. Triggered(k, ts)
    BY TriggerFacts
  <2> HIDE DEF k, ts
  <2>2. /\ ts \in Seq(Tasks) /\ \A c \in Socks : Same(tasks, ts, c)
        /\ k.state = connector.state
    BY <2>1 DEF Triggered, Same
  <2>3. held' = held /\ StartInLoop(k, ts)
    BY <1>5 DEF thread, k, ts
  <2>4. CASE tasks' = ts /\ UNCHANGED <<conn, connection>>
    BY <1>a, <2>2, <2>3, <2>4
  <2>5. CASE k.state = "kDisconnected" /\ ConnectsAtOnce(k, ts) /\ attempts < MaxAttempts
             /\ attempts' = attempts + 1
    <3>1. attempts' \in Socks
      BY <2>5, NewSocket DEF TypeOK
    <3>2. NewConnection(attempts', ts) /\ connector.state # "kConnected"
      BY <2>2, <2>5 DEF ConnectsAtOnce
    <3> QED BY <2>2, <2>3, <3>1, <3>2, LifeBegins
  <2> QED
    BY <2>3, <2>4, <2>5
       DEF StartInLoop, StartIgnored, ConnectGivesUp, ConnectInProgress, ConnectRefused
<1>6. ASSUME CallbackIgnored \/ AttemptFails \/ AttemptSucceeds, UNCHANGED thread
      PROVE  LifeInv'
  <2>0. held' = held
    BY <1>6 DEF thread
  <2>1. CASE CallbackIgnored
    BY <1>0, <1>a, <2>0, <2>1 DEF CallbackIgnored
  <2>2. ASSUME Connecting
        PROVE  /\ ChannelReleased \in Seq(Tasks)
               /\ \A c \in Socks : Same(tasks, ChannelReleased, c)
               /\ connector.channel \in Socks /\ connector.state # "kConnected"
    <3>1. connector.channel \in Socks
      BY <2>2 DEF TypeOK, ConnectorType, Connecting
    <3>2. /\ ChannelReleased \in Seq(Tasks)
          /\ OneMore(tasks, ChannelReleased, "freeChannel", connector.channel)
      BY <1>0, <3>1, Queueing DEF ChannelReleased, TaskKinds
    <3> QED BY <2>2, <3>1, <3>2 DEF OneMore, Same, Connecting, RefKinds
  <2>3. CASE AttemptFails
    <3>1. tasks' = ChannelReleased /\ Connecting /\ UNCHANGED <<conn, connection>>
      BY <2>3 DEF AttemptFails
    <3> QED BY <1>a, <2>0, <2>2, <3>1
  <2>4. CASE AttemptSucceeds
    <3>1. CASE StillWanted
      <4>1. Connecting /\ NewConnection(connector.channel, ChannelReleased)
        BY <2>4, <3>1 DEF AttemptSucceeds
      <4> QED BY <2>0, <2>2, <4>1, LifeBegins
    <3>2. CASE ~StillWanted
      <4>1. Connecting /\ tasks' = ChannelReleased /\ UNCHANGED <<conn, connection>>
        BY <2>4, <3>2 DEF AttemptSucceeds
      <4> QED BY <1>a, <2>0, <2>2, <4>1
    <3> QED BY <3>1, <3>2
  <2> QED BY <1>6, <2>1, <2>3, <2>4
<1>7. CASE Disconnect
  <2>0. connection' = connection /\ held' = held
    BY <1>7 DEF Disconnect, thread
  <2>1. CASE connection # None /\ conn[connection] = "kConnected"
    <3>1. connection \in Socks /\ ForceClosed(connection)
      BY <1>7, <2>1 DEF Disconnect, TypeOK
    <3> QED BY <2>0, <2>1, <3>1, LifeForced
  <2>2. CASE ~(connection # None /\ conn[connection] = "kConnected")
    BY <1>0, <1>7, <1>a, <2>0, <2>2 DEF Disconnect
  <2> QED BY <2>1, <2>2
<1>8. ASSUME NEW c \in Socks, ConnectionLost(c) PROVE LifeInv'
  <2>1. /\ conn[c] = "kConnected" /\ conn' = [conn EXCEPT ![c] = "kDisconnecting"]
        /\ RemoveConnection(c, tasks) /\ held' = held
    BY <1>8 DEF ConnectionLost, Established, thread
  <2>2. conn'[c] = "kDisconnecting" /\ \A d \in Socks : d # c => conn'[d] = conn[d]
    BY <2>1 DEF TypeOK
  <2>3. Deletes(tasks, c) = 0
    BY <1>0, <2>1 DEF Life, Referenced
  <2> QED BY <1>0, <2>1, <2>2, <2>3, LifeRemoved
<1>9. ASSUME NEW c \in Socks, GarbageReceived(c) PROVE LifeInv'
  BY <1>9, LifeForced DEF GarbageReceived, Established, thread
<1>10. ASSUME NEW c \in Socks, ForceClose(c), UNCHANGED thread PROVE LifeInv'
  <2>1. /\ tasks # <<>> /\ Head(tasks) = <<"forceClose", c>>
        /\ RemoveConnection(c, Tail(tasks)) /\ conn' = conn /\ held' = held
    BY <1>10 DEF ForceClose, Runs, thread
  <2>2. /\ OneMore(Tail(tasks), tasks, "forceClose", c) /\ Tail(tasks) \in Seq(Tasks)
    BY <1>0, <2>1, Running DEF TaskKinds, RefKinds
  <2> DEFINE ts == Tail(tasks)
  <2> HIDE DEF ts
  <2>3. OneMore(ts, tasks, "forceClose", c)
    BY <2>2 DEF ts
  <2>4. /\ Refs(tasks, c) > 0 /\ Closes(tasks, c) > 0 /\ Deletes(ts, c) = Deletes(tasks, c)
    BY <2>3 DEF OneMore, Counts, RefKinds
  <2>5. conn[c] = "kDisconnecting" /\ Deletes(ts, c) = 0
    BY <1>0, <2>4 DEF Life, Referenced
  <2>6. \A d \in Socks : d # c => Same(tasks, ts, d)
    BY <2>3 DEF OneMore, Same
  <2> QED BY <2>1, <2>2, <2>5, <2>6, LifeRemoved DEF ts
<1>11. ASSUME NEW c \in Socks, RunReference(c), UNCHANGED thread PROVE LifeInv'
  BY <1>11, LifeReleased DEF thread
<1>12. ASSUME NEW c \in Socks, FreeChannel(c), UNCHANGED thread PROVE LifeInv'
  <2>1. OneMore(tasks', tasks, "freeChannel", c)
    BY <1>0, <1>12, Running DEF FreeChannel, Runs, TaskKinds
  <2>2. \A d \in Socks : Same(tasks, tasks', d)
    BY <2>1 DEF OneMore, Same, RefKinds
  <2> QED BY <1>12, <1>a, <2>2 DEF FreeChannel, thread
<1>13. ASSUME NEW c \in Socks, Delete(c), UNCHANGED thread PROVE LifeInv'
  BY <1>13, LifeEnds DEF thread
<1> QED
  BY <1>1, <1>2, <1>3, <1>4, <1>5, <1>6, <1>7, <1>8, <1>9, <1>10, <1>11, <1>12, <1>13
     DEF Next, UserStep, LoopStep

----------------------------------------------------------------------------
\* Every step keeps the Channel of the event alive.
LEMMA EventStep ==
    ASSUME TypeOK, EventInv, Next
    PROVE  EventInv'
<1>0. /\ connector \in ConnectorType /\ tasks \in Seq(Tasks)
      /\ connector.channel \in Socks \cup {None} /\ current \in Socks \cup {None}
      /\ callbacks \in Seq({"handleError", "handleWrite"})
  BY DEF TypeOK, ConnectorType
\* No event is being handled.
<1>a. ASSUME LoopIdle, UNCHANGED event PROVE EventInv'
  BY <1>a DEF LoopIdle, event, EventInv
\* A user thread queues a task meanwhile.
<1>b. ASSUME NEW kind \in TaskKinds, NEW s \in Socks \cup {None},
             tasks' = Append(tasks, <<kind, s>>), UNCHANGED <<event, connector>>
      PROVE  EventInv'
  <2>1. OneMore(tasks, tasks', kind, s)
    BY <1>0, <1>b, Queueing
  <2>2. ASSUME NEW c \in Socks, Frees(tasks, c) > 0 PROVE Frees(tasks', c) > 0
    <3>1. Frees(tasks, c) \in Nat
          /\ (Frees(tasks', c) = Frees(tasks, c) \/ Frees(tasks', c) = Frees(tasks, c) + 1)
      BY <2>1 DEF OneMore, Counts
    <3> QED BY <2>2, <3>1
  <2>3. current' = current /\ callbacks' = callbacks /\ connector' = connector
    BY <1>b DEF event
  <2> QED BY <1>0, <2>2, <2>3 DEF EventInv
<1>1. CASE UserConnect \/ UserSend
  BY <1>1 DEF UserConnect, UserSend, event, EventInv
<1>2. CASE UserStart
  <2>1. connector'.channel = connector.channel
    BY <1>0, <1>2, FlaggedIs DEF UserStart
  <2> QED BY <1>2, <2>1 DEF UserStart, event, EventInv
<1>3. CASE UserQueue
  BY <1>3, <1>b DEF UserQueue, TaskKinds
<1>4. CASE UserSendQueue
  BY <1>4, <1>b DEF UserSendQueue, TaskKinds, RefKinds, TypeOK
<1>5. CASE ConnectingEvent
  <2>1. /\ current' = connector.channel /\ connector' = connector /\ connector.channel # None
        /\ callbacks' # <<>>
    BY <1>5 DEF ConnectingEvent
  <2> QED BY <2>1 DEF EventInv
<1>6. CASE CallbackIgnored \/ AttemptFails \/ AttemptSucceeds
  <2>1. PICK name : Callback(name)
    BY <1>6 DEF CallbackIgnored, AttemptFails, AttemptSucceeds
  <2>2. /\ callbacks # <<>> /\ callbacks' = Tail(callbacks)
        /\ current' = IF Tail(callbacks) = <<>> THEN None ELSE current
    BY <2>1 DEF Callback
  <2>3. current # None /\ (current' = None <=> callbacks' = <<>>)
        /\ (current' # None => current' = current)
    BY <2>2 DEF EventInv
  <2>4. CASE CallbackIgnored
    BY <2>3, <2>4 DEF CallbackIgnored, EventInv
  <2>5. CASE AttemptFails \/ AttemptSucceeds
    <3>1. connector.channel \in Socks
      BY <1>0, <2>5 DEF TypeOK, AttemptFails, AttemptSucceeds, Connecting
    <3>2. /\ ChannelReleased \in Seq(Tasks)
          /\ OneMore(tasks, ChannelReleased, "freeChannel", connector.channel)
      BY <1>0, <3>1, Queueing DEF ChannelReleased, TaskKinds
    <3>3. \/ tasks' = ChannelReleased
          \/ OneMore(ChannelReleased, tasks', "establish", connector.channel)
      <4>1. \/ tasks' = ChannelReleased
            \/ tasks' = Append(ChannelReleased, <<"establish", connector.channel>>)
        BY <2>5 DEF AttemptFails, AttemptSucceeds, NewConnection
      <4>2. "establish" \in TaskKinds
        BY DEF TaskKinds, RefKinds
      <4> QED BY <3>1, <3>2, <4>1, <4>2, Queueing
    <3>4. ASSUME NEW c \in Socks, c = connector.channel \/ Frees(tasks, c) > 0
          PROVE  Frees(tasks', c) > 0
      <4>1. /\ Frees(tasks, c) \in Nat
            /\ Frees(ChannelReleased, c) =
                  IF c = connector.channel THEN Frees(tasks, c) + 1 ELSE Frees(tasks, c)
        BY <3>1, <3>2 DEF OneMore, Counts
      <4>2. Frees(tasks', c) = Frees(ChannelReleased, c)
        BY <3>1, <3>3 DEF OneMore
      <4> QED BY <3>4, <4>1, <4>2
    <3> QED BY <1>0, <2>3, <3>1, <3>4 DEF EventInv
  <2> QED BY <1>6, <2>4, <2>5
<1>7. ASSUME NEW t \in Triggers, StartInLoop(t[1], t[2]) PROVE EventInv'
  BY <1>7, <1>a DEF StartInLoop
<1>8. CASE Disconnect
  BY <1>8, <1>a DEF Disconnect
<1>9. ASSUME NEW c \in Socks, ConnectionLost(c) \/ GarbageReceived(c) PROVE EventInv'
  BY <1>9, <1>a DEF ConnectionLost, GarbageReceived, RemoveConnection
<1>10. ASSUME NEW c \in Socks, ForceClose(c) \/ RunReference(c) \/ FreeChannel(c) \/ Delete(c)
       PROVE  EventInv'
  BY <1>10, <1>a DEF ForceClose, RemoveConnection, RunReference, FreeChannel, Delete, Runs
<1> QED
  BY <1>1, <1>2, <1>3, <1>4, <1>5, <1>6, <1>7, <1>8, <1>9, <1>10 DEF Next, UserStep, LoopStep

----------------------------------------------------------------------------
\* Every step conserves the calls of start().

\* The number of retry timers, queued starts and so on are numbers.
LEMMA WorkTypes ==
    ASSUME TypeOK
    PROVE  /\ connector \in ConnectorType /\ connector.timers \in SUBSET Socks
           /\ Cardinality(connector.timers) \in Nat /\ Starts(tasks) \in Nat
           /\ tasks \in Seq(Tasks) /\ starts \in Nat
BY SocksFinite, CountsAre DEF TypeOK, ConnectorType, Counts

\* A step that leaves alone what RetryInv is about.
LEMMA RetryKept ==
    ASSUME RetryInv, starts' = starts, Starts(tasks') = Starts(tasks),
           user' = "flagged" <=> user = "flagged",
           connector'.timers = connector.timers, connector'.channel = connector.channel,
           connector'.connect = connector.connect, connector'.state = connector.state,
           connector'.gaveUp = connector.gaveUp
    PROVE  RetryInv'
BY DEF RetryInv

\* startInLoop uses up a queued start or a timer, for an attempt or a timer.
LEMMA RetryStart ==
    ASSUME TypeOK, RetryInv, NEW k, NEW ts, Triggered(k, ts), StartInLoop(k, ts), user' = user
    PROVE  RetryInv'
<1> DEFINE m == Cardinality(k.timers)
           n == Starts(ts)
           flag == IF user = "flagged" THEN 1 ELSE 0
<1>1. /\ k \in ConnectorType /\ k.timers \in SUBSET Socks /\ k.connect = connector.connect
      /\ k.state = connector.state /\ k.channel = connector.channel
      /\ ts \in Seq(Tasks) /\ starts' = starts /\ starts \in Nat
  BY WorkTypes DEF Triggered, ConnectorType, StartInLoop
<1>2. /\ m \in Nat /\ n \in Nat
      /\ m + n + 1 = Cardinality(connector.timers) + Starts(tasks)
  BY <1>1, SocksFinite DEF Triggered, Counts
<1>3. flag \in Nat /\ flag = IF user' = "flagged" THEN 1 ELSE 0
  OBVIOUS
<1>4. /\ Cardinality(connector.timers) \in Nat /\ Starts(tasks) \in Nat
      /\ Cardinality(connector.timers) + Starts(tasks)
            + (IF connector.channel = None THEN 0 ELSE 1) + flag <= starts
  BY WorkTypes DEF RetryInv
<1> HIDE DEF flag
<1>5. CASE StartIgnored(k, ts) /\ ~(k.connect /\ k.state = "kDisconnected")
  <2>1. connector' = k /\ tasks' = ts
    BY <1>5 DEF StartIgnored
  <2>2. m + n + (IF k.channel = None THEN 0 ELSE 1) + flag <= starts
    BY <1>1, <1>2, <1>3, <1>4
  <2> QED BY <1>1, <1>3, <1>5, <2>1, <2>2 DEF RetryInv
<1>6. CASE /\ k.connect /\ k.state = "kDisconnected"
           /\ attempts < MaxAttempts
           /\ attempts' = attempts + 1
           /\ \/ ConnectGivesUp(k, ts)
              \/ ConnectsAtOnce(k, ts)
              \/ ConnectInProgress(k, ts)
              \/ ConnectRefused(k, ts)
  <2>1. attempts' \in Socks /\ connector.channel = None
    BY <1>1, <1>6, NewSocket DEF TypeOK
  <2>2. m + n + 1 + flag <= starts
    BY <1>2, <1>3, <1>4, <2>1
  <2>3. CASE ConnectGivesUp(k, ts)
    <3>1. /\ connector'.timers = k.timers /\ connector'.channel = None /\ connector'.gaveUp
          /\ tasks' = ts
      BY <1>1, <2>1, <2>3, ConnectorIs DEF ConnectGivesUp
    <3>2. m + n + 0 + flag <= starts
      BY <1>1, <1>2, <1>3, <2>2
    <3> QED BY <1>1, <1>3, <3>1, <3>2 DEF RetryInv
  <2>4. CASE ConnectsAtOnce(k, ts)
    <3>1. /\ connector'.timers = k.timers /\ connector'.channel = None
          /\ connector'.state = "kConnected"
          /\ tasks' = Append(ts, <<"establish", attempts'>>)
      BY <1>1, <2>4, ConnectorIs DEF ConnectsAtOnce, NewConnection
    <3>2. OneMore(ts, tasks', "establish", attempts')
      BY <1>1, <2>1, <3>1, Queueing DEF TaskKinds, RefKinds
    <3>3. Starts(tasks') = n
      BY <3>2 DEF OneMore
    <3>4. m + n + 0 + flag <= starts
      BY <1>1, <1>2, <1>3, <2>2
    <3> QED BY <1>1, <1>3, <3>1, <3>3, <3>4 DEF RetryInv
  <2>5. CASE ConnectInProgress(k, ts)
    <3>0. attempts' # None
      BY <2>1 DEF Socks, None
    <3>1. /\ connector'.timers = k.timers /\ connector'.channel = attempts'
          /\ connector'.state = "kConnecting" /\ tasks' = ts
      BY <1>1, <2>1, <2>5, ConnectorIs DEF ConnectInProgress
    <3> QED BY <1>1, <1>3, <2>2, <3>0, <3>1 DEF RetryInv
  <2>6. CASE ConnectRefused(k, ts)
    <3>1. /\ connector'.timers = k.timers \cup {attempts'} /\ connector'.channel = None
          /\ tasks' = ts
      BY <1>1, <1>6, <2>1, <2>6, RetriedIs DEF ConnectRefused
    <3>2. /\ Cardinality(connector'.timers) <= m + 1 /\ Cardinality(connector'.timers) \in Nat
          /\ connector'.timers # {}
      BY <1>1, <2>1, <3>1, SocksFinite
    <3>3. Cardinality(connector'.timers) + n + 0 + flag <= starts
      BY <1>1, <1>2, <1>3, <2>2, <3>2
    <3> QED BY <1>1, <1>3, <3>1, <3>2, <3>3 DEF RetryInv
  <2> QED BY <1>6, <2>3, <2>4, <2>5, <2>6
<1> QED BY <1>5, <1>6 DEF StartInLoop

\* An attempt that fails leaves at most a timer, one that succeeds nothing.
LEMMA RetryCallback ==
    ASSUME TypeOK, RetryInv, AttemptFails \/ AttemptSucceeds, user' = user
    PROVE  RetryInv'
<1> DEFINE m == Cardinality(connector.timers)
           n == Starts(tasks)
           flag == IF user = "flagged" THEN 1 ELSE 0
<1>1. /\ connector \in ConnectorType /\ connector.timers \in SUBSET Socks
      /\ m \in Nat /\ n \in Nat /\ tasks \in Seq(Tasks)
      /\ starts' = starts /\ starts \in Nat /\ flag \in Nat
      /\ connector.channel \in Socks /\ connector.channel # None
  BY WorkTypes DEF AttemptFails, AttemptSucceeds, Callback, Connecting, TypeOK, ConnectorType
<1>2. flag = IF user' = "flagged" THEN 1 ELSE 0
  OBVIOUS
<1>3. m + n + 1 + flag <= starts
  BY <1>1 DEF RetryInv
<1>4. /\ ChannelReleased \in Seq(Tasks) /\ Starts(ChannelReleased) = n
      /\ Starts(Append(ChannelReleased, <<"establish", connector.channel>>)) = n
  <2>1. /\ ChannelReleased \in Seq(Tasks)
        /\ OneMore(tasks, ChannelReleased, "freeChannel", connector.channel)
    BY <1>1, Queueing DEF ChannelReleased, TaskKinds
  <2>2. OneMore(ChannelReleased, Append(ChannelReleased, <<"establish", connector.channel>>),
                "establish", connector.channel)
    BY <1>1, <2>1, Queueing DEF TaskKinds, RefKinds
  <2> QED BY <2>1, <2>2 DEF OneMore
<1>5. Starts(tasks') = n
  <2>1. \/ tasks' = ChannelReleased
        \/ tasks' = Append(ChannelReleased, <<"establish", connector.channel>>)
    BY DEF AttemptFails, AttemptSucceeds, NewConnection
  <2> QED BY <1>4, <2>1
<1> HIDE DEF flag, m, n
<1>6. CASE AttemptFails
  <2>1. /\ connector'.channel = None /\ connector'.connect = connector.connect
        /\ connector'.timers = IF connector.connect
                               THEN connector.timers \cup {connector.channel}
                               ELSE connector.timers
    BY <1>1, <1>6, RetriedIs DEF AttemptFails
  <2>2. /\ Cardinality(connector'.timers) \in Nat /\ Cardinality(connector'.timers) <= m + 1
        /\ connector'.connect => connector'.timers # {}
    <3>1. CASE connector.connect
      <4>1. connector'.timers = connector.timers \cup {connector.channel}
        BY <2>1, <3>1
      <4>2. /\ Cardinality(connector.timers \cup {connector.channel}) \in Nat
            /\ Cardinality(connector.timers \cup {connector.channel})
                  <= Cardinality(connector.timers) + 1
        BY <1>1, SocksFinite
      <4> QED BY <4>1, <4>2 DEF m
    <3>2. CASE ~connector.connect
      <4>1. connector'.timers = connector.timers /\ ~connector'.connect
        BY <2>1, <3>2
      <4> QED BY <1>1, <4>1 DEF m
    <3> QED BY <3>1, <3>2
  <2>3. Cardinality(connector'.timers) + n + 0 + flag <= starts
    BY <1>1, <1>3, <2>2
  <2> QED BY <1>1, <1>2, <1>5, <2>1, <2>2, <2>3 DEF RetryInv
<1>7. CASE AttemptSucceeds
  <2>1. /\ connector'.channel = None /\ connector'.state = "kConnected"
        /\ connector'.timers = connector.timers
    BY <1>1, <1>7, SucceededIs
  <2>2. m + n + 0 + flag <= starts
    BY <1>1, <1>3
  <2> QED BY <1>1, <1>2, <1>5, <2>1, <2>2 DEF RetryInv, m
<1> QED BY <1>6, <1>7

\* removeConnection calls start() and queues it at once.
LEMMA RetryRemoved ==
    ASSUME TypeOK, RetryInv, NEW c \in Socks, NEW ts \in Seq(Tasks), RemoveConnection(c, ts),
           Starts(ts) = Starts(tasks), user' = user
    PROVE  RetryInv'
<1> DEFINE us == IF wanted THEN Append(ts, <<"start", None>>) ELSE ts
<1>1. us \in Seq(Tasks) /\ Starts(us) = IF wanted THEN Starts(tasks) + 1 ELSE Starts(tasks)
  <2>1. /\ Append(ts, <<"start", None>>) \in Seq(Tasks)
        /\ OneMore(ts, Append(ts, <<"start", None>>), "start", None)
    BY Queueing DEF TaskKinds
  <2> QED BY <2>1 DEF OneMore
<1>2. Starts(tasks') = Starts(us)
  <2>1. tasks' = Unreferenced(c, us)
    BY DEF RemoveConnection
  <2> HIDE DEF us
  <2>2. tasks' = us \/ OneMore(us, tasks', "delete", c)
    BY <1>1, <2>1, Unreferencing
  <2> QED BY <2>2 DEF OneMore
<1> HIDE DEF us
<1>3. /\ connector' = IF wanted THEN Flagged ELSE connector
      /\ starts' = IF wanted THEN starts + 1 ELSE starts
  BY DEF RemoveConnection
<1>4. /\ Cardinality(connector.timers) \in Nat /\ Starts(tasks) \in Nat /\ starts \in Nat
      /\ connector \in ConnectorType
  BY WorkTypes
<1>5. CASE wanted
  <2>1. connector'.timers = connector.timers /\ connector'.channel = connector.channel
    BY <1>3, <1>4, <1>5, FlaggedIs
  <2>2. Starts(tasks') = Starts(tasks) + 1 /\ starts' = starts + 1
    BY <1>1, <1>2, <1>3, <1>5
  <2>3. Starts(tasks') > 0
    BY <1>4, <2>2
  <2>4. Cardinality(connector'.timers) + Starts(tasks')
            + (IF connector'.channel = None THEN 0 ELSE 1)
            + (IF user' = "flagged" THEN 1 ELSE 0) <= starts'
    BY <1>4, <2>1, <2>2 DEF RetryInv
  <2> QED BY <2>3, <2>4 DEF RetryInv
<1>6. CASE ~wanted
  BY <1>1, <1>2, <1>3, <1>6, RetryKept
<1> QED BY <1>5, <1>6

LEMMA RetryStep ==
    ASSUME TypeOK, RetryInv, Next
    PROVE  RetryInv'
<1>0. /\ connector \in ConnectorType /\ connector.timers \in SUBSET Socks
      /\ Cardinality(connector.timers) \in Nat /\ Starts(tasks) \in Nat
      /\ tasks \in Seq(Tasks) /\ starts \in Nat
  BY WorkTypes
<1>1. CASE UserConnect
  BY <1>1, RetryKept DEF UserConnect
<1>2. CASE UserStart
  <2>1. /\ connector' = Flagged /\ starts' = starts + 1 /\ tasks' = tasks
        /\ user # "flagged" /\ user' = "flagged"
    BY <1>2 DEF UserStart
  <2>2. connector'.timers = connector.timers /\ connector'.channel = connector.channel
    BY <1>0, <2>1, FlaggedIs
  <2>3. /\ Cardinality(connector'.timers) + Starts(tasks')
              + (IF connector'.channel = None THEN 0 ELSE 1) + 1 <= starts'
    BY <1>0, <2>1, <2>2 DEF RetryInv
  <2> QED BY <2>1, <2>3 DEF RetryInv
<1>3. CASE UserQueue
  <2>1. /\ connector' = connector /\ starts' = starts
        /\ tasks' = Append(tasks, <<"start", None>>)
        /\ user = "flagged" /\ user' # "flagged"
    BY <1>3 DEF UserQueue
  <2>2. Starts(tasks') = Starts(tasks) + 1
    <3>1. OneMore(tasks, tasks', "start", None)
      BY <1>0, <2>1, Queueing DEF TaskKinds
    <3> QED BY <3>1 DEF OneMore
  <2>3. Starts(tasks') > 0
    BY <1>0, <2>2
  <2>4. Cardinality(connector.timers) + Starts(tasks')
              + (IF connector.channel = None THEN 0 ELSE 1) + 0 <= starts
    BY <1>0, <2>1, <2>2 DEF RetryInv
  <2> QED BY <2>1, <2>3, <2>4 DEF RetryInv
<1>4. CASE UserSend
  BY <1>4, RetryKept DEF UserSend
<1>5. CASE UserSendQueue
  <2>1. held \in Socks
    BY <1>5 DEF UserSendQueue, TypeOK
  <2>2. OneMore(tasks, tasks', "send", held)
    BY <1>0, <1>5, <2>1, Queueing DEF UserSendQueue, TaskKinds, RefKinds
  <2>3. Starts(tasks') = Starts(tasks)
    BY <2>2 DEF OneMore
  <2> QED BY <1>5, <2>3, RetryKept DEF UserSendQueue
<1>6. CASE ConnectingEvent
  BY <1>6, RetryKept DEF ConnectingEvent, thread
<1>7. ASSUME NEW t \in Triggers, StartInLoop(t[1], t[2]), UNCHANGED thread PROVE RetryInv'
  BY <1>7, TriggerFacts, RetryStart DEF thread
<1>8. ASSUME CallbackIgnored \/ AttemptFails \/ AttemptSucceeds, UNCHANGED thread
      PROVE  RetryInv'
  <2>1. CASE CallbackIgnored
    BY <1>8, <2>1, RetryKept DEF CallbackIgnored, Callback, thread
  <2> QED BY <1>8, <2>1, RetryCallback DEF thread
<1>9. CASE Disconnect
  <2>1. /\ ~connector'.connect /\ connector'.channel = connector.channel
        /\ connector'.timers = connector.timers \ {connector.retryTimer}
        /\ starts' = starts /\ user' = user
    BY <1>0, <1>9 DEF Disconnect, ConnectorType, thread
  <2>2. Starts(tasks') = Starts(tasks)
    <3>1. CASE connection # None /\ conn[connection] = "kConnected"
      <4>1. connection \in Socks /\ tasks' = Append(tasks, <<"forceClose", connection>>)
        BY <1>9, <3>1 DEF Disconnect, ForceClosed, TypeOK
      <4>2. OneMore(tasks, tasks', "forceClose", connection)
        BY <1>0, <4>1, Queueing DEF TaskKinds, RefKinds
      <4> QED BY <4>2 DEF OneMore
    <3>2. CASE ~(connection # None /\ conn[connection] = "kConnected")
      BY <1>9, <3>2 DEF Disconnect
    <3> QED BY <3>1, <3>2
  <2>3. /\ Cardinality(connector'.timers) \in Nat
        /\ Cardinality(connector'.timers) <= Cardinality(connector.timers)
    BY <1>0, <2>1, SocksFinite
  <2>4. Cardinality(connector'.timers) + Starts(tasks')
            + (IF connector'.channel = None THEN 0 ELSE 1)
            + (IF user' = "flagged" THEN 1 ELSE 0) <= starts'
    BY <1>0, <2>1, <2>2, <2>3 DEF RetryInv
  <2> QED BY <2>1, <2>4 DEF RetryInv
<1>10. ASSUME NEW c \in Socks, ConnectionLost(c) PROVE RetryInv'
  BY <1>0, <1>10, RetryRemoved DEF ConnectionLost, thread
<1>11. ASSUME NEW c \in Socks, GarbageReceived(c) PROVE RetryInv'
  <2>1. OneMore(tasks, tasks', "forceClose", c)
    BY <1>0, <1>11, Queueing DEF GarbageReceived, ForceClosed, TaskKinds, RefKinds
  <2>2. Starts(tasks') = Starts(tasks)
    BY <2>1 DEF OneMore
  <2> QED BY <1>11, <2>2, RetryKept DEF GarbageReceived, thread
<1>12. ASSUME NEW c \in Socks, ForceClose(c), UNCHANGED thread PROVE RetryInv'
  <2>1. OneMore(Tail(tasks), tasks, "forceClose", c) /\ Tail(tasks) \in Seq(Tasks)
    BY <1>0, <1>12, Running DEF ForceClose, Runs, TaskKinds, RefKinds
  <2>2. Starts(Tail(tasks)) = Starts(tasks)
    BY <2>1 DEF OneMore
  <2> QED BY <1>12, <2>1, <2>2, RetryRemoved DEF ForceClose, thread
<1>13. ASSUME NEW c \in Socks, RunReference(c), UNCHANGED thread PROVE RetryInv'
  <2>1. PICK kind \in {"establish", "send"} : Runs(kind, c)
    BY <1>13 DEF RunReference
  <2>2. OneMore(Tail(tasks), tasks, kind, c) /\ Tail(tasks) \in Seq(Tasks)
    BY <1>0, <2>1, Running DEF Runs, TaskKinds, RefKinds
  <2>3. Starts(tasks) = Starts(Tail(tasks))
    BY <2>1, <2>2 DEF OneMore
  <2>4. tasks' = Tail(tasks) \/ OneMore(Tail(tasks), tasks', "delete", c)
    BY <1>13, <2>2, Unreferencing DEF RunReference
  <2>5. Starts(tasks') = Starts(tasks)
    BY <2>3, <2>4 DEF OneMore
  <2> QED BY <1>13, <2>5, RetryKept DEF RunReference, thread
<1>14. ASSUME NEW c \in Socks, FreeChannel(c) \/ Delete(c), UNCHANGED thread PROVE RetryInv'
  <2>1. OneMore(tasks', tasks, "freeChannel", c) \/ OneMore(tasks', tasks, "delete", c)
    <3>1. CASE FreeChannel(c)
      <4>1. /\ tasks # <<>> /\ Head(tasks) = <<"freeChannel", c>>
            /\ tasks' = Tail(tasks) /\ "freeChannel" \in TaskKinds
        BY <3>1 DEF FreeChannel, Runs, TaskKinds
      <4> QED BY <1>0, <4>1, Running
    <3>2. CASE Delete(c)
      <4>1. /\ tasks # <<>> /\ Head(tasks) = <<"delete", c>>
            /\ tasks' = Tail(tasks) /\ "delete" \in TaskKinds
        BY <3>2 DEF Delete, Runs, TaskKinds
      <4> QED BY <1>0, <4>1, Running
    <3> QED BY <1>14, <3>1, <3>2
  <2>2. Starts(tasks') = Starts(tasks)
    BY <2>1 DEF OneMore
  <2> QED BY <1>14, <2>2, RetryKept DEF FreeChannel, Delete, thread
<1> QED
  BY <1>1, <1>2, <1>3, <1>4, <1>5, <1>6, <1>7, <1>8, <1>9, <1>10, <1>11, <1>12, <1>13, <1>14
     DEF Next, UserStep, LoopStep

----------------------------------------------------------------------------
\* The theorems

\* Nothing is there at the start.
LEMMA ClientStarts == Init => ClientInv
<1> SUFFICES ASSUME Init PROVE ClientInv
  OBVIOUS
<1>1. TypeOK
  <2>1. <<>> \in Seq(Tasks) /\ <<>> \in Seq({"handleError", "handleWrite"})
    BY EmptySeq
  <2>2. connector \in ConnectorType /\ connector.channel = None /\ connector.state # "kConnecting"
    BY DEF Init, ConnectorType
  <2>3. calls \in [connect : 0..MaxConnects, send : 0..MaxSends] /\ attempts \in 0..MaxAttempts
    BY BoundsAssumption DEF Init
  <2> QED BY <2>1, <2>2, <2>3 DEF Init, TypeOK
<1>2. \A c \in Socks : c # None
  BY DEF Socks, None
<1>3. Counts(tasks) /\ \A T : Count(tasks, T) = 0
  <2>1. tasks = <<>> /\ tasks \in Seq(Tasks) /\ DOMAIN tasks = {}
    BY EmptySeq DEF Init
  <2> QED BY <2>1, CountsAre, CountType
<1>4. SocketInv
  BY <1>1, <1>2 DEF Init, SocketInv, SocketsOwned, None
<1>5. LifeInv
  BY <1>2, <1>3 DEF Init, LifeInv, Life, Referenced, Refs, Deletes, Closes
<1>6. EventInv
  BY DEF Init, EventInv
<1>7. RetryInv
  <2>1. Cardinality({}) = 0
    BY FS_EmptySet
  <2> QED BY <1>3, <2>1 DEF Init, RetryInv, Starts
<1> QED BY <1>1, <1>4, <1>5, <1>6, <1>7 DEF ClientInv

\* The inductive invariant holds in every reachable state.
THEOREM ClientInvariant == Spec => []ClientInv
<1>1. ClientInv /\ [Next]_vars => ClientInv'
  <2> SUFFICES ASSUME ClientInv, [Next]_vars PROVE ClientInv'
    OBVIOUS
  <2>1. CASE Next
    BY <2>1, TypeStep, SocketStep, LifeStep, EventStep, RetryStep DEF ClientInv
  <2>2. CASE UNCHANGED vars
    <3>1. TypeOK'
      BY <2>2, TypeStep DEF ClientInv
    <3>2. UNCHANGED <<connector, wanted, connection, conn, tasks, callbacks, current, open,
                      attempts, user, held, calls, starts>>
      BY <2>2 DEF vars, event, sockets, thread
    <3>3. SocketInv' /\ EventInv' /\ RetryInv'
      BY <3>2 DEF ClientInv, SocketInv, SocketsOwned, EventInv, RetryInv
    <3>4. LifeInv'
      BY <3>2 DEF ClientInv, LifeInv, Life, Referenced
    <3> QED BY <3>1, <3>3, <3>4 DEF ClientInv
  <2> QED BY <2>1, <2>2
<1> QED BY <1>1, ClientStarts, PTL DEF Spec

\* The types, with a connecting Channel exactly while the Connector is connecting
\* (Connector::connecting, resetChannel).
THEOREM TypeCorrect == Spec => []TypeOK
<1>1. ClientInv => TypeOK
  BY DEF ClientInv
<1> QED BY <1>1, ClientInvariant, PTL

\* However attempts fail, succeed late or are stopped, each open socket belongs to
\* the attempt in progress or to the connection made of it.
THEOREM EverySocketOwned == Spec => []SocketsOwned
<1>1. ClientInv => SocketsOwned
  BY DEF ClientInv, SocketInv
<1> QED BY <1>1, ClientInvariant, PTL

\* What is queued by kind is what the invariant counts.
LEMMA QueuedAre ==
    ASSUME TypeOK
    PROVE  /\ Cardinality(Queued("start")) = Starts(tasks)
           /\ Starts(tasks) > 0 => Queued("start") # {}
           /\ \A c \in Socks :
                 /\ Cardinality({i \in Queued("delete") : tasks[i][2] = c}) = Deletes(tasks, c)
                 /\ (\E i \in Queued("delete") : tasks[i][2] = c) => Deletes(tasks, c) > 0
                 /\ Closes(tasks, c) > 0 => \E i \in Queued("forceClose") : tasks[i][2] = c
                 /\ Frees(tasks, c) > 0 => \E i \in Queued("freeChannel") : tasks[i][2] = c
                 /\ (\E i \in DOMAIN tasks : tasks[i][1] \in RefKinds /\ tasks[i][2] = c)
                       => Refs(tasks, c) > 0
<1>1. /\ tasks \in Seq(Tasks) /\ Counts(tasks)
      /\ \A i \in DOMAIN tasks : tasks[i] \in TaskKinds \X (Socks \cup {None})
  BY CountsAre DEF TypeOK, Tasks
<1>2. \A T : /\ Count(tasks, T) \in Nat
             /\ Count(tasks, T) > 0 <=> \E i \in DOMAIN tasks : tasks[i] \in T
  BY <1>1, CountType
<1>3. /\ Queued("start") = {i \in DOMAIN tasks : tasks[i] \in {"start"} \X (Socks \cup {None})}
      /\ Starts(tasks) > 0 => Queued("start") # {}
  <2>1. Queued("start") = {i \in DOMAIN tasks : tasks[i] \in {"start"} \X (Socks \cup {None})}
    BY <1>1 DEF Queued
  <2> QED BY <1>2, <2>1 DEF Starts
<1>4. ASSUME NEW c \in Socks
      PROVE  /\ {i \in Queued("delete") : tasks[i][2] = c} =
                   {i \in DOMAIN tasks : tasks[i] \in {<<"delete", c>>}}
             /\ (\E i \in Queued("delete") : tasks[i][2] = c) => Deletes(tasks, c) > 0
             /\ Closes(tasks, c) > 0 => \E i \in Queued("forceClose") : tasks[i][2] = c
             /\ Frees(tasks, c) > 0 => \E i \in Queued("freeChannel") : tasks[i][2] = c
             /\ (\E i \in DOMAIN tasks : tasks[i][1] \in RefKinds /\ tasks[i][2] = c)
                   => Refs(tasks, c) > 0
  <2>1. {i \in Queued("delete") : tasks[i][2] = c} =
           {i \in DOMAIN tasks : tasks[i] \in {<<"delete", c>>}}
    BY <1>1 DEF Queued
  <2>2. (\E i \in Queued("delete") : tasks[i][2] = c) => Deletes(tasks, c) > 0
    BY <1>2, <2>1 DEF Deletes
  <2>3. Closes(tasks, c) > 0 => \E i \in Queued("forceClose") : tasks[i][2] = c
    BY <1>2 DEF Closes, Queued
  <2>4. Frees(tasks, c) > 0 => \E i \in Queued("freeChannel") : tasks[i][2] = c
    BY <1>2 DEF Frees, Queued
  <2>5. \A i \in DOMAIN tasks :
           tasks[i][1] \in RefKinds /\ tasks[i][2] = c => tasks[i] \in RefKinds \X {c}
    BY <1>1
  <2> QED BY <1>2, <2>1, <2>2, <2>3, <2>4, <2>5 DEF Refs
<1> QED BY <1>3, <1>4 DEF Starts, Deletes, Count

\* A connection is deleted once, when it is closing and nothing refers to it: the
\* custom deleter of TcpClient::newConnection.
THEOREM DeletedWhenUnreferenced == Spec => []DeletedUnreferenced
<1>1. ClientInv => DeletedUnreferenced
  <2> SUFFICES ASSUME ClientInv, NEW c \in Socks,
                      conn[c] = "deleted" \/ \E i \in Queued("delete") : tasks[i][2] = c
               PROVE  /\ conn[c] \in {"kDisconnecting", "deleted"}
                      /\ connection # c /\ held # c
                      /\ \A i \in DOMAIN tasks : tasks[i][1] \in RefKinds => tasks[i][2] # c
                      /\ Cardinality({i \in Queued("delete") : tasks[i][2] = c})
                           = IF conn[c] = "deleted" THEN 0 ELSE 1
    BY DEF DeletedUnreferenced
  <2>1. Life(c) /\ TypeOK /\ Deletes(tasks, c) \in Nat
    BY CountsAre DEF ClientInv, LifeInv, TypeOK, Counts
  <2>2. conn[c] = "deleted" \/ Deletes(tasks, c) > 0
    BY <2>1, QueuedAre
  <2>3. /\ conn[c] \in {"kDisconnecting", "deleted"} /\ ~Referenced(c)
        /\ Deletes(tasks, c) = IF conn[c] = "deleted" THEN 0 ELSE 1
    BY <2>1, <2>2 DEF Life
  <2> QED BY <2>1, <2>3, QueuedAre DEF Referenced
<1> QED BY <1>1, ClientInvariant, PTL

\* resetChannel leaves the Channel alive while its handleEvent runs.
THEOREM ChannelSurvivesEvent == Spec => []ChannelOutlivesEvent
<1>1. ClientInv => ChannelOutlivesEvent
  BY QueuedAre DEF ClientInv, EventInv, ChannelOutlivesEvent, TypeOK
<1> QED BY <1>1, ClientInvariant, PTL

\* Retries do not multiply, however many events report one failure.
THEOREM RetriesAreConserved == Spec => []RetriesConserved
<1>1. ClientInv => RetriesConserved
  <2> SUFFICES ASSUME ClientInv PROVE RetriesConserved
    OBVIOUS
  <2>1. Cardinality(connector.timers) \in Nat /\ Starts(tasks) \in Nat /\ starts \in Nat
        /\ Cardinality(Queued("start")) = Starts(tasks)
    BY WorkTypes, QueuedAre DEF ClientInv
  <2> QED BY <2>1 DEF ClientInv, RetryInv, RetriesConserved
<1> QED BY <1>1, ClientInvariant, PTL

\* In every interleaving of connect(), disconnect(), retries and lost connections
\* a Connector that is not stopped has a connection, an attempt, or something that
\* starts one; it waits for nothing only after a fatal error, after its connection
\* was lost, and after a late success was closed (Connector::startInLoop ignores
\* every start in state kConnected).
THEOREM TryingGoesOn == Spec => []KeepsTrying
<1>1. ClientInv => KeepsTrying
  <2> SUFFICES ASSUME ClientInv, connector.connect, connection = None
               PROVE  \/ connector.state = "kConnecting"
                      \/ /\ connector.state = "kDisconnected"
                         /\ \/ connector.timers # {}
                            \/ Queued("start") # {}
                            \/ user = "flagged"
                            \/ connector.gaveUp
                      \/ Spent
    BY DEF KeepsTrying
  <2>1. /\ TypeOK
        /\ connector.state \in {"kDisconnected", "kConnecting", "kConnected"}
    BY DEF ClientInv, TypeOK, ConnectorType
  <2>2. CASE connector.state = "kConnected" /\ ~connector.dropped
    <3>1. PICK s \in Socks : conn[s] # "none"
      BY <2>2 DEF ClientInv, SocketInv
    <3>2. conn[s] # "kConnected"
      BY DEF ClientInv, LifeInv, Life, Socks, None
    <3> QED BY <2>1, <2>2, <3>1, <3>2 DEF TypeOK, Spent
  <2>3. CASE connector.state = "kConnected" /\ connector.dropped
    BY <2>3 DEF Spent
  <2>4. CASE connector.state = "kDisconnected"
    BY <2>1, <2>4, QueuedAre DEF ClientInv, RetryInv
  <2> QED BY <2>1, <2>2, <2>3, <2>4
<1> QED BY <1>1, ClientInvariant, PTL

\* connection_ is usable, or its close callback is about to reset it.
THEOREM ConnectionStaysUsable == Spec => []ConnectionUsable
<1>1. ClientInv => ConnectionUsable
  <2> SUFFICES ASSUME ClientInv, connection # None, conn[connection] # "kConnected"
               PROVE  \E i \in Queued("forceClose") : tasks[i][2] = connection
    BY DEF ConnectionUsable
  <2>1. connection \in Socks /\ TypeOK
    BY DEF ClientInv, TypeOK
  <2>2. Life(connection) /\ Referenced(connection)
    BY <2>1 DEF ClientInv, LifeInv, Referenced
  <2>3. Closes(tasks, connection) > 0
    BY <2>2 DEF Life
  <2> QED BY <2>1, <2>3, QueuedAre
<1> QED BY <1>1, ClientInvariant, PTL

\* Once stopped, the Connector hands over no connection.
THEOREM StopsForGood == Spec => StoppedStaysStopped
<1> DEFINE A == connection' # connection /\ connection' # None => connector.connect
<1>1. ClientInv /\ [Next]_vars => [A]_vars
  <2> SUFFICES ASSUME ClientInv, Next PROVE A
    OBVIOUS
  <2>1. ASSUME NEW t \in Triggers, StartInLoop(t[1], t[2]) PROVE A
    <3>1. t[1].connect = connector.connect
      BY TriggerFacts DEF ClientInv, Triggered
    <3> QED BY <2>1, <3>1
         DEF StartInLoop, StartIgnored, ConnectGivesUp, ConnectInProgress, ConnectRefused
  <2>2. CASE AttemptSucceeds
    BY <2>2 DEF AttemptSucceeds, StillWanted
  <2>3. CASE CallbackIgnored \/ AttemptFails
    BY <2>3 DEF CallbackIgnored, AttemptFails
  <2>4. ASSUME NEW c \in Socks, ForceClose(c) \/ RunReference(c) \/ FreeChannel(c) \/ Delete(c)
        PROVE  A
    BY <2>4 DEF ForceClose, RemoveConnection, ConnectionReset, RunReference, FreeChannel, Delete
  <2>5. CASE UserStep
    BY <2>5 DEF UserStep, UserConnect, UserStart, UserQueue, UserSend, UserSendQueue
  <2>6. CASE ConnectingEvent \/ Disconnect
    BY <2>6 DEF ConnectingEvent, Disconnect
  <2>7. ASSUME NEW c \in Socks, ConnectionLost(c) \/ GarbageReceived(c) PROVE A
    BY <2>7 DEF ConnectionLost, RemoveConnection, ConnectionReset, GarbageReceived
  <2> HIDE DEF A
  <2> QED BY <2>1, <2>2, <2>3, <2>4, <2>5, <2>6, <2>7 DEF Next, LoopStep
<1> HIDE DEF A
<1>2. Spec => [][A]_vars
  BY <1>1, ClientInvariant, PTL DEF Spec
<1> QED BY <1>2 DEF A, StoppedStaysStopped
============================================================================

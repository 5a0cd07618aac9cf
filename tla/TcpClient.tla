----------------------------- MODULE TcpClient -----------------------------
(***************************************************************************)
(* MyRPC::TcpClient and the Connector it owns: opening a connection with   *)
(* retries, handing the socket to a TcpConnection, losing it, reconnecting *)
(* and disconnecting.  Everything runs in the client's one event loop,     *)
(* except connect() and send(), which the headers declare thread-safe and  *)
(* which run in a user thread here.                                        *)
(***************************************************************************)
EXTENDS Integers, Sequences, FiniteSets

CONSTANTS
    MaxConnects,          \* bound: calls of connect()
    MaxAttempts,          \* bound: sockets the Connector opens
    MaxSends              \* bound: calls of send()

ASSUME BoundsAssumption == {MaxConnects, MaxAttempts, MaxSends} \subseteq Nat

Socks == 1..MaxAttempts   \* a socket is known by the attempt that opened it
None == 0                 \* no socket, no connection, no timer

\* What queueInLoop receives: Connector::startInLoop, the closure that frees a
\* connecting Channel, and the closures on the connection made of a socket; the
\* kinds in RefKinds hold a reference to it, "delete" is its custom deleter.
RefKinds == {"establish", "forceClose", "send"}
TaskKinds == RefKinds \cup {"start", "freeChannel", "delete"}
Tasks == TaskKinds \X (Socks \cup {None})

VARIABLES
    connector,    \* the Connector's members, see ConnectorType
    wanted,       \* connect_ of the TcpClient: keep the connection up
    connection,   \* connection_, named by its socket, or None
    conn,         \* the TcpConnection made of a socket: its state_, or "none"
    tasks,        \* the pending tasks of the loop
    callbacks,    \* the Channel callbacks left to run for the current event
    current,      \* the socket of the Channel whose event is being handled
    open,         \* the open sockets
    attempts,     \* the sockets asked for so far
    user,         \* where the user thread is in connect() or send()
    held,         \* the connection send() copied from connection_, or None
    calls,        \* the connect() and send() calls made so far (bounds)
    starts        \* history: calls of Connector::start()

sockets == <<open, attempts>>
event == <<callbacks, current>>
thread == <<user, held, calls>>
vars == <<connector, wanted, connection, conn, tasks, event, sockets, thread, starts>>

(***************************************************************************)
(* connect: connect_, whether a connection is wanted.  channel: the socket *)
(* of channel_.  retryTimer: the timer retryTimer_ points to, named by the *)
(* attempt that armed it; timers: the retry timers that may still fire.    *)
(* gaveUp: history, the last attempt failed fatally and start() was not    *)
(* called since.  dropped: history, an attempt succeeded after a stop and   *)
(* its socket was closed.  The length of the delay is not modelled: a      *)
(* timer fires at any time.                                                *)
(***************************************************************************)
ConnectorType ==
    [connect : BOOLEAN, state : {"kDisconnected", "kConnecting", "kConnected"},
     channel : Socks \cup {None}, retryTimer : Socks \cup {None},
     timers : SUBSET Socks, gaveUp : BOOLEAN, dropped : BOOLEAN]

\* Types; the connecting Channel exists exactly in state kConnecting.
TypeOK ==
    /\ connector \in ConnectorType
    /\ connector.channel # None <=> connector.state = "kConnecting"
    /\ wanted \in BOOLEAN
    /\ connection \in Socks \cup {None}
    /\ conn \in [Socks -> {"none", "kConnected", "kDisconnecting", "deleted"}]
    /\ tasks \in Seq(Tasks)
    /\ callbacks \in Seq({"handleError", "handleWrite"})
    /\ current \in Socks \cup {None}
    /\ open \in SUBSET Socks
    /\ attempts \in 0..MaxAttempts
    /\ user \in {"idle", "wanted", "flagged", "sending"}
    /\ held \in Socks \cup {None}
    /\ held # None <=> user = "sending"
    /\ calls \in [connect : 0..MaxConnects, send : 0..MaxSends]
    /\ starts \in Nat

Init ==
    /\ connector = [connect |-> FALSE, state |-> "kDisconnected", channel |-> None,
                    retryTimer |-> None, timers |-> {}, gaveUp |-> FALSE,
                    dropped |-> FALSE]
    /\ wanted = FALSE
    /\ connection = None
    /\ conn = [s \in Socks |-> "none"]
    /\ tasks = <<>>
    /\ callbacks = <<>> /\ current = None
    /\ open = {} /\ attempts = 0
    /\ user = "idle" /\ held = None
    /\ calls = [connect |-> 0, send |-> 0]
    /\ starts = 0

----------------------------------------------------------------------------
\* The user thread

\* connect(): the client's connect_ is set, then Connector::start() sets its
\* own connect_ and queues startInLoop.
UserConnect ==
    /\ user = "idle"
    /\ calls.connect < MaxConnects
    /\ calls' = [calls EXCEPT !.connect = @ + 1]
    /\ wanted' = TRUE
    /\ user' = "wanted"
    /\ UNCHANGED <<connector, connection, conn, tasks, event, sockets, held, starts>>

\* connect_ = true in start()
Flagged == [connector EXCEPT !.connect = TRUE, !.gaveUp = FALSE]

UserStart ==
    /\ user = "wanted"
    /\ connector' = Flagged
    /\ starts' = starts + 1
    /\ user' = "flagged"
    /\ UNCHANGED <<wanted, connection, conn, tasks, event, sockets, held, calls>>

UserQueue ==
    /\ user = "flagged"
    /\ tasks' = Append(tasks, <<"start", None>>)
    /\ user' = "idle"
    /\ UNCHANGED <<connector, wanted, connection, conn, event, sockets, held, calls,
                   starts>>

\* send() copies connection_ under the lock; without one the message is
\* dropped with a warning.
UserSend ==
    /\ user = "idle"
    /\ calls.send < MaxSends
    /\ calls' = [calls EXCEPT !.send = @ + 1]
    /\ held' = connection
    /\ user' = IF connection = None THEN "idle" ELSE "sending"
    /\ UNCHANGED <<connector, wanted, connection, conn, tasks, event, sockets, starts>>

\* Then it queues the message in the loop of that connection, lost or not.
UserSendQueue ==
    /\ user = "sending"
    /\ tasks' = Append(tasks, <<"send", held>>)
    /\ held' = None
    /\ user' = "idle"
    /\ UNCHANGED <<connector, wanted, connection, conn, event, sockets, calls, starts>>

----------------------------------------------------------------------------
\* Connector: startInLoop and connect(), run by a queued task or a retry timer

LoopIdle == callbacks = <<>>

\* What calls startInLoop: the connector and the queue it leaves behind.
Triggers ==
    (IF tasks # <<>> /\ Head(tasks) = <<"start", None>>
       THEN {<<connector, Tail(tasks)>>} ELSE {})
    \cup {<<[connector EXCEPT !.timers = @ \ {t}], tasks>> : t \in connector.timers}

\* startInLoop returns without an attempt.
StartIgnored(k, ts) ==
    /\ connector' = k
    /\ tasks' = ts
    /\ UNCHANGED <<connection, conn, sockets>>

\* connect(): no socket, or a fatal error: the socket is closed and connecting
\* given up.
ConnectGivesUp(k, ts) ==
    /\ connector' = [k EXCEPT !.gaveUp = TRUE]
    /\ tasks' = ts
    /\ UNCHANGED <<connection, conn, open>>

\* TcpClient::newConnection takes socket s over; ts is the task queue so far.
NewConnection(s, ts) ==
    /\ conn' = [conn EXCEPT ![s] = "kConnected"]
    /\ connection' = s
    /\ tasks' = Append(ts, <<"establish", s>>)

Connected(k) == [k EXCEPT !.state = "kConnected", !.channel = None]
Dropped(k) == [k EXCEPT !.state = "kConnected", !.channel = None, !.dropped = TRUE]

\* The connection is there at once.
ConnectsAtOnce(k, ts) ==
    /\ connector' = Connected(k)
    /\ open' = open \cup {attempts'}
    /\ NewConnection(attempts', ts)

\* EINPROGRESS: a Channel waits for the outcome.
ConnectInProgress(k, ts) ==
    /\ connector' = [k EXCEPT !.state = "kConnecting", !.channel = attempts']
    /\ open' = open \cup {attempts'}
    /\ tasks' = ts
    /\ UNCHANGED <<connection, conn>>

\* Mutant: no timer is armed while retryTimer_ is set, but it is never reset.
RetriedUnlessArmed(k, s) ==
    LET down == [k EXCEPT !.state = "kDisconnected", !.channel = None]
    IN  IF ~k.connect \/ k.retryTimer # None THEN down
        ELSE [down EXCEPT !.retryTimer = s, !.timers = @ \cup {s}]

\* Connector::retry after the attempt on socket s failed; the caller closes it.
Retried(k, s) ==
    LET down == [k EXCEPT !.state = "kDisconnected", !.channel = None]
    IN  IF ~k.connect THEN down
        ELSE [down EXCEPT !.retryTimer = s, !.timers = @ \cup {s}]

\* A recoverable error of connect() itself.
ConnectRefused(k, ts) ==
    /\ connector' = Retried(k, attempts')
    /\ tasks' = ts
    /\ UNCHANGED <<connection, conn, open>>

StartInLoop(k, ts) ==
    /\ LoopIdle
    /\ UNCHANGED <<wanted, event, starts>>
    /\ \/ ~k.connect /\ StartIgnored(k, ts)
       \/ k.connect /\ k.state = "kConnecting" /\ StartIgnored(k, ts)
       \/ k.connect /\ k.state = "kConnected" /\ ~k.dropped /\ StartIgnored(k, ts)
       \/ k.connect /\ k.state = "kConnected" /\ k.dropped /\ StartIgnored(k, ts)
       \/ /\ k.connect /\ k.state = "kDisconnected"
          /\ attempts < MaxAttempts
          /\ attempts' = attempts + 1
          /\ \/ ConnectGivesUp(k, ts)
             \/ ConnectsAtOnce(k, ts)
             \/ ConnectInProgress(k, ts)
             \/ ConnectRefused(k, ts)

----------------------------------------------------------------------------
\* Connector: the outcome of a connection in progress

\* epoll reports the connecting socket; handleEvent runs the close callback
\* for EPOLLHUP without EPOLLIN and again for EPOLLERR, then the write callback.
ConnectingEvent ==
    /\ LoopIdle
    /\ connector.channel # None
    /\ current' = connector.channel
    /\ callbacks' \in {<<"handleWrite">>, <<"handleError", "handleWrite">>,
                       <<"handleError", "handleError", "handleWrite">>}
    /\ UNCHANGED <<connector, wanted, connection, conn, tasks, sockets, thread, starts>>

Callback(name) ==
    /\ callbacks # <<>>
    /\ Head(callbacks) = name
    /\ callbacks' = Tail(callbacks)
    /\ current' = IF Tail(callbacks) = <<>> THEN None ELSE current
    /\ UNCHANGED <<wanted, attempts, starts>>

\* Mutant: handleError and handleWrite do not look at state_.
ConnectingUnchecked == TRUE

\* Both handlers ignore an event that comes in another state.
Connecting == connector.state = "kConnecting"

CallbackIgnored ==
    /\ ~Connecting
    /\ \E name \in {"handleError", "handleWrite"} : Callback(name)
    /\ UNCHANGED <<connector, connection, conn, tasks, open>>

\* Mutant: resetChannel destroys the Channel at once.
ChannelDestroyed == tasks

\* resetChannel: the Channel lives on in a queued closure, because its
\* handleEvent is still running.
ChannelReleased == Append(tasks, <<"freeChannel", connector.channel>>)

\* handleError, or handleWrite when SO_ERROR is set or the socket is connected
\* to itself.
AttemptFails ==
    /\ Connecting
    /\ \E name \in {"handleError", "handleWrite"} : Callback(name)
    /\ connector' = Retried(connector, connector.channel)
    /\ open' = open \ {connector.channel}
    /\ tasks' = ChannelReleased
    /\ UNCHANGED <<connection, conn>>

\* Mutant: an unwanted success drops the socket without closing it.
UnwantedLeft == open

\* An unwanted success closes the socket.
UnwantedClosed == open \ {connector.channel}

\* Mutant: a success is handed over although the Connector was stopped.
StillWantedUnchecked == TRUE

StillWanted == connector.connect

\* handleWrite finds the socket connected: it is handed over if still wanted,
\* else closed; either way state_ becomes kConnected.
AttemptSucceeds ==
    /\ Connecting
    /\ Callback("handleWrite")
    /\ \/ /\ StillWanted
          /\ connector' = Connected(connector)
          /\ NewConnection(connector.channel, ChannelReleased)
          /\ UNCHANGED open
       \/ /\ ~StillWanted
          /\ connector' = Dropped(connector)
          /\ tasks' = ChannelReleased
          /\ open' = UnwantedClosed
          /\ UNCHANGED <<connection, conn>>

----------------------------------------------------------------------------
\* TcpClient and its TcpConnection, in the loop

\* Mutant: forceClose changes the state but queues nothing.
ForceCloseForgotten(c) ==
    /\ conn' = [conn EXCEPT ![c] = "kDisconnecting"]
    /\ UNCHANGED tasks

\* TcpConnection::forceClose of a connected c.
ForceClosed(c) ==
    /\ conn' = [conn EXCEPT ![c] = "kDisconnecting"]
    /\ tasks' = Append(tasks, <<"forceClose", c>>)

\* disconnect(): no reconnecting, no retry, and the connection is forced shut.
Disconnect ==
    /\ LoopIdle
    /\ wanted' = FALSE
    /\ connector' = [connector EXCEPT !.connect = FALSE, !.retryTimer = None,
                                      !.timers = @ \ {connector.retryTimer}]
    /\ IF connection # None /\ conn[connection] = "kConnected"
       THEN ForceClosed(connection)
       ELSE UNCHANGED <<conn, tasks>>
    /\ UNCHANGED <<connection, event, sockets, thread, starts>>

\* Mutant: the connection is deleted with the first reference that goes.
UnreferencedEarly(c, ts) == Append(ts, <<"delete", c>>)

\* A reference to connection c is gone, ts is the queue without it: with the
\* last one the custom deleter queues the delete.
Unreferenced(c, ts) ==
    IF connection' = c \/ held = c
         \/ \E i \in DOMAIN ts : ts[i][1] \in RefKinds /\ ts[i][2] = c
    THEN ts
    ELSE Append(ts, <<"delete", c>>)

\* Mutant: removeConnection leaves connection_ as it is.
ConnectionKept == connection

\* connection_.reset()
ConnectionReset == None

\* TcpClient::removeConnection, the close callback of c; restarts if wanted.
RemoveConnection(c, ts) ==
    /\ connection' = ConnectionReset
    /\ tasks' = Unreferenced(c, IF wanted THEN Append(ts, <<"start", None>>) ELSE ts)
    /\ connector' = IF wanted THEN Flagged ELSE connector
    /\ starts' = IF wanted THEN starts + 1 ELSE starts
    /\ UNCHANGED <<wanted, event, sockets>>

Established(c) ==
    conn[c] = "kConnected" /\ \A i \in DOMAIN tasks : tasks[i] # <<"establish", c>>

\* The server closes, the socket fails, or the keep-alive timer runs out.
ConnectionLost(c) ==
    /\ LoopIdle
    /\ Established(c)
    /\ conn' = [conn EXCEPT ![c] = "kDisconnecting"]
    /\ RemoveConnection(c, tasks)
    /\ UNCHANGED thread

\* The codec finds a malformed response: forceClose.
GarbageReceived(c) ==
    /\ LoopIdle
    /\ Established(c)
    /\ ForceClosed(c)
    /\ UNCHANGED <<connector, wanted, connection, event, sockets, thread, starts>>

Runs(kind, c) == LoopIdle /\ tasks # <<>> /\ Head(tasks) = <<kind, c>>

\* The queued half of forceClose.
ForceClose(c) ==
    /\ Runs("forceClose", c)
    /\ RemoveConnection(c, Tail(tasks))
    /\ UNCHANGED conn

\* connectEstablished, or the delivery of a message.
RunReference(c) ==
    /\ \E kind \in {"establish", "send"} : Runs(kind, c)
    /\ UNCHANGED <<connector, wanted, connection, conn, event, sockets, starts>>
    /\ tasks' = Unreferenced(c, Tail(tasks))

\* The end of a connecting Channel.
FreeChannel(c) ==
    /\ Runs("freeChannel", c)
    /\ tasks' = Tail(tasks)
    /\ UNCHANGED <<connector, wanted, connection, conn, event, sockets, starts>>

\* The destructor of the connection closes its socket.
Delete(c) ==
    /\ Runs("delete", c)
    /\ tasks' = Tail(tasks)
    /\ conn' = [conn EXCEPT ![c] = "deleted"]
    /\ open' = open \ {c}
    /\ UNCHANGED <<connector, wanted, connection, event, attempts, starts>>

----------------------------------------------------------------------------
LoopStep ==
    /\ \/ \E t \in Triggers : StartInLoop(t[1], t[2])
       \/ CallbackIgnored
       \/ AttemptFails
       \/ AttemptSucceeds
       \/ \E c \in Socks : ForceClose(c) \/ RunReference(c) \/ FreeChannel(c) \/ Delete(c)
    /\ UNCHANGED thread

UserStep == UserConnect \/ UserStart \/ UserQueue \/ UserSend \/ UserSendQueue

Next ==
    \/ UserStep
    \/ ConnectingEvent
    \/ LoopStep
    \/ Disconnect
    \/ \E c \in Socks : ConnectionLost(c) \/ GarbageReceived(c)

Spec == Init /\ [][Next]_vars

\* The loop runs its tasks, timers and callbacks; the kernel decides every
\* connection in progress; a user thread inside a call goes on.
Fairness ==
    /\ WF_vars(LoopStep)
    /\ WF_vars(ConnectingEvent)
    /\ WF_vars(UserStart \/ UserQueue \/ UserSendQueue)

FairSpec == Spec /\ Fairness

----------------------------------------------------------------------------
\* Properties

Queued(kind) == {i \in DOMAIN tasks : tasks[i][1] = kind}

\* Every open socket has one owner: the attempt in progress or the connection
\* it was handed to.  None leaks through retry, stop or a late success, and
\* none is closed after it was handed over.
SocketsOwned ==
    open = {s \in Socks : \/ connector.channel = s
                         \/ conn[s] \in {"kConnected", "kDisconnecting"}}

\* A connection is deleted only when it is closing and connection_, the calls of
\* send() and the queued closures have all let go of it, and only once.
DeletedUnreferenced ==
    \A c \in Socks :
        (conn[c] = "deleted" \/ \E i \in Queued("delete") : tasks[i][2] = c) =>
            /\ conn[c] \in {"kDisconnecting", "deleted"}
            /\ connection # c /\ held # c
            /\ \A i \in DOMAIN tasks : tasks[i][1] \in RefKinds => tasks[i][2] # c
            /\ Cardinality({i \in Queued("delete") : tasks[i][2] = c})
                 = IF conn[c] = "deleted" THEN 0 ELSE 1

\* The Channel whose event is being handled outlives its callbacks: channel_
\* or the queued closure of resetChannel still owns it.
ChannelOutlivesEvent ==
    current # None =>
        \/ connector.channel = current
        \/ \E i \in Queued("freeChannel") : tasks[i][2] = current

\* A failed attempt is followed by at most one retry, however many of the
\* events EPOLLHUP, EPOLLERR and EPOLLOUT report it: attempts in progress, live
\* retry timers and queued starts never outnumber the calls of start().
RetriesConserved ==
    Cardinality(connector.timers) + Cardinality(Queued("start"))
        + (IF connector.channel = None THEN 0 ELSE 1) <= starts

\* The Connector has had its success and the socket is gone: its connection was
\* lost, or disconnect() came during the handshake and the late success was
\* closed.  state_ stays kConnected, so every later start is ignored.
Spent ==
    /\ connector.state = "kConnected"
    /\ \/ connector.dropped
       \/ \E s \in Socks : conn[s] \in {"kDisconnecting", "deleted"}

\* While the Connector is not stopped, it has a connection, an attempt under way,
\* or something that will make the next: a retry timer, a queued start, or the
\* user thread about to queue one.  There are three exceptions and no fourth: an
\* attempt failed with a fatal error, the connection was lost, or a late success
\* was closed.  In the last two (Spent) connect() has no effect any more.
KeepsTrying ==
    connector.connect =>
        \/ connection # None
        \/ connector.state = "kConnecting"
        \/ /\ connector.state = "kDisconnected"
           /\ \/ connector.timers # {}
              \/ Queued("start") # {}
              \/ user = "flagged"
              \/ connector.gaveUp
        \/ Spent

\* connection_ never keeps pointing at a dead connection: either it is up, or
\* its close callback is about to reset it.
ConnectionUsable ==
    connection # None =>
        \/ conn[connection] = "kConnected"
        \/ \E i \in Queued("forceClose") : tasks[i][2] = connection

\* No connection is handed to the client once the Connector has been stopped,
\* not even by a retry timer or a handshake that was under way.
StoppedStaysStopped ==
    [][connection' # connection /\ connection' # None => connector.connect]_vars

\* A connection that starts closing is destroyed and its socket closed.
ClosingIsFreed ==
    \A c \in Socks : conn[c] = "kDisconnecting" ~> conn[c] = "deleted"

\* What TcpClient's documentation says: when the connection is lost and the
\* user has not called disconnect(), the client reconnects, or at least tries.
Reconnects ==
    \A c \in Socks :
        conn[c] \in {"kDisconnecting", "deleted"} /\ connection = None /\ wanted
            ~> connection # None \/ connector.state = "kConnecting" \/ ~wanted
============================================================================

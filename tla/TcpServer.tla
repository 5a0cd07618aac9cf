----------------------------- MODULE TcpServer -----------------------------
(***************************************************************************)
(* MyRPC::TcpServer, Acceptor and TcpConnection on the server side: the    *)
(* life of a connection across the base loop (ledger), its I/O loop        *)
(* (events, timer, destruction) and the worker threads that hold           *)
(* shared_ptrs to it while they compute a response.                        *)
(*                                                                         *)
(* Every loop is the task queue that EventLoop implements: it takes a      *)
(* batch of events, dispatches them, and runs queued tasks only when the   *)
(* batch is done.  One callback is one step: a callback touches only what  *)
(* belongs to its own loop, apart from the thread-safe queues and counts.  *)
(***************************************************************************)
EXTENDS Naturals, Sequences, FiniteSets

CONSTANTS
    Base,          \* loop_, the loop of the acceptor and of the ledger
    IoLoops,       \* the sequence of loops the thread pool may start
    MaxConns,      \* bound: clients that connect in a behaviour
    MaxRequests    \* bound: complete requests received on one connection

ASSUME LoopsAssumption ==
    /\ Len(IoLoops) \in Nat /\ DOMAIN IoLoops = 1..Len(IoLoops)
    /\ \A i \in DOMAIN IoLoops : IoLoops[i] # Base
ASSUME BoundsAssumption == MaxConns \in Nat /\ MaxRequests \in Nat

Conns == 0 .. MaxConns - 1      \* a connection is known by its connId_
Loops == {Base} \cup {IoLoops[i] : i \in DOMAIN IoLoops}
Ops == {"establish", "forceClose", "remove", "send", "delete"}
Tasks == Ops \X Conns           \* the closures passed to queueInLoop

VARIABLES
    numThreads,   \* numThreads_ of the pool, fixed before start()
    next,         \* next_, the round-robin cursor
    nextConnId,   \* nextConnId_
    listener,     \* the listening socket and the Acceptor's handler
    ledger,       \* the keys of connections_
    tasks,        \* the pending tasks of every loop
    active,       \* the events of every loop's batch not yet dispatched
    conn          \* the TcpConnection objects, by connId_

server == <<numThreads, next, nextConnId>>
vars == <<server, listener, ledger, tasks, active, conn>>

(***************************************************************************)
(* The listening socket: clients waiting in the backlog; ready: the socket *)
(* is on epoll's ready list and polls readable; handler: whether the batch *)
(* holds its event, and whether handleRead is in its loop; failed: the     *)
(* last accept() gave an error other than EAGAIN, with clients waiting.    *)
(***************************************************************************)
ListenerType ==
    [waiting : 0..MaxConns, ready : BOOLEAN,
     handler : {"none", "reported", "accepting"}, failed : BOOLEAN]

(***************************************************************************)
(* state: "none" before the object exists, state_, "deleted" after it.     *)
(* registered: in its loop's epoll.  events: the channel's events_.        *)
(* timer: a keepAliveTimer_ that is neither fired nor marked deleted.      *)
(* refs: the shared_ptr use count.  unsent: packets in writeBuffer_;       *)
(* failed: the last send() reported an error other than EAGAIN.            *)
(* working, answered: worker jobs that hold the connection, before and     *)
(* after they queued their response.  received counts requests (bound);    *)
(* closeCalls counts closeCallback_ invocations (history).                 *)
(***************************************************************************)
Unborn(l) ==
    [state |-> "none", loop |-> l, registered |-> FALSE, events |-> {},
     timer |-> FALSE, refs |-> 0, unsent |-> 0, failed |-> FALSE, working |-> 0,
     answered |-> 0, received |-> 0, closeCalls |-> 0]

ConnType ==
    [state : {"none", "kConnected", "kDisconnecting", "deleted"},
     loop : Loops, registered : BOOLEAN, events : SUBSET {"in", "out"},
     timer : BOOLEAN, refs : Nat, unsent : Nat, failed : BOOLEAN, working : Nat,
     answered : Nat, received : 0..MaxRequests, closeCalls : Nat]

\* What one epoll batch may hold for a connection.
Events == Conns \X {"in", "out", "hup"}

\* Types; connections are numbered in order, and the ledger and the loops'
\* batches only ever mention connections that have been created.
TypeOK ==
    /\ numThreads \in 0..Len(IoLoops)
    /\ next \in Nat
    /\ nextConnId \in 0..MaxConns
    /\ listener \in ListenerType
    /\ ledger \in SUBSET (0 .. nextConnId - 1)
    /\ tasks \in [Loops -> Seq(Tasks)]
    /\ active \in [Loops -> SUBSET Events]
    /\ conn \in [Conns -> ConnType]
    /\ \A c \in Conns : conn[c].state = "none" <=> c >= nextConnId

Init ==
    /\ numThreads \in 0..Len(IoLoops)
    /\ next = 0
    /\ nextConnId = 0
    /\ listener = [waiting |-> 0, ready |-> FALSE, handler |-> "none", failed |-> FALSE]
    /\ ledger = {}
    /\ tasks = [l \in Loops |-> <<>>]
    /\ active = [l \in Loops |-> {}]
    /\ conn = [c \in Conns |-> Unborn(Base)]

----------------------------------------------------------------------------
\* Shared helpers

Post(ts, l, t) == [ts EXCEPT ![l] = Append(@, t)]

\* Mutant: the delete is posted while one owner is left.
ReleaseEarly(ts, c, k) ==
    IF conn[c].refs <= k + 1 THEN Post(ts, conn[c].loop, <<"delete", c>>) ELSE ts

\* Dropping k references of c; the custom deleter of the shared_ptr posts the
\* delete to the connection's own loop when the last one goes.
Release(ts, c, k) ==
    IF conn[c].refs = k THEN Post(ts, conn[c].loop, <<"delete", c>>) ELSE ts

\* Mutant: newConnection does not set closeCallback_.
CloseCallbackUnset(ts, c) == ts

\* closeCallback_ = TcpServer::removeConnection: queued on the base loop with
\* a reference to the connection.
CloseCallback(ts, c) == Post(ts, Base, <<"remove", c>>)

\* The connection closes and hands a reference to closeCallback_.
Closed(cc) == [cc EXCEPT !.state = "kDisconnecting", !.events = {},
                         !.refs = @ + 1, !.closeCalls = @ + 1]

\* EventLoopThreadPool::getNextLoop
NextLoop == IF numThreads = 0 THEN Base ELSE IoLoops[next + 1]

----------------------------------------------------------------------------
\* epoll

\* A client's handshake completes: the listening socket becomes ready (again).
ClientConnects ==
    /\ nextConnId + listener.waiting < MaxConns
    /\ listener' = [listener EXCEPT !.waiting = @ + 1, !.ready = TRUE, !.failed = FALSE]
    /\ UNCHANGED <<server, ledger, tasks, active, conn>>

\* What epoll may report for c: the requested events, or, once disableAll has
\* cleared them, still EPOLLHUP and EPOLLERR, since the fd stays registered.
Reportable(c) ==
    IF conn[c].events = {} THEN {<<c, "hup">>} ELSE {c} \X conn[c].events

\* The listening socket is edge-triggered: a report takes it off the ready list.
ListenerReported(l) == l = Base /\ listener.ready

\* The batch of loop l is dispatched: it may run tasks or wait again.
Idle(l) == active[l] = {} /\ (l = Base => listener.handler = "none")

EpollWait(l) ==
    /\ Idle(l)
    /\ \E batch \in SUBSET UNION {Reportable(c) :
                 c \in {d \in Conns : conn[d].registered /\ conn[d].loop = l}} :
         /\ batch # {} \/ ListenerReported(l)
         /\ active' = [active EXCEPT ![l] = batch]
    /\ listener' = IF ListenerReported(l)
                   THEN [listener EXCEPT !.ready = FALSE, !.handler = "reported"]
                   ELSE listener
    /\ UNCHANGED <<server, ledger, tasks, conn>>

\* No other callback runs in the base loop's thread inside Acceptor::handleRead.
Free(l) == l = Base => listener.handler # "accepting"

----------------------------------------------------------------------------
\* Acceptor::handleRead and TcpServer::newConnection, in the base loop

\* Mutant: handleRead accepts one client per event.
AfterAcceptReturns == "none"

\* while (true)
AfterAccept == "accepting"

\* A client is accepted, and newConnection makes two references: one in the
\* ledger, one in the closure queued on the I/O loop.
NewConnection ==
    /\ listener.handler # "none" /\ listener.waiting > 0
    /\ listener' = [listener EXCEPT !.waiting = @ - 1, !.handler = AfterAccept,
                                    !.ready = @ /\ listener.waiting > 1]
    /\ next' = IF numThreads = 0 THEN next ELSE (next + 1) % numThreads
    /\ nextConnId' = nextConnId + 1
    /\ ledger' = ledger \cup {nextConnId}
    /\ conn' = [conn EXCEPT ![nextConnId] =
                  [Unborn(NextLoop) EXCEPT !.state = "kConnected", !.refs = 2]]
    /\ tasks' = Post(tasks, NextLoop, <<"establish", nextConnId>>)
    /\ UNCHANGED <<numThreads, active>>

\* accept() reports EAGAIN, or, with clients waiting, another error (no
\* descriptor left, say): handleRead returns.
AcceptEnds ==
    /\ listener.handler # "none"
    /\ listener' = [listener EXCEPT !.handler = "none", !.failed = listener.waiting > 0]
    /\ UNCHANGED <<server, ledger, tasks, active, conn>>

Accept == NewConnection \/ AcceptEnds

----------------------------------------------------------------------------
\* The events of a connection

\* The event <<c, kind>> is dispatched; handleEvent reads before it writes.
Dispatched(c, kind) ==
    /\ <<c, kind>> \in active[conn[c].loop]
    /\ Free(conn[c].loop)
    /\ kind = "out" => <<c, "in">> \notin active[conn[c].loop]
    /\ active' = [active EXCEPT ![conn[c].loop] = @ \ {<<c, kind>>}]
    /\ UNCHANGED <<server, listener, ledger>>

\* A channel with no callback for the event, or a handler that finds the
\* connection no longer kConnected, does nothing.
IgnoreEvent(c, kind) ==
    /\ Dispatched(c, kind)
    /\ kind = "hup" \/ conn[c].state # "kConnected"
    /\ UNCHANGED <<tasks, conn>>

Reads(c) == Dispatched(c, "in") /\ conn[c].state = "kConnected"

\* The codec finds n complete requests: each becomes a worker job that shares
\* the connection.
WithRequests(cc, n) == [cc EXCEPT !.received = @ + n, !.working = @ + n, !.refs = @ + n]

\* handleRead reads until EAGAIN.
ReadRequests(c, n) ==
    /\ Reads(c)
    /\ conn[c].received + n <= MaxRequests
    /\ conn' = [conn EXCEPT ![c] = [WithRequests(@, n) EXCEPT !.timer = TRUE]]
    /\ UNCHANGED tasks

\* Mutant: forceClose's closure captures this but not the guard.
ForceClosedUnguarded(cc) == [cc EXCEPT !.state = "kDisconnecting", !.timer = FALSE]

\* forceClose leaves the close itself to a closure that holds a reference.
ForceClosed(cc) ==
    [cc EXCEPT !.state = "kDisconnecting", !.timer = FALSE, !.refs = @ + 1]

\* The bytes after n complete requests are malformed: RpcCodec calls forceClose.
ReadGarbage(c, n) ==
    /\ Reads(c)
    /\ conn[c].received + n <= MaxRequests
    /\ conn' = [conn EXCEPT ![c] = ForceClosed(WithRequests(@, n))]
    /\ tasks' = Post(tasks, conn[c].loop, <<"forceClose", c>>)

\* handleRead meets end of file or a socket error.  Data read just before stays
\* in the buffer, messageCallback_ is not called, and the timer runs on.
ReadClosed(c) ==
    /\ Reads(c)
    /\ conn' = [conn EXCEPT ![c] = Closed(@)]
    /\ tasks' = CloseCallback(tasks, c)

\* Mutant: EAGAIN returns without requesting EPOLLOUT.
BlockedNotArmed(cc, k) == [cc EXCEPT !.unsent = k, !.failed = FALSE]

\* The kernel's buffer is full with k packets left: EPOLLOUT is requested.
Blocked(cc, k) == [cc EXCEPT !.unsent = k, !.failed = FALSE, !.events = @ \cup {"out"}]

\* handleWrite of cc: everything is sent, or the kernel's buffer fills up, or
\* send() fails and nothing is requested.
Flushed(cc) ==
    {[cc EXCEPT !.unsent = 0, !.failed = FALSE, !.events = @ \ {"out"}]}
    \cup {Blocked(cc, k) : k \in 1..cc.unsent}
    \cup {[cc EXCEPT !.unsent = k, !.failed = TRUE] : k \in 1..cc.unsent}

WriteReady(c) ==
    /\ Dispatched(c, "out")
    /\ conn[c].state = "kConnected"
    /\ \E cc \in Flushed(conn[c]) : conn' = [conn EXCEPT ![c] = cc]
    /\ UNCHANGED tasks

\* Mutant: handleTimeout does not look at the state.
TimeoutClosesAny(c) == conn[c].refs > 0

\* The timer holds a weak_ptr: nothing happens when the last reference is
\* gone, or when the connection is closing already.
TimeoutCloses(c) == conn[c].refs > 0 /\ conn[c].state = "kConnected"

\* The keep-alive timer runs out.
Timeout(c) ==
    /\ conn[c].timer
    /\ Free(conn[c].loop)
    /\ conn' = [conn EXCEPT ![c] = [(IF TimeoutCloses(c) THEN Closed(@) ELSE @)
                                      EXCEPT !.timer = FALSE]]
    /\ tasks' = IF TimeoutCloses(c) THEN CloseCallback(tasks, c) ELSE tasks
    /\ UNCHANGED <<server, listener, ledger, active>>

----------------------------------------------------------------------------
\* Queued tasks; a loop runs them in order, when its batch is dispatched

Runs(l, t) ==
    /\ Idle(l)
    /\ tasks[l] # <<>> /\ Head(tasks[l]) = t
    /\ UNCHANGED <<server, listener, active>>
Popped(l) == [tasks EXCEPT ![l] = Tail(@)]

\* connectEstablished and extendLife.
Establish(c) ==
    /\ Runs(conn[c].loop, <<"establish", c>>)
    /\ conn' = [conn EXCEPT ![c].registered = TRUE, ![c].events = {"in"},
                            ![c].timer = TRUE, ![c].refs = @ - 1]
    /\ tasks' = Release(Popped(conn[c].loop), c, 1)
    /\ UNCHANGED ledger

\* The second half of forceClose: its own reference goes, the one handed to
\* removeConnection comes.
ForceClose(c) ==
    /\ Runs(conn[c].loop, <<"forceClose", c>>)
    /\ conn' = [conn EXCEPT ![c].events = {}, ![c].closeCalls = @ + 1]
    /\ tasks' = CloseCallback(Popped(conn[c].loop), c)
    /\ UNCHANGED ledger

\* A response: TcpConnection::send in the I/O loop; a closing connection drops
\* it, and one that already waits for EPOLLOUT only buffers it.
Send(c) ==
    /\ Runs(conn[c].loop, <<"send", c>>)
    /\ LET cc == [conn[c] EXCEPT !.refs = @ - 1]
           buffered == [cc EXCEPT !.unsent = @ + 1]
       IN  \E after \in IF cc.state # "kConnected" THEN {cc}
                        ELSE IF "out" \in cc.events THEN {buffered}
                        ELSE Flushed(buffered) :
             conn' = [conn EXCEPT ![c] = after]
    /\ tasks' = Release(Popped(conn[c].loop), c, 1)
    /\ UNCHANGED ledger

\* removeConnectionInLoop: the ledger's reference and the closure's own go.
Remove(c) ==
    /\ Runs(Base, <<"remove", c>>)
    /\ LET k == IF c \in ledger THEN 2 ELSE 1
       IN  /\ conn' = [conn EXCEPT ![c].refs = @ - k]
           /\ tasks' = Release(Popped(Base), c, k)
    /\ ledger' = ledger \ {c}

\* ~TcpConnection: the channel goes and close(fd_) takes it out of epoll.
Delete(c) ==
    /\ Runs(conn[c].loop, <<"delete", c>>)
    /\ conn' = [conn EXCEPT ![c].state = "deleted", ![c].registered = FALSE,
                            ![c].events = {}]
    /\ tasks' = Popped(conn[c].loop)
    /\ UNCHANGED ledger

----------------------------------------------------------------------------
\* Worker threads.  A job and the response closure it builds count as one
\* owner: the service answers, if at all, before its method returns.

\* A job hands its response to the connection's loop in a closure that shares
\* the connection.
Answer(c) ==
    /\ conn[c].working > 0
    /\ conn' = [conn EXCEPT ![c].working = @ - 1, ![c].answered = @ + 1,
                            ![c].refs = @ + 1]
    /\ tasks' = Post(tasks, conn[c].loop, <<"send", c>>)
    /\ UNCHANGED <<server, listener, ledger, active>>

\* The job is destroyed in the worker thread, which may hold the last reference.
JobDone(c) ==
    /\ conn[c].answered > 0
    /\ conn' = [conn EXCEPT ![c].answered = @ - 1, ![c].refs = @ - 1]
    /\ tasks' = Release(tasks, c, 1)
    /\ UNCHANGED <<server, listener, ledger, active>>

----------------------------------------------------------------------------
DispatchEvent(c) ==
    \/ \E kind \in {"in", "out", "hup"} : IgnoreEvent(c, kind)
    \/ \E n \in 0..MaxRequests : ReadRequests(c, n) \/ ReadGarbage(c, n)
    \/ ReadClosed(c)
    \/ WriteReady(c)

RunTask(c) == Establish(c) \/ ForceClose(c) \/ Send(c) \/ Remove(c) \/ Delete(c)

Next ==
    \/ ClientConnects
    \/ Accept
    \/ \E l \in Loops : EpollWait(l)
    \/ \E c \in Conns :
          \/ DispatchEvent(c)
          \/ RunTask(c)
          \/ Timeout(c)
          \/ Answer(c)
          \/ JobDone(c)

Spec == Init /\ [][Next]_vars

\* Every loop dispatches its batch and runs its tasks (EventLoop's TaskRuns:
\* a loop that keeps receiving events still reaches doPendingFunctors after
\* every batch), and service methods return.
Fairness ==
    /\ WF_vars(Accept)
    /\ \A c \in Conns :
        /\ WF_vars(DispatchEvent(c))
        /\ SF_vars(RunTask(c))
        /\ WF_vars(Answer(c))
        /\ WF_vars(JobDone(c))

FairSpec == Spec /\ Fairness

----------------------------------------------------------------------------
\* Properties

\* The number of queued closures of c, other than the raw-pointer delete, on
\* loop l.
Closures(l, c) ==
    Cardinality({i \in DOMAIN tasks[l] :
                   tasks[l][i][2] = c /\ tasks[l][i][1] # "delete"})
Deletes(c) ==
    Cardinality({i \in DOMAIN tasks[conn[c].loop] :
                   tasks[conn[c].loop][i] = <<"delete", c>>})

\* The use count is exactly the number of owners: the ledger, the queued
\* closures and the worker jobs.  A missing or doubled reference anywhere in
\* the hand-overs between threads would leak or free the connection early.
RefsCountOwners ==
    \A c \in Conns :
        conn[c].refs = (IF c \in ledger THEN 1 ELSE 0)
                     + Closures(conn[c].loop, c)
                     + (IF conn[c].loop = Base THEN 0 ELSE Closures(Base, c))
                     + conn[c].working + conn[c].answered

\* A deleted connection is out of every thread's reach: no event of the batch
\* in progress, no queued task, no job and no ledger entry can touch it (the
\* custom deleter in newConnection exists for this).
NoUseAfterDelete ==
    \A c \in Conns : conn[c].state = "deleted" =>
        /\ \A l \in Loops :
              /\ \A e \in active[l] : e[1] # c
              /\ \A i \in DOMAIN tasks[l] : tasks[l][i][2] # c
        /\ conn[c].working = 0 /\ conn[c].answered = 0
        /\ c \notin ledger

\* The delete is posted once, exactly when the last owner has gone, whichever
\* thread that was.
DeletePostedOnce ==
    \A c \in Conns :
        Deletes(c) = IF conn[c].state \in {"kConnected", "kDisconnecting"}
                        /\ conn[c].refs = 0 THEN 1 ELSE 0

\* End of file, errors, timeout and forceClose exclude each other: the close
\* callback runs at most once, and a connection leaves the ledger only then.
ClosedOnce ==
    \A c \in Conns :
        /\ conn[c].closeCalls <= 1
        /\ c < nextConnId /\ c \notin ledger => conn[c].closeCalls = 1

\* A client in the backlog is about to be reported or accepted, although the
\* listening socket reports several arrivals, and arrivals during handleRead,
\* only once; but not after accept() failed.
NobodyLeftWaiting ==
    listener.waiting > 0 => \/ listener.ready
                            \/ listener.handler # "none"
                            \/ listener.failed

\* Buffered output is never forgotten: while a connected peer has unsent
\* packets, EPOLLOUT is requested, unless the last send() failed outright.
OutputArmed ==
    \A c \in Conns :
        conn[c].state = "kConnected" /\ conn[c].unsent > 0
            => "out" \in conn[c].events \/ conn[c].failed

\* A connection that starts closing is eventually destroyed and its
\* descriptor returned.
ClosingIsFreed ==
    \A c \in Conns : conn[c].state = "kDisconnecting" ~> conn[c].state = "deleted"
============================================================================

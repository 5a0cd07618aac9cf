# TinyRPC in TLA+

TinyRPC is an asynchronous RPC framework for Linux in C++: a reactor (epoll, one
loop per thread), TCP servers and clients on it, a binary protocol around
protobuf, an RPC layer with a thread pool, and an asynchronous logger. This
directory holds TLA+ models of the parts that do the program's work, the TLC runs
that check them on small instances, and TLAPS proofs of what matters most for
every instance. Paths below are those of the repository.

Contents: [inventory](#inventory) - [modules](#modules-and-code) -
[runs](#runs) - [fairness](#fairness) - [findings](#findings) -
[proofs](#proofs) - [limits](#what-is-not-modelled) - [plan](#plan)

## Inventory

| Component | State | Operations | Used by / uses |
|---|---|---|---|
| `EventLoop`, `Channel` | `quit_`, `pendingFunctors_` and its mutex, `activeEvents_`, the epoll and event descriptors | `loop`, `queueInLoop`, `wakeup`, `handleWakeup`, `doPendingFunctors`, `quit`, `updateChannel`, `removeChannel` | every other network component runs in a loop |
| `EventLoopThread`, `EventLoopThreadPool` | `loop_`, mutex, condition, `thread_`; the vector of loops and the round-robin cursor | `startLoop`, `threadFunc`, destructor; `start`, `getNextLoop` | owns an `EventLoop`; used by `TcpServer` |
| `TcpServer`, `Acceptor`, `TcpConnection` | the listening socket and its backlog; `connections_`, `nextConnId_`; per connection `state_`, buffers, channel, keep-alive timer and the `shared_ptr` count | accept, `newConnection`, `handleRead`, `handleWrite`, `handleTimeout`, `forceClose`, `send`, `removeConnection`, `removeConnectionInLoop`, custom deleter | base loop, I/O loops and pool threads share connections |
| `Connector`, `TcpClient` | `connect_`, `state_`, connecting channel, retry timer and delay; `connection_`, the client's `connect_` | `start`, `startInLoop`, `connect`, `handleWrite`, `handleError`, `retry`, `stop`; `connect`, `disconnect`, `send`, `newConnection`, `removeConnection` | one loop and any user thread |
| `TimerQueue`, `Timer` | the heap, `deleted_`, timerfd | `addTimer`, `handleRead`, `resetTimerfd`, `setDeleted` | keep-alive of connections, retries of the Connector |
| `Buffer` | memory, read and write index | `append`, `prepend`, `makeSpace`, `retrieve`, `retrieveAsString`, `findCRLF`, `readFd` | `TcpConnection` (only `append`, `peek` and `retrieve`) |
| `RpcCodec`, `ProtocolUtil` | none of its own | `parseMessage`, `Decode`, `Encode` | between `TcpConnection` and the RPC layer |
| `RpcChannel`, `RpcController` | `nextSequenceId_`, `outstandings_`; `failed_`, error code | `CallMethod`, `onRpcResponse`; `SetFailed`, `Failed` | client threads and the client's loop |
| `RpcServer`, `ThreadPool`, `ModernClosure` | service map; task queue, mutex, condition, threads | `onRpcMessage`, `enqueue`, worker loop, `done` closures | I/O loops and pool threads |
| `AsyncLogging` | `running_`, `currentBuffer_`, `nextBuffer_`, `buffers_`, the thread's two spares and its round | `append`, `start`, `stop`, `threadFunc` | every thread that logs |
| `Logger`, `LogStream` | `g_appender`, `g_asyncLogger`; one line being formatted | `initGlobalLogger`, `destroyGlobalLogger`, `~Logger` | every thread that logs; hands lines to `AsyncLogging` |
| `Config`, `Application` | configuration values | `init` reads them once at start, `destroy` frees them | the programs; start and stop the logger |
| programs, `OrderServiceImpl`, protobuf files | none | examples | the public classes |

How they interact. A loop thread takes a batch of events from epoll, dispatches it
channel by channel, then runs the tasks queued by anyone through `queueInLoop`; a
write to an eventfd brings it out of `epoll_wait`. `TcpServer` accepts in the base
loop and spreads connections over the loops of its pool; closing one crosses back
to the base loop's ledger, and destruction, whichever thread drops the last
`shared_ptr`, is posted to the connection's own loop. A request goes from the
client's thread through its loop, the connection, the server's I/O loop and the
thread pool, and its response back the same way, matched by sequence id.

What is hard here, and the property each part needs:

* **Loop**: producers racing with the swap of the task list and with
  `epoll_wait`, edge-triggered events with a bounded batch, `quit()` from other
  threads. No lost wakeup, no stranded edge, tasks once and in order, the thread
  can be joined.
* **Server connections**: a listening socket that reports many clients once, four
  reasons to close (end of file, error, timeout, malformed data), events and tasks
  already under way, references on three kinds of threads. Nobody stays in the
  backlog; a connection is closed once, deleted once after the last owner, nobody
  touches it afterwards, and it does happen.
* **Client**: one failure reported by up to three callbacks, retry timers and
  queued starts that outlive `stop()`, `send()` with a copied pointer. No socket
  leaks or is used by two owners, retries do not multiply and do not run dry, nothing
  is connected after a stop.
* **Timers**: a nanosecond clock behind a microsecond timerfd, edges consumed or
  cleared by a re-arming in the same batch, re-entrant changes of the heap. The
  loop never oversleeps.
* **RPC**: concurrent callers, equal ids on different connections, responses out
  of order, calls lost with a connection. Each caller gets its own outcome, once.
* **Buffer and stream**: bytes that move, are copied to larger memory or put into the
  reserve, frames cut anywhere. No byte lost, no frame left behind for an event that
  will not come.
* **Logger**: buffers that travel between threads, back-pressure, a mode and a pointer
  that one thread changes under the others, stop at any moment. Lines once and in
  order, and `destroy()` returns.

`PROJECT.json` lists these hazards one by one, each at its line and with the
properties that would catch it.

## Modules and code

| Module | Models | Notes |
|---|---|---|
| `TaskQueue` | the promise of `queueInLoop` | abstract specification: first in, first out, each task once |
| `EventLoop` | `EventLoop.cpp`, `Channel.hpp`, epoll and the eventfd | `Harvest` is `epoll_wait`, `Push` and `Wakeup` the two halves of `queueInLoop` |
| `EventLoopThread` | `EventLoopThread.cpp` | extends `EventLoop`: the same state, started, published, used and joined by an owner |
| `TcpServer` | `TcpServer.cpp`, `Accept.cpp`, `TcpConnection.cpp`, `EventLoopThreadPool.cpp` | each loop is what `EventLoop` was shown to be: a batch of events, then tasks in order |
| `TcpClient` | `TcpClient.cpp`, `Connector.cpp` | the client's `TcpConnection` only with its state and references |
| `TimerQueue` | `TimerQueue.cpp`, `Timer.hpp`, timerfd | |
| `ByteQueue` | the promise of `Buffer` | abstract specification: bytes added at either end, taken, searched, filled from a socket |
| `Buffer` | `Buffer.hpp` | operators on three variables, used by the next two |
| `BufferIO` | `Buffer.hpp`, `Buffer.cpp` | extends `Buffer`: every operation in any order; `Readv` and `AppendExtra` are the halves of a turn of `readFd` |
| `RpcStream` | `TcpConnection::handleRead`, `RpcCodec.cpp`, `ProtocolUtil.cpp` | extends `Buffer`: socket, buffer and decoder together |
| `RpcService` | the promise of `CallMethod` to its callers | abstract specification |
| `Rpc` | `RpcChannel.cpp`, `RpcServer.cpp`, `ThreadPool.hpp` | connections as `TcpServer` and `TcpClient` provide them |
| `AsyncLogging` | `AsyncLogging.cpp` | `append` and the background thread, whoever calls |
| `Logger` | `Logger.cpp`, the logger's part of `Application.cpp` and `Config.cpp` | extends `AsyncLogging`: who calls, and who takes it away |
| `EventLoopThread_proof`, `TcpServer_proof`, `TcpClient_proof`, `TimerQueue_proof`, `Rpc_proof`, `Buffer_proof`, `Logger_proof` | - | theorems about the module of that name; `EventLoopThread_proof` also those about `EventLoop`, `Logger_proof` those about `AsyncLogging` |
| `BufferUsers_proof` | - | theorems about the two modules that use `Buffer`: `BufferIO` and `RpcStream` |
| `MC*` | - | the instances that TLC checks |

The `map` of `PROJECT.json` gives for every definition the lines it stands for.
Operators whose comment begins with "Mutant:" are variations of the definition
after them, as a plausible bug would make it; no action uses them. They serve to
show that each property notices such a bug.

### How the models abstract

* **Steps.** A step is what one thread does between two points where another
  thread can interfere: a critical section, an atomic, a system call or a callback
  that touches only data of its loop. `queueInLoop` is two steps (the push under the
  mutex, the write to the eventfd), `CallMethod` three, `connect()` three. The
  `doPendingFunctors` swap, each functor and each event are steps of their own in
  `EventLoop`.
* **epoll.** All channels are edge-triggered. A descriptor enters the ready list
  when it becomes readable and leaves it with the `epoll_wait` that looks at it;
  it is reported if it is still readable then. `WaitError` (a signal) happens only
  when there is nothing to report, as in the kernel.
* **`TcpServer`**. `refs` is the use count of the `shared_ptr`, changed by every
  copy and release the code makes; the ledger, closures and jobs are modelled
  separately, so that their agreement is a property, not a definition. A worker job
  and the response closure it creates count as one owner. The listening socket is a count
  of waiting clients with its place on epoll's ready list; clients connect before, during and
  after `Acceptor::handleRead`, each of whose `accept` calls is a step. `accept` may
  fail with clients waiting. A connection owns its descriptor from `newConnection` to its
  destructor, so descriptors have no state of their own. `Timeout` may happen whenever the
  keep-alive timer is armed, since nothing orders 30 s against the other steps.
* **`TcpClient`**. `connect()` and `send()` run in a user thread; `disconnect()`, which
  the header does not declare thread-safe, in the loop. A socket is named by the
  attempt that opened it. Errors of `connect(2)` are classed as the code's switch
  classes them: in progress, retry, give up. Past `MaxAttempts` the loop makes no
  further attempt (bound). The length of the retry delay is not modelled: an armed retry timer
  fires at any time, which includes every length. Deletes are queued as the references go.
* **`TimerQueue`**. Time is discrete, with `Grain` ticks to timerfd's unit; a time may
  pass between reading the clock and `timerfd_settime` (`MaxLate`). At `MaxTime`
  the clock stops and stands for any later time.
* **`BufferIO`**. Bytes are values; `readv` takes any time, and bytes arrive before, between and after its
  calls. What ends a `readFd()` is an action each: `ReadvAgain` (the socket is open and empty), `ReadvEnd`
  (the peer has closed its side) and `ReadvFails`. The first two return the same, which `ByteQueue` says openly.
* **`RpcStream`**. A byte is a pair (frame, place in it), so that what the buffer
  holds can be compared with what was sent. A frame is its size and what is wrong with it.
  A header read in the middle of a frame is not a header. The connection ends in every way the code has:
  a malformed frame, the end of the stream, a `recv()` that fails after the peer has reset it, the keep-alive timer
  (`armed` from the start on a server, from the first bytes received on a client), and a client's `disconnect()` in its loop,
  between two events or in a callback of `parseMessage`. `cause`, a history, says which. `ends`, another, says where in the
  stream each frame ends, so that the properties need no sum over the frames.
* **`Rpc`**. A request is its id and what it runs into; a response its type, code and
  whether its body parses. A connection goes up once, and down once for
  whatever reason. `RpcServer` declares but does not define `setThreadNum`, so all
  its connections live in the base loop: one loop writes and reads for all.
* **`AsyncLogging`**. A line is its number; buffers hold `Capacity` lines. `append`
  holds the mutex throughout, so it is one step. `running_` is a plain `bool`
  read by the writer at the head of its loop only. A round is swapped out, cut, then written
  buffer by buffer, while other threads append.
* **`Logger`**. `g_appender` and `g_asyncLogger` are read and written without a lock or an
  atomic, so each read in `~Logger` (two for the console branch, three for the file branch and for the fallback) and each write in
  `destroyGlobalLogger` is a step. An
  `append` through a pointer that was read before the delete runs into freed memory:
  the process crashes or the line is gone, a nondeterministic choice (`HandOverLate`). A
  statement of level FATAL may end the process when it returns.

## Runs

Every module is checked with `tlc -config X.cfg MCX.tla`; bounds are in the
cfg and `MC` modules. Deadlock checking is on in `MCBufferIO.cfg`, since a Buffer can always be
used again, and off in the others, because every behaviour ends when the bounds on tasks, calls,
connections or lines are used up, or when the thread has been joined.

| Run | Instance | Why it is enough |
|---|---|---|
| `event_loop` | 2 callers besides the loop, 3 tasks, 2 sockets, batches of 2 | two producers race with each other and with the swap, a third task is queued by a functor; three descriptors can be ready for two places in the batch |
| `tcp_server` | base loop and at most one I/O loop, 2 clients, 1 request each | both clients can be in the backlog at one event, or the second arrives while the first is accepted, or after its connection is gone; with no I/O loop the ledger, the acceptor and the connections share a loop |
| `tcp_client` | 3 calls of `connect()`, 4 sockets, 2 sends | two starts at once, their retries, a stop and a start after it; a send before and after a loss |
| `timer_queue` | 3 timers, timeouts 0, 1 and 4 ticks, 2 ticks per microsecond, lateness 1 | due at once, less and more than a microsecond away; a callback adds one timer and deletes another |
| `logger` | 2 threads, 5 lines, 1 line to a buffer, a round of 3 buffers at most, cut to 2 | five buffers: a round can be cut while the next one fills; both threads can be inside a statement at each step of `destroy()`; all modes, a log file that opens or does not |
| `rpc` | 2 clients, 2 calls each, 2 workers, as many ids as calls of a client | the clients use the same ids, which wrap around; every kind of failure but an unparsable request, which behaves as an unknown method |
| `buffer` | pieces of 1 and 2 bytes, 5 bytes at most, room for 2, a reserve of 1, an array of 2 | the memory fits, is moved and is enlarged; `readv` fills the room, the array, or both, and is called again; the peer closes its side before, during and after a read |
| `rpc_stream` | 3 frames of 3 or 4 bytes, good or bad, 3 bytes per `recv`, buffer of 3 and a reserve of 1 | pieces end in every place of a frame; the buffer moves and grows; every end of the connection comes with nothing, part of a frame, whole frames or both in the buffer |

What they check:

* `event_loop`: `NoLostWakeup`, `NoLostEdge`; `IsTaskQueue` (every behaviour is one of
  `TaskQueue`); `TaskRuns`; `PointerValidWhileUsed` (the pointer from `startLoop`
  stays valid until the owner destroys the thread); `DestructorReturnsIfAwake`.
* `tcp_server`: `RefsCountOwners`, `NoUseAfterDelete`, `DeletePostedOnce`,
  `ClosedOnce`, `NobodyLeftWaiting`, `OutputArmed`, `ClosingIsFreed`.
* `tcp_client`: `SocketsOwned`, `DeletedUnreferenced`, `ChannelOutlivesEvent`,
  `RetriesConserved`, `KeepsTrying`, `ConnectionUsable`, `StoppedStaysStopped`,
  `ClosingIsFreed`.
* `timer_queue`: `NeverOversleeps`, `RunsWhenDue`, `TimerFires`.
* `logger`: `LinesAccountedFor`, `SparesNeverRunOut`, `DropsOnlyUnderLoad`, `LineKept`,
  `LineWritten`, `DestroyReturns`.
* `rpc`: `IsRpcService` (every behaviour is one of `RpcService`), `ResponseExpected`,
  `EntryAccountedFor`, `CallCompletes`.
* `buffer`: `IsByteQueue` (every behaviour is one of `ByteQueue`).
* `rpc_stream`: `NothingScrambled`, `FramesInOrder`, `NoFrameStranded`,
  `GrowsOnlyWhenFull`, `FrameDelivered`.

Each property is stated in words above its definition. The type invariants are not among
the runs' properties; those of the modules with proofs are proved.

## Fairness

Fairness is weak and asks only for what the operating system and the code give,
with one exception that is explained.

* A loop thread, a worker, the log writer, a thread inside `queueInLoop`,
  `connect()`, `send()` or `CallMethod` is scheduled and goes on. Nobody has to
  call anything: no fairness on `Push`, `StartLoop`, `Destruct`, `connect`, `Statement`,
  `DestroyGlobalLogger`, `PeerSends`, `ClientConnects`, `Connected` or `Disconnected`.
* Callbacks and service methods return and call `done`; `OrderServiceImpl` does.
* `EventLoop`: weak fairness of the whole loop thread. The kernel's ready list is
  a queue, so no descriptor can be passed over for ever.
* `TcpServer`: weak fairness of `Accept`, a loop of system calls in one callback; strong fairness of `RunTask(c)`. A loop that keeps getting events still runs
  `doPendingFunctors` after every batch; that a queued task runs is `TaskRuns` of
  the run `event_loop`. As batches interrupt the enabledness of tasks, weak fairness
  would not express it.
* `TcpClient`: the kernel decides every connection in progress.
* `TimerQueue`: time goes on and timerfd expires.
* `Logger`: `wait_for` has a timeout of three seconds, so the swap always comes; the scheduler lets the
  background thread have the mutex in the end, which `append` holds only for a copy; `main()` goes on
  inside `destroy()`. The threads that log need not go on.
* `RpcStream`: what was sent arrives, and `handleRead` and `parseMessage` go on. No fairness on what may end the
  connection (`PeerResets`, `Timeout`, `Disconnect`).

## Findings

Seven statements of the repository's comments do not hold of its code. Four have a
run that expects the violation of a property that says what the comment says:

| Run | Statement | What the code does |
|---|---|---|
| `destructor_hangs` | `EventLoopThreadPool.hpp:27`: its destructor destroys the threads it manages | `quit()` does not write the eventfd, the loop stays in `epoll_wait`, the join never returns |
| `no_reconnect` | `TcpClient.hpp:22`: reconnects after a lost connection | `Connector::state_` stays `kConnected`, so `startInLoop` ignores the restart |
| `stop_loses_lines` | `Logger.hpp:22`: all buffered data is flushed | the writer leaves without a last swap |
| `network_failure_unreported` | `RpcController.hpp:42`: `Failed()` is true on a network failure | nothing completes a call whose connection is gone |

The first, second and fourth are liveness properties, refuted under the fairness above.
`DestructorReturnsIfAwake` says what does hold instead of the first: the destructor
returns when the loop is not blocked at that moment. `EntryAccountedFor` says
where the entries come from that the fourth leaves behind.

Three are written into a property that holds, as an exception or as a weaker promise, so that the passing run shows
both the disagreement and that it is the only one of its kind:

| Run, property | Statement | What the code does |
|---|---|---|
| `tcp_client`, `KeepsTrying` | `TcpClient.hpp:39`: `connect()` opens a connection | an attempt that succeeds after `disconnect()` sets `state_` to `kConnected` and closes the socket (`Connector.cpp:151-158`); `startInLoop` ignores every later `connect()` (line 45) |
| `buffer`, `IsByteQueue` | `Buffer.hpp:175` and `Buffer.cpp:23`: 0 from `readFd()` means that the peer has closed | 0 is also returned for an open socket with nothing to read (`Buffer.cpp:82-84`, 114) |
| `rpc_stream`, `NoFrameStranded` | `TcpConnection.hpp:72`: data that has been read is handed to `messageCallback_` | data read in the same event as the end of the stream or an error is not (`TcpConnection.cpp:72`, 84) |

* `KeepsTrying` is about every Connector that is not stopped, whatever its state. It has a connection, an attempt under way,
  or something that will make the next one, or it is at one of three dead ends: a fatal error (`gaveUp`), a connection that was
  lost, which is the finding `no_reconnect` again, and a late success that was closed (`dropped`). In the last two (`Spent`)
  `state_` is `kConnected` for good. Without `dropped` the run finds `connect()`, `disconnect()`
  during the handshake, the late success and `connect()` again.
* `ByteQueue` promises that a read that does not fail has emptied the socket and returns how much it has moved, and nothing
  about the peer. With the promise of the comment its `ReadEnds` would need `closed` when 0 is returned, which the
  first `readFd()` on an open, empty socket breaks.
* `NoFrameStranded` holds of a connection that waits and of one that the keep-alive timer or `disconnect()` has ended,
  because neither can come between `recv()` and `parseMessage`. Extended to `RecvEnd` and `RecvFails` it is violated
  by a frame and the end of the stream behind it in one event. `FrameDelivered` says what a sender can count on: its frame is delivered,
  or the connection ends, for a reason outside the code.

One more has no property that could show it: the comment at `EventLoop.cpp:121` says that
all tasks are executed before the loop is left, but a task pushed after the last swap, or
when `quit_` was set before `loop()` began, stays in `pendingFunctors_`. `TaskRuns` admits it: a task
runs unless the loop is told to quit.

## Proofs

`tlapm M_proof.tla` checks the theorems below, for every value of the constants that
satisfies the named assumptions (`LoopAssumption`, `FdAssumption`,
`MaxEventsAssumption`; `TimeAssumption`; `SizesAssumption`, `BufferAssumption`,
`BytesAssumption`, `IOAssumption`). These state only what the code has by construction: the loop's
own thread is not another thread, the eventfd is not a client's socket, sizes are
natural numbers, two buffers at least are kept of a round (`Kept`, as the code's
`erase(begin() + 2, ...)`), and bytes of frames are bytes.

* **EventLoop.** `NoLostWakeup` alone is not inductive: the moment between the
  swap and `epoll_wait`, and the stretch in which the eventfd has been read but the
  swap is still to come, need a statement too. `WakeupInv` gives it: outside
  "dispatch" and "swap" a waiting task means that a caller still owes its write or
  that the eventfd is readable; and a readable descriptor is on the ready list or in the
  batch. `TypeStep` and `WakeupInvariant` show that every step keeps it; `NoWakeupLost` and
  `NoEdgeLost` follow. `TasksStayInOrder` proves that the history of pushes is what
  ran, what runs and what waits, and from it `ImplementsTaskQueue` that every step is
  a step of `TaskQueue` or none.
* **EventLoopThread.** `ThreadRunsEventLoop` proves that its specification implies that of
  `EventLoop`, so that everything above holds of a loop inside its thread
  (`ThreadKeepsLoopGuarantees`). `ThreadInvariant` relates
  `quit_`, the owner and the thread: nobody sets `quit_` before the destructor, so the loop
  cannot have returned. `PointerStaysValid` and `ThreadTypeCorrect` follow.
* **TimerQueue.** `LoopNeverOversleeps`: `NeverOversleeps` is inductive given the types.
  The two lemmas behind it bound what `resetTimerfd` asks for (`SetTimerfdBounds`) and say that
  what wakes the loop for one timer wakes it for all later ones (`WakesForLater`), so that
  `addTimer` need not touch timerfd for a timer that is not the earliest.
  `TimersRunWhenDue` needs in addition that the time `handleRead` read is not in the future.
* **AsyncLogging.** `SparesSuffice`, from `SparesInv`: `nextBuffer_` is missing only while the buffer it
  replaced waits in `buffers_`, so that a swap that gives away both spares finds at
  least two buffers in the round; and the cut leaves two. `NoLineAstray` (`LinesAccountedFor`) and
  `DropsNeedBacklog` (`DropsOnlyUnderLoad`) follow from `LinesInv`: the file comes before what is still to be written of the
  round, that before what waits for the next round, all of them and the dropped ones together are the lines
  so far; nothing dropped is later than what waits; and between the first line of the oldest full buffer and that of the
  current one lie as many buffers full of lines as are queued. The last part is what turns "more than `MaxBacklog`
  buffers" into a number of lines.
* **Logger.** Every step of `Logger` is a step of `AsyncLogging` or none (`LoggerSteps`), so its
  guarantees carry over (`LoggerUsesAsyncLogging`, from which `LoggerKeepsSpares`, `LoggerLosesNoLine` and
  `LoggerDropsUnderLoad`). `NoLineLost` needs to know where a statement stands: one that
  is past the branch that printed or handed over its line has it safe; one that is about to
  hand over does so to a live logger; one that has done neither can only be where the mode and
  the pointer, unchanged since it began, lead to a branch still to come. A change of them marks the statement as
  disturbed.
* **Buffer.** `AppendAppends`, `RetrieveRetrieves` and `PrependPrepends` say what the operations do to the
  readable bytes; for `append` in each of its three cases, where the byte at each place is
  followed through the move and the copy.
* **BufferIO.** `BufferIsByteQueue`: with the types as the invariant, every step is one of
  `ByteQueue` or none. The refinement mapping counts what lies in the array on the stack as not yet read, so
  that `Readv` moves what goes into the Buffer and `AppendExtra` the rest. The
  lemma behind it (`ReadvSplits`) says that the two parts and what stays in the socket are the
  socket's bytes in order.
* **RpcStream.** The stream of bytes, received, arrived and on the way, is laid out by the frames sent
  (`SentInv`: byte `i` of frame `n` is `i` places behind the end of frame `n - 1`). What has been cut off are the
  first frames of it, and what is readable is the rest of what was received (`CutInv`). So the decoder, which
  reads the header wherever the read index stands, always stands at the first byte of a frame, and
  `retrieve` takes exactly that frame. `StreamInvariant` shows that every step keeps this through the moves and copies of
  `makeSpace`; `BytesKeepTheirOrder`, `FramesComeInOrder`, `NoFrameLeftBehind`, `StreamTypeCorrect` (the
  read index never gets into the reserve: `ReserveKept`) and `BufferGrowsOnlyWhenFull` follow.
* **Rpc.** `RpcInv`: a call that waits has exactly one message, in one of the six places between the client's loop
  and the connection back, or is lost (`AllOwned`, `OnePlace`, `AllPlaced`); ids of one client are distinct until all
  have been given out (`IdsDistinct`, where `SeqAssumption` is needed); the table holds the calls without an outcome. That a message
  is in one place only is what makes the answer to one call never the answer to another with the same id on another
  connection. From it `ResponsesExpected`, `EntriesAccountedFor`, and
  `ImplementsRpcService`: a step that runs `done` is `RpcService`'s completion, all others are stutters but the call itself.
* **TcpServer.** `ServerInv` says for each connection what its closures in the queues, its events, its place in the
  ledger and its use count have to do with each other: `RefsInv` (the count is the number of owners), `DeleteInv` (a delete
  is queued exactly while the count is 0 and the object still there), `CloseInv` (closing means that the close callback has run once or a
  `forceClose` is queued) and `StartInv` (nothing happens to a connection before `connectEstablished`). `Placed` keeps
  everything about a connection in its own loop but for the removal in the base loop. `RefsCounted`, `DeletedOnce`,
  `UnusedAfterDelete`, `ClosedAtMostOnce`, `BacklogServed` and `OutputWaits` follow, each but for a system
  call that has failed: `accept` for the one (`listener.failed`), `send` of the connection for the other (`failed`). Most lemmas count closures of a kind in a queue:
  what pushing, running and adding at the head does to the counts.
* **TcpClient.** `ClientInv`. `SocketInv` found out that a `TcpClient` makes at most one connection ever: once
  `state_` is `kConnected`, `startInLoop` does nothing. The clause is needed to prove `SocketsOwned`, and it is the finding
  `no_reconnect` seen from the other side. `LifeInv` says when the close callback and the delete of a connection are queued,
  `EventInv` where the Channel is whose event is being handled, `RetryInv` that every
  `start()` is in one place: flagged, queued, an attempt, a timer, or over. `TryingGoesOn` (`KeepsTrying`) needs from
  `SocketInv` in addition what `kConnected` can come from: a connection, up or not, or a success that was closed.

The assumptions of these four: the buffer and frame sizes as above; `CallsAssumption` (a call has a client and a kind),
`SeqAssumption` (all the calls that a client ever makes are finitely many and no more than there are ids: the code has 2^32
ids and does not notice that one comes round again while its first call waits), `NoneAssumption` (no call, job or code is the value that stands for none);
`LoopsAssumption` (no I/O loop of the pool is the base loop); `BoundsAssumption` (the bounds are natural numbers).

Only model-checked are the liveness properties (all with `~>`), since the prover handles neither fairness nor `ENABLED`:
`TaskRuns`, `DestructorReturnsIfAwake`, `ClosingIsFreed` of the server and of the client, `TimerFires`, `LineWritten`,
`DestroyReturns`, `CallCompletes` and `FrameDelivered`. Every invariant and every action property that a run
checks is also proved, and so are the three refinements (`IsTaskQueue`, `IsRpcService`, `IsByteQueue`).

## What is not modelled

* `LogStream` and the text of a line: one thread formats it in a buffer of its own. A line of 4000
  bytes or more is cut, with its newline. The level filter in the `LOG_` macros.
* The settings of `Config` but for `log_appender`; the example programs and the protobuf files.
* Byte order, the protobuf encoding and the exact text of errors.
* Registration of services and of thread counts: done before `start()`.
* The destructors of `TcpServer` and `ThreadPool`, which no program runs while their loops and
  jobs run, and of `TimerQueue`, which only closes its descriptor. The destructor of `TcpClient`: in
  `test_cilent.cpp` it runs after the loop has ended and before the loop is destroyed, with whatever tasks are
  left; it is listed as a hazard.
* Setup errors of the listening socket.
* SIGPIPE: `send` on a connection that the peer has reset is modelled as an error; the signal, which the code
  neither ignores nor suppresses, ends the process instead (listed as a hazard).
* Real time: rates of messages against the 30 s of the keep-alive, and the memory they cost (every received
  piece adds a timer and only marks the old one deleted); the lengths of retry delays.
* More than 2^32 calls of one client (`SeqAssumption`): the sequence id then comes round to calls that may still
  be waiting.
* The condition variable of `ThreadPool`: a worker takes a job as soon as one waits (`TakeJob`). `enqueue` pushes under the mutex
  and the worker tests the queue before it waits, so that no notification can be lost.

## Plan

Done: `TaskQueue`, `EventLoop`, `EventLoopThread`; `TcpServer` with the
backlog; `TcpClient`; `TimerQueue`; `AsyncLogging`, `Logger`; `ByteQueue`, `Buffer`, `BufferIO`, `RpcStream`; `RpcService`,
`Rpc`; the proofs of all their safety properties.
The order was that of importance to the program: the loop under everything, the life of
connections, then what runs on them.

What is left:

1. Prove for the liveness properties the safety part that the argument rests on: that a queued task, an
   armed timer or a closing connection always has an enabled step that brings it on.
2. Shorten the longest proofs (`TcpServer_proof`, `TcpClient_proof`) by sharing the lemmas on counting tasks.

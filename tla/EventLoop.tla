----------------------------- MODULE EventLoop -----------------------------
(***************************************************************************)
(* MyRPC::EventLoop: the reactor.  One thread runs loop(); any thread may  *)
(* call queueInLoop() and quit().  epoll and the eventfd are modelled as   *)
(* the code uses them: every channel is registered edge-triggered, so a    *)
(* descriptor sits on the kernel's ready list from an arrival until the    *)
(* next epoll_wait takes it, and is reported only if it still polls        *)
(* readable then.                                                          *)
(***************************************************************************)
EXTENDS Naturals, Sequences, FiniteSets

CONSTANTS
    Threads,    \* the threads, other than the loop's, that call queueInLoop
    Loop,       \* the thread that runs loop()
    Tasks,      \* the functors; each is queued at most once (state bound)
    Channels,   \* the descriptors of the loop's I/O channels
    WakeupFd,   \* the eventfd of wakeupChannel_
    MaxEvents   \* activeEvents_.size(), 1024 in the code

ASSUME LoopAssumption == Loop \notin Threads
ASSUME FdAssumption == WakeupFd \notin Channels
ASSUME MaxEventsAssumption == MaxEvents \in Nat \ {0}

Callers == Threads \cup {Loop}
Fds == Channels \cup {WakeupFd}

VARIABLES
    quit,            \* quit_
    loopPc,          \* where the loop thread is in loop()
    batch,           \* the entries of activeEvents_ not yet dispatched
    pendingFunctors, \* pendingFunctors_
    functors,        \* the local vector of doPendingFunctors, front executing
    posting,         \* the callers between the push and the wakeup of queueInLoop
    readable,        \* the descriptors that poll readable (eventfd: counter > 0)
    rdlist,          \* epoll's ready list
    queued,          \* history: every task ever pushed, in push order
    ran              \* history: every task that ran, in the order they ran

vars == <<quit, loopPc, batch, pendingFunctors, functors, posting, readable,
          rdlist, queued, ran>>

LoopPcs == {"check", "wait", "dispatch", "swap", "run", "returned"}

\* The set of elements of a sequence.
Elems(s) == {s[i] : i \in DOMAIN s}

\* Types; activeEvents_ holds undispatched events exactly while the loop is
\* dispatching, and the local vector has tasks only while they are being run.
TypeOK ==
    /\ quit \in BOOLEAN
    /\ loopPc \in LoopPcs
    /\ batch \in SUBSET Fds
    /\ pendingFunctors \in Seq(Tasks)
    /\ functors \in Seq(Tasks)
    /\ posting \in SUBSET Callers
    /\ readable \in SUBSET Fds
    /\ rdlist \in Seq(Fds)
    /\ queued \in Seq(Tasks)
    /\ ran \in Seq(Tasks)
    /\ batch # {} <=> loopPc = "dispatch"
    /\ functors # <<>> => loopPc = "run"

Init ==
    /\ quit = FALSE
    /\ loopPc = "check"
    /\ batch = {}
    /\ pendingFunctors = <<>>
    /\ functors = <<>>
    /\ posting = {}
    /\ readable = {}
    /\ rdlist = <<>>
    /\ queued = <<>>
    /\ ran = <<>>

----------------------------------------------------------------------------
\* The kernel

\* fd has become readable (again): epoll puts it on the ready list once.
Arrival(fd) ==
    /\ readable' = readable \cup {fd}
    /\ rdlist' = IF fd \in Elems(rdlist) THEN rdlist ELSE Append(rdlist, fd)

\* Data reaches the socket of an I/O channel.
Arrive(c) ==
    /\ Arrival(c)
    /\ UNCHANGED <<quit, loopPc, batch, pendingFunctors, functors, posting,
                   queued, ran>>

----------------------------------------------------------------------------
\* queueInLoop and quit, called by other threads and by the loop's callbacks

\* The loop thread is inside an I/O handler or inside a functor.
InCallback ==
    \/ loopPc = "dispatch" /\ batch \cap Channels # {}
    \/ loopPc = "run" /\ functors # <<>>

CanCall(p) ==
    /\ p \notin posting
    /\ p = Loop => InCallback

\* The critical section of queueInLoop.
Push(p, t) ==
    /\ CanCall(p)
    /\ t \notin Elems(queued)
    /\ pendingFunctors' = Append(pendingFunctors, t)
    /\ queued' = Append(queued, t)
    /\ posting' = posting \cup {p}
    /\ UNCHANGED <<quit, loopPc, batch, functors, readable, rdlist, ran>>

\* Mutant: queueInLoop rings the bell only for other threads.
WakeupFromOtherThreads(p) ==
    /\ p \in posting
    /\ posting' = posting \ {p}
    /\ IF p = Loop THEN UNCHANGED <<readable, rdlist>> ELSE Arrival(WakeupFd)
    /\ UNCHANGED <<quit, loopPc, batch, pendingFunctors, functors, queued, ran>>

\* wakeup(): the write to the eventfd.
Wakeup(p) ==
    /\ p \in posting
    /\ posting' = posting \ {p}
    /\ Arrival(WakeupFd)
    /\ UNCHANGED <<quit, loopPc, batch, pendingFunctors, functors, queued, ran>>

\* quit(), by any thread: it only sets the flag and does not wake the loop.
Quit ==
    /\ quit' = TRUE
    /\ UNCHANGED <<loopPc, batch, pendingFunctors, functors, posting, readable,
                   rdlist, queued, ran>>

----------------------------------------------------------------------------
\* The loop thread; it does nothing else while it is inside queueInLoop

LoopFree == Loop \notin posting

\* while (!quit_)
Check ==
    /\ loopPc = "check"
    /\ loopPc' = IF quit THEN "returned" ELSE "wait"
    /\ UNCHANGED <<quit, batch, pendingFunctors, functors, posting, readable,
                   rdlist, queued, ran>>

\* epoll_wait takes at most MaxEvents readable descriptors off the front of
\* the ready list and drops those no longer readable; it returns when it has one.
Harvest ==
    /\ loopPc = "wait"
    /\ \E n \in 1..Len(rdlist) :
        LET got == {rdlist[i] : i \in 1..n} \cap readable
        IN  /\ Cardinality(got) <= MaxEvents
            /\ n = Len(rdlist) \/ Cardinality(got) = MaxEvents
            /\ batch' = got
            /\ rdlist' = SubSeq(rdlist, n + 1, Len(rdlist))
            /\ loopPc' = IF got = {} THEN "wait" ELSE "dispatch"
    /\ UNCHANGED <<quit, pendingFunctors, functors, posting, readable, queued,
                   ran>>

\* epoll_wait fails (a signal, while nothing is reportable): log and continue,
\* without doPendingFunctors.
WaitError ==
    /\ loopPc = "wait"
    /\ Elems(rdlist) \cap readable = {}
    /\ loopPc' = "check"
    /\ UNCHANGED <<quit, batch, pendingFunctors, functors, posting, readable,
                   rdlist, queued, ran>>

\* Mutant: the dispatch loop handles one event and forgets the others.
HandleFirstEventOnly(fd) ==
    /\ loopPc = "dispatch"
    /\ LoopFree
    /\ fd \in batch
    /\ readable' = readable \ {fd}
    /\ batch' = {}
    /\ loopPc' = "swap"
    /\ UNCHANGED <<quit, pendingFunctors, functors, posting, rdlist, queued, ran>>

\* Mutant: after the wakeup event the loop continues without doPendingFunctors.
HandleEventNoFunctors(fd) ==
    /\ loopPc = "dispatch"
    /\ LoopFree
    /\ fd \in batch
    /\ readable' = readable \ {fd}
    /\ batch' = batch \ {fd}
    /\ loopPc' = IF batch' # {} THEN "dispatch"
                 ELSE IF fd = WakeupFd THEN "check" ELSE "swap"
    /\ UNCHANGED <<quit, pendingFunctors, functors, posting, rdlist, queued, ran>>

\* The handler of one active channel returns: handleWakeup reads the eventfd
\* counter to zero, an I/O handler reads its socket until EAGAIN.
HandleEvent(fd) ==
    /\ loopPc = "dispatch"
    /\ LoopFree
    /\ fd \in batch
    /\ readable' = readable \ {fd}
    /\ batch' = batch \ {fd}
    /\ loopPc' = IF batch' = {} THEN "swap" ELSE "dispatch"
    /\ UNCHANGED <<quit, pendingFunctors, functors, posting, rdlist, queued, ran>>

\* Mutant: doPendingFunctors copies the tasks instead of swapping them out.
SwapCopies ==
    /\ loopPc = "swap"
    /\ functors' = pendingFunctors
    /\ loopPc' = "run"
    /\ UNCHANGED <<quit, batch, pendingFunctors, posting, readable, rdlist,
                   queued, ran>>

\* doPendingFunctors: the swap under the lock.
Swap ==
    /\ loopPc = "swap"
    /\ functors' = pendingFunctors
    /\ pendingFunctors' = <<>>
    /\ loopPc' = "run"
    /\ UNCHANGED <<quit, batch, posting, readable, rdlist, queued, ran>>

\* doPendingFunctors: the functor at the front returns.
RunFunctor ==
    /\ loopPc = "run"
    /\ LoopFree
    /\ functors # <<>>
    /\ ran' = Append(ran, Head(functors))
    /\ functors' = Tail(functors)
    /\ UNCHANGED <<quit, loopPc, batch, pendingFunctors, posting, readable,
                   rdlist, queued>>

\* All functors have run: back to the loop condition.
EndFunctors ==
    /\ loopPc = "run"
    /\ functors = <<>>
    /\ loopPc' = "check"
    /\ UNCHANGED <<quit, batch, pendingFunctors, functors, posting, readable,
                   rdlist, queued, ran>>

LoopStep ==
    \/ Check
    \/ Harvest
    \/ \E fd \in Fds : HandleEvent(fd)
    \/ Swap
    \/ RunFunctor
    \/ EndFunctors

Next ==
    \/ \E c \in Channels : Arrive(c)
    \/ \E p \in Callers, t \in Tasks : Push(p, t)
    \/ \E p \in Callers : Wakeup(p)
    \/ Quit
    \/ WaitError
    \/ LoopStep

Spec == Init /\ [][Next]_vars

\* The scheduler runs every thread, and callbacks return.
Fairness ==
    /\ WF_vars(LoopStep)
    /\ \A p \in Callers : WF_vars(Wakeup(p))

FairSpec == Spec /\ Fairness

----------------------------------------------------------------------------
\* Properties

\* No lost wakeup: when the loop sits in epoll_wait while tasks are waiting
\* and no caller still owes its write to the eventfd, the eventfd is on the
\* ready list and readable, so the wait ends (queueInLoop, loop).
NoLostWakeup ==
    loopPc = "wait" /\ pendingFunctors # <<>> /\ posting = {}
        => WakeupFd \in readable /\ WakeupFd \in Elems(rdlist)

\* The same for the edge-triggered sockets: a readable descriptor is never
\* stranded off the ready list while the loop waits (loop, enableReading).
NoLostEdge ==
    loopPc = "wait" => readable \subseteq Elems(rdlist)

\* The inductive core of the two properties above: outside the stretch from
\* epoll_wait's return to the swap, a waiting task means a caller on its way to
\* the bell or a bell already rung; and a readable descriptor is on the ready
\* list or among the events about to be dispatched.
WakeupInv ==
    /\ pendingFunctors # <<>> /\ loopPc \notin {"dispatch", "swap"}
        => posting # {} \/ WakeupFd \in readable
    /\ readable \subseteq Elems(rdlist) \cup batch

\* The loop runs the queued tasks exactly in the order they were pushed,
\* across threads and across the swap of doPendingFunctors.
TasksInOrder == queued = ran \o functors \o pendingFunctors

\* Seen from its callers, the loop is a first-in first-out task queue.
Queue == INSTANCE TaskQueue WITH accepted <- queued, executed <- ran
IsTaskQueue == Queue!Spec

\* Every queued task eventually runs, unless the loop is told to quit.
TaskRuns ==
    \A t \in Tasks : t \in Elems(pendingFunctors) ~> (t \in Elems(ran) \/ quit)
============================================================================

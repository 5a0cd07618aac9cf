-------------------------- MODULE EventLoopThread --------------------------
(***************************************************************************)
(* MyRPC::EventLoopThread: the thread that owns one EventLoop, from        *)
(* startLoop() to the join in the destructor.  Its owner is the            *)
(* EventLoopThreadPool; the loop itself is the module EventLoop, whose     *)
(* state it shares.                                                        *)
(***************************************************************************)
EXTENDS EventLoop

VARIABLES
    owner,    \* the thread that owns the object: "idle", in startLoop's wait,
              \* using the returned pointer, in the destructor's join, gone
    thread,   \* threadFunc: "none", building the loop, in loop.loop(),
              \* loop returned and loop_ reset, finished
    loopPtr   \* loop_ # nullptr

threadVars == <<owner, thread, loopPtr>>
allVars == <<vars, threadVars>>

ThreadTypeOK ==
    /\ owner \in {"idle", "starting", "using", "joining", "destroyed"}
    /\ thread \in {"none", "building", "looping", "leaving", "finished"}
    /\ loopPtr \in BOOLEAN

ThreadInit ==
    /\ Init
    /\ owner = "idle"
    /\ thread = "none"
    /\ loopPtr = FALSE

----------------------------------------------------------------------------
\* The owner

\* startLoop(): spawn the thread, then wait on cond_ for loop_.
StartLoop ==
    /\ owner = "idle"
    /\ owner' = "starting"
    /\ thread' = "building"
    /\ UNCHANGED <<vars, loopPtr>>

\* Mutant: cond_.wait without its predicate may return early.
StartLoopReturnsEarly ==
    /\ owner = "starting"
    /\ owner' = "using"
    /\ UNCHANGED <<vars, thread, loopPtr>>

\* cond_.wait's predicate holds: startLoop() returns the pointer.
StartLoopReturns ==
    /\ owner = "starting"
    /\ loopPtr
    /\ owner' = "using"
    /\ UNCHANGED <<vars, thread, loopPtr>>

\* Mutant: the destructor joins without telling the loop to quit.
DestructWithoutQuit ==
    /\ owner \in {"idle", "using"}
    /\ posting \cap Threads = {}
    /\ owner' = "joining"
    /\ UNCHANGED <<vars, thread, loopPtr>>

\* The destructor, up to thread_.join(); the owner calls it when no other
\* thread is inside the loop's methods any more.
Destruct ==
    /\ owner \in {"idle", "using"}
    /\ posting \cap Threads = {}
    /\ owner' = "joining"
    /\ quit' = (quit \/ loopPtr)
    /\ UNCHANGED <<loopPc, batch, pendingFunctors, functors, posting, readable,
                   rdlist, queued, ran, thread, loopPtr>>

\* The join returns, or there was no thread to join.
Join ==
    /\ owner = "joining"
    /\ thread \in {"none", "finished"}
    /\ owner' = "destroyed"
    /\ UNCHANGED <<vars, thread, loopPtr>>

----------------------------------------------------------------------------
\* threadFunc

\* The loop is built; loop_ is published under the mutex.
Publish ==
    /\ thread = "building"
    /\ thread' = "looping"
    /\ loopPtr' = TRUE
    /\ UNCHANGED <<vars, owner>>

\* loop.loop() has returned: loop_ is reset under the mutex.
Unpublish ==
    /\ thread = "looping"
    /\ loopPc = "returned"
    /\ thread' = "leaving"
    /\ loopPtr' = FALSE
    /\ UNCHANGED <<vars, owner>>

\* The EventLoop on the thread's stack is destroyed; the thread ends.
Finish ==
    /\ thread = "leaving"
    /\ thread' = "finished"
    /\ UNCHANGED <<vars, owner, loopPtr>>

----------------------------------------------------------------------------
\* The loop, while the thread is inside loop.loop(), and its callers, which
\* have the pointer once startLoop() has returned it.

LoopRuns ==
    /\ thread = "looping"
    /\ LoopStep
    /\ UNCHANGED threadVars

LoopInterrupted ==
    /\ thread = "looping"
    /\ WaitError
    /\ UNCHANGED threadVars

SocketReady ==
    /\ thread = "looping"
    /\ \E c \in Channels : Arrive(c)
    /\ UNCHANGED threadVars

MayCall(p) == IF p = Loop THEN thread = "looping" ELSE owner = "using"

QueueInLoop ==
    /\ \E p \in Callers, t \in Tasks : MayCall(p) /\ Push(p, t)
    /\ UNCHANGED threadVars

RingBell(p) ==
    /\ Wakeup(p)
    /\ UNCHANGED threadVars

ThreadNext ==
    \/ StartLoop
    \/ StartLoopReturns
    \/ Destruct
    \/ Join
    \/ Publish
    \/ Unpublish
    \/ Finish
    \/ LoopRuns
    \/ LoopInterrupted
    \/ SocketReady
    \/ QueueInLoop
    \/ \E p \in Callers : RingBell(p)

ThreadSpec == ThreadInit /\ [][ThreadNext]_allVars

\* Threads are scheduled, callbacks return, and a satisfied wait or join ends.
\* Nothing obliges the owner to start or to destroy the object.
ThreadFairness ==
    /\ WF_allVars(StartLoopReturns)
    /\ WF_allVars(Join)
    /\ WF_allVars(Publish)
    /\ WF_allVars(Unpublish)
    /\ WF_allVars(Finish)
    /\ WF_allVars(LoopRuns)
    /\ \A p \in Callers : WF_allVars(RingBell(p))

FairThreadSpec == ThreadSpec /\ ThreadFairness

----------------------------------------------------------------------------
\* Properties

\* The pointer startLoop() hands out stays valid until the owner destroys the
\* object: the loop neither ends nor resets loop_ behind the callers' back
\* (the comment on loops_ in EventLoopThreadPool relies on it).
PointerValidWhileUsed == owner = "using" => thread = "looping" /\ loopPtr

\* A destructor that starts while the loop is not blocked in epoll_wait, even
\* before the loop's first iteration, gets its thread back.
DestructorReturnsIfAwake ==
    owner = "joining" /\ loopPc # "wait" ~> owner = "destroyed"

\* What EventLoopThreadPool promises of its destructor: every EventLoopThread
\* it manages is destroyed.
DestructorReturns == owner = "joining" ~> owner = "destroyed"
============================================================================

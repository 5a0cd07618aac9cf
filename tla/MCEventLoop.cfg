\* One loop thread, two other callers, three tasks, two sockets and the eventfd,
\* epoll_wait returning at most two events at a time.
CONSTANTS
    Threads = {p1, p2}
    Loop = loop
    Tasks = {t1, t2, t3}
    Channels = {c1, c2}
    WakeupFd = bell
    MaxEvents = 2
SPECIFICATION FairThreadSpec
INVARIANTS
    NoLostWakeup
    NoLostEdge
    PointerValidWhileUsed
PROPERTIES
    IsTaskQueue
    TaskRuns
    DestructorReturnsIfAwake
CHECK_DEADLOCK FALSE

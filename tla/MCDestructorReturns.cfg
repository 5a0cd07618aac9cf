\* The smallest instance that shows it: one caller, one task, one socket.
CONSTANTS
    Threads = {p1}
    Loop = loop
    Tasks = {t1}
    Channels = {c1}
    WakeupFd = bell
    MaxEvents = 1
SPECIFICATION FairThreadSpec
PROPERTY DestructorReturns
CHECK_DEADLOCK FALSE

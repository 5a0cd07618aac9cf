\* One thread and two lines are enough.
CONSTANTS
    Capacity = 2
    MaxBacklog = 2
    Kept = 2
    MaxLines = 2
    Threads = {t1}
SPECIFICATION LoggerSpec
INVARIANT StopFlushes
CHECK_DEADLOCK FALSE

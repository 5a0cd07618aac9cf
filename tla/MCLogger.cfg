\* Two threads; buffers of one line; a round of more than three buffers is cut to
\* two.
CONSTANTS
    Capacity = 1
    MaxBacklog = 3
    Kept = 2
    MaxLines = 5
    Threads = {t1, t2}
SPECIFICATION LoggerFairSpec
INVARIANTS
    LinesAccountedFor
    SparesNeverRunOut
    LineKept
PROPERTIES
    DropsOnlyUnderLoad
    LineWritten
    DestroyReturns
CHECK_DEADLOCK FALSE

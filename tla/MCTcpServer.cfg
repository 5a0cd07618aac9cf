\* Two clients that connect at any time, one request each; zero or one I/O
\* thread.
CONSTANTS
    Base = base
    io = io
    IoLoops <- MCIoLoops
    MaxConns = 2
    MaxRequests = 1
SPECIFICATION FairSpec
INVARIANTS
    RefsCountOwners
    NoUseAfterDelete
    DeletePostedOnce
    ClosedOnce
    NobodyLeftWaiting
    OutputArmed
PROPERTY
    ClosingIsFreed
CHECK_DEADLOCK FALSE

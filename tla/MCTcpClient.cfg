\* Three calls of connect(), four sockets, two messages.
CONSTANTS
    MaxConnects = 3
    MaxAttempts = 4
    MaxSends = 2
SPECIFICATION FairSpec
INVARIANTS
    SocketsOwned
    DeletedUnreferenced
    ChannelOutlivesEvent
    RetriesConserved
    KeepsTrying
    ConnectionUsable
PROPERTIES
    StoppedStaysStopped
    ClosingIsFreed
CHECK_DEADLOCK FALSE

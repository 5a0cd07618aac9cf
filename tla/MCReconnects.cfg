\* One call of connect() and two sockets are enough to lose a connection.
CONSTANTS
    MaxConnects = 1
    MaxAttempts = 2
    MaxSends = 0
SPECIFICATION FairSpec
PROPERTY Reconnects
CHECK_DEADLOCK FALSE

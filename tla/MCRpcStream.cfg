\* Three frames of three bytes, or of four, which is too large, that arrive in
\* pieces and are read three bytes at a time into a buffer of three and a reserve
\* of one.
CONSTANTS
    Bytes <- MCBytes
    Zero <- MCZero
    CheapPrepend = 1
    InitialSize = 3
    HeaderSize = 2
    MaxPayload = 1
    ChunkSize = 3
    Payloads = {1, 2}
    MaxFrames = 3
SPECIFICATION StreamFairSpec
INVARIANTS
    NothingScrambled
    FramesInOrder
    NoFrameStranded
PROPERTIES
    GrowsOnlyWhenFull
    FrameDelivered
CHECK_DEADLOCK FALSE

\* Up to five bytes in pieces of one and two, in a buffer that starts with room
\* for two behind a reserve of one, read with an array of two.
CONSTANTS
    Bytes = {0, 1, 2}
    Zero = 0
    CheapPrepend = 1
    InitialSize = 2
    Pieces <- MCPieces
    Targets <- MCTargets
    ExtraSize = 2
    MaxBytes = 5
SPECIFICATION Spec
PROPERTIES
    IsByteQueue

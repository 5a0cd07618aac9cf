\* Two clients, whose channels use the same sequence ids, and one worker;
\* the ids wrap around.
CONSTANTS
    a = a
    b = b
    c1 = c1
    c2 = c2
    c3 = c3
    c4 = c4
    None = None
    Clients = {a, b}
    Calls = {c1, c2, c3, c4}
    ClientOf <- MCClientOf
    KindOf <- MCKindOf
    Workers = {w1}
    SeqSpace = 2
SPECIFICATION FairSpec
PROPERTY NetworkFailureReported
CHECK_DEADLOCK FALSE

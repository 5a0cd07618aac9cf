\* Three timers that expire at once, soon or later; two ticks per microsecond.
CONSTANTS
    Timers = {t1, t2, t3}
    Timeouts = {0, 1, 4}
    Grain = 2
    MaxLate = 1
    MaxTime = 5
SPECIFICATION FairSpec
INVARIANTS
    NeverOversleeps
PROPERTIES
    RunsWhenDue
    TimerFires
CHECK_DEADLOCK FALSE

\* Deadlock is not checked: the counter stops at the bound MaxWraps.
SPECIFICATION ClockSpec
CONSTANTS
    W = 16
    Ms = 3
    Period = 4
    MaxGap = 15
    MaxTick = 7
    MaxWraps = 6
    Delays = {0, 1, 5, 13}
INVARIANTS
    TimeIsExact
PROPERTY
    DelayIsFull
CHECK_DEADLOCK FALSE

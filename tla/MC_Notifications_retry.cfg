\* Spec section 8 debounce against a notify whose database call fails and
\* is retried within the interval.
CONSTANTS
    Procs = {p1}
    Keys = {k1}
    Intervals <- MCIntervals
    NoInterval = NoInterval
    NotCached = NotCached
    NoLock = NoLock
    MaxCalls = 2
    MaxTime = 2
    MaxEpoch = 0
    CanFail = TRUE
    LevelOf <- MCLevelOf

SPECIFICATION Spec

INVARIANT SuppressionJustified

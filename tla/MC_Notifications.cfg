\* Notification ledger: counter bound and debounce spacing, with database
\* errors and a process restart.
CONSTANTS
    Procs = {p1, p2}
    Keys = {k1}
    Intervals <- MCIntervals
    NoInterval = NoInterval
    NotCached = NotCached
    NoLock = NoLock
    MaxCalls = 3
    MaxTime = 2
    MaxEpoch = 1
    CanFail = TRUE
    LevelOf <- MCLevelOf

SPECIFICATION Spec
SYMMETRY MCSymmetry

INVARIANT TypeOK
INVARIANT CounterNeverOverstates
INVARIANT DebounceSpacing

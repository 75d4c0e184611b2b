\* Spec invariant 4 (unread counter = rows inserted since the last reset)
\* against concurrent notify and list calls, with no database errors and no
\* restart, so that only the interleaving can break it.
CONSTANTS
    Procs = {p1, p2}
    Keys = {k1}
    Intervals <- MCIntervals
    NoInterval = NoInterval
    NotCached = NotCached
    NoLock = NoLock
    MaxCalls = 2
    MaxTime = 0
    MaxEpoch = 0
    CanFail = FALSE
    LevelOf <- MCLevelOf

SPECIFICATION Spec
SYMMETRY MCSymmetry

INVARIANT CounterMatchesInserted

CONSTANTS
    Procs = {p1, p2}
    Passwords = {w1, w2}
    DefaultPassword = DefaultPassword
    NoPassword = NoPassword
    SessionIds = {s1, s2, s3, s4}
    NoCookie = NoCookie
    MaxCalls = 4
    MaxCrash = 1
    CanFail = TRUE
CHECK_DEADLOCK FALSE
SPECIFICATION Spec
SYMMETRY MCSymmetry
PROPERTY OkResetInstallsNewPassword

\* Three writes and two crashes: a crash can strike a write after another
\* crash left its temporary file behind.
CONSTANTS
    MaxGen = 3
    MaxCrash = 2
    None = None
    Torn = Torn
SPECIFICATION Spec
PROPERTY AtomicFileRefines
CHECK_DEADLOCK FALSE

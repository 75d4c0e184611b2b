\* Backup orchestrator: an Ok create is complete, restore applies
\* the envelope, under step failures and a crash.
CONSTANTS
    Urls = {u1, u2}
    NoUrl = NoUrl
    Versions = {v1, v2}
    NoFile = NoFile
    Torn = Torn
    MaxGen = 3
    MaxTime = 2
    MaxCrash = 1

SPECIFICATION Spec
SYMMETRY MCSymmetry

PROPERTY CreateOkIsComplete
PROPERTY RestoreWritesOnlyMetadataUrl
PROPERTY RestoreOkApplied

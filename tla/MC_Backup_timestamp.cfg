\* Spec invariant 2 (envelope timestamp = instant the create procedure succeeded).
CONSTANTS
    Urls = {u1, u2}
    NoUrl = NoUrl
    Versions = {v1}
    NoFile = NoFile
    Torn = Torn
    MaxGen = 2
    MaxTime = 1
    MaxCrash = 0

SPECIFICATION Spec
SYMMETRY MCSymmetry

INVARIANT MetadataTimestampIsProcSuccess

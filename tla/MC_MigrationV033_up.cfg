CONSTANTS
    Ids = {i1, i2}
    Names = {n1, n2}
    Absent = Absent
    Bases <- MCBases
    RegistryBase <- MCRegistry
    DefaultMarketplace <- MCRegistry
SPECIFICATION Spec
CHECK_DEADLOCK FALSE
INVARIANT UpCarriesSelection

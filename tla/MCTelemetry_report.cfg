SPECIFICATION Spec
CONSTANTS
    Width = 3
    MaxCon = 2
    MaxReports = 2
    MaxChunks = 4
    MaxFaults = 2
INVARIANTS
    TypeOK
    ForwardsWhole
    Resynchronises
    StoresFaithfully
CHECK_DEADLOCK FALSE

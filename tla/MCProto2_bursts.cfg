SPECIFICATION MCSpec
CONSTANTS
    Offered <- TwoCommands
    FREQUENCY = 2
    MaxSend = 6
INVARIANTS
    TypeOK
    OnlySentCommands
    ThreeFit
    ReportsInTime
PROPERTIES
    LoneCommandActs

SPECIFICATION FairSpec
CONSTANTS
    p1 = p1
    p2 = p2
    Pusher = {p1, p2}
    Offered <- Kinds
    Batch <- TwoBatches
    Hours = {11, 13}
    MTime = 2
    MaxPush = 3
    MaxFails = 1
INVARIANTS
    TypeOK
    AtMostOneStale
    StopIsComing
    LightFieldIsRight
PROPERTIES
    CallsEnd
    MotorStops
    AutoLightGoesOff

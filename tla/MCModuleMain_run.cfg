SPECIFICATION Spec
CONSTANTS
    p1 = p1
    p2 = p2
    Pusher = {p1, p2}
    Offered <- Starts
    Batch <- OneBatch
    Hours = {13}
    MTime = 3
    MaxPush = 2
    MaxFails = 0
PROPERTIES
    RunLastsMTime

SPECIFICATION MCSpec
CONSTANTS
    Pictures <- ThreePictures
    BUFFER_SIZE = 9
    MaxSent = 2
    MaxBreaks = 1
    MaxCuts = 1
    MaxRefused = 1
    ringbuffer_size = 1
    ringbuffer_exceed = 1
    HEADROOM = 1
    OldFiles <- Left
    MaxTakes = 1
    MaxClock = 2
    MaxFails = 1
INVARIANTS
    TypeOK
    ExtractsPictures
    RingIsBounded
    RingKeepsNewest
    
    RecordsFresh
CHECK_DEADLOCK FALSE
PROPERTIES
    PictureArrives
    Reconnects

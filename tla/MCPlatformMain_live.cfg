SPECIFICATION FairSpec
CONSTANTS
    s1 = s1
    s2 = s2
    Session = {s1, s2}
    Offered <- OneToggle
    MaxRequests = 2
    MaxFaults = 1
PROPERTIES
    EveryRequestEnds

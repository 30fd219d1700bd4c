SPECIFICATION Spec
CONSTANTS
    s1 = s1
    s2 = s2
    Session = {s1, s2}
    Offered <- OneToggle
    MaxRequests = 1
    MaxFaults = 0
PROPERTIES
    FailureIsReported

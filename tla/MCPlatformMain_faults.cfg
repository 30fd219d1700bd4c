SPECIFICATION Spec
CONSTANTS
    s1 = s1
    s2 = s2
    Session = {s1, s2}
    Offered <- MCOffered
    MaxRequests = 2
    MaxFaults = 2
SYMMETRY Symmetry
INVARIANTS
    TypeOK
    OnlyRivalsLeak
    HonestWhenClean
    InOrderUnlessAbandoned
    ToggleParity

SPECIFICATION Spec
CONSTANTS
    Phone = {p1, p2}
    Panel = {"LIGHT"}
    MaxClicks = 3
    MaxFaults = 0
INVARIANT AutoColumnTellsMode

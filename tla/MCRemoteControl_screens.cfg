SPECIFICATION Spec
CONSTANTS
    Phone = {p1, p2}
    Panel = {"LIGHT", "MOTOR"}
    MaxClicks = 4
    MaxFaults = 1
SYMMETRY Apps
INVARIANTS TypeOK SwitchDisabledInAuto ScreenAgrees AutoClaimIsTrue

SPECIFICATION Spec
CONSTANTS
    Boxes = {b1}
    NoPkg = NoPkg
    NoBox = NoBox
    Fresh = 1
    MaxFaults = 0
    TTL = 3
    MaxTime = 2
    LastDrop = 0
    MaxReadings = 1
    Packages = {p1}
    Grace = 1
PROPERTY ClaimSeesNoItem
CHECK_DEADLOCK FALSE

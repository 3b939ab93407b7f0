SPECIFICATION Spec
CONSTANTS
    Boxes = {b1}
    Packages = {p1, p2}
    NoPkg = NoPkg
    NoBox = NoBox
    Grace = 1
    TTL = 1
    Fresh = 1
    MaxTime = 2
    LastDrop = 1
    MaxReadings = 1
    MaxFaults = 1
SYMMETRY Symmetry
INVARIANTS TypeOK OneStoredPerBox OwnedBoxIsOccupied OccupiedBoxHasOwner DocumentsAgree
PROPERTIES ConfirmedOnNewestReading CancelledOnlyWhenEmpty ImplementsBoxStay
CHECK_DEADLOCK FALSE

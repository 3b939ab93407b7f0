SPECIFICATION StayFairSpec
CONSTANTS
    Boxes = {b1}
    Packages = {p1}
    NoPkg = NoPkg
    NoBox = NoBox
    Completions = {e1}
    Grace = 1
    TTL = 1
    Fresh = 1
    MaxTime = 3
    LastDrop = 1
    MaxReadings = 1
    MaxFaults = 1
PROPERTIES DepositIsSettled EndedStayFreesBox OnlyLatePaymentRevives
CHECK_DEADLOCK FALSE

SPECIFICATION Spec
CONSTANTS
    Requests = {r1, r2}
    Transfers = {t1, t2}
    Kinds = {"package", "subscription"}
    Fees = {1, 2}
    Amounts = {1}
    MaxOrders = 2
    MaxFaults = 1
SYMMETRY Symmetry
INVARIANTS TypeOK LedgerAgrees FeesAddUp
PROPERTIES OrderEndsOnce PickedUpIsFinal ImplementsOrderBook
CHECK_DEADLOCK FALSE

SPECIFICATION Spec
CONSTANTS
    Requests = {r1}
    Transfers = {t1}
    Kinds = {"package"}
    Fees = {1, 2}
    Amounts = {1}
    MaxOrders = 2
    MaxFaults = 0
INVARIANT TransferCountsOnce
CHECK_DEADLOCK FALSE

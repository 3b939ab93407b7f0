SPECIFICATION Spec
CONSTANTS
    Requests = {r1}
    Transfers = {t1}
    Kinds = {"package"}
    Fees = {1}
    Amounts = {1}
    MaxOrders = 1
    MaxFaults = 0
PROPERTY RestoresOnlyOverdue
CHECK_DEADLOCK FALSE

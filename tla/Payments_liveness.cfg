SPECIFICATION FairSpec
CONSTANTS
    Requests = {r1}
    Transfers = {t1}
    Kinds = {"package", "planOnPackage", "subscription"}
    Fees = {1, 2}
    Amounts = {1}
    MaxOrders = 2
    MaxFaults = 1
PROPERTIES CoveredOrderSettles PaidOrderIsFulfilled
CHECK_DEADLOCK FALSE

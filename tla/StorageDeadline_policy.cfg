SPECIFICATION Spec
CONSTANTS
    Packages = {p1}
    Limits = {1, 2}
    Admins = {b1}
    Jobs = {j1}
    Extension = 1
    WarnHours = 1
    MaxEvents = 1
    LastHour = 2
INVARIANT DeadlineFollowsPolicy
CHECK_DEADLOCK FALSE

SPECIFICATION BuildingSpec
CONSTANTS
    a1 = a1
    a2 = a2
    h1 = h1
    Issues = {c1, c2}
    BuildingAdmins = {a1, a2}
    SystemAdmins = {s1}
    Buildings = {h1, h2}
    HomeOf <- SharedHome
    Reporter = Reporter
    NoOne = NoOne
    MaxEntries = 4
    Users = {u1, u2}
    Events = {e1}
    Tokens = {t1, t2, t3}
    NoToken = NoToken
    BatchSize = 1
    Orders = {o1, o2}
    Calls = {c1, c2}
    PollAttempts = 2
    MaxLosses = 2
    Creators = {c1, c2}
    Handlers = {c1, c2}
    Unlockers = {r1}
    Timeout = 1
    Cooldown = 1
    MaxMessages = 3
    LastMoment = 2
    Packages = {p1}
    Limits = {1, 2}
    Admins = {b1}
    Jobs = {c1, c2}
    Extension = 1
    WarnHours = 1
    MaxEvents = 2
    LastHour = 4
    Policies <- SmallPolicies
    PaidPolicies <- PayingPolicies
    UnitsPerHour = 2
    ExtensionHours = 2
    Intents = {c1, c2}
    MaxOrders = 2
    MaxTime = 9
SYMMETRY Symmetry
INVARIANTS BuildingTypes FeeMatchesTable PlanNeverCostsMore NoFeePaidTwice HistoryFollowsTable AlertIsStored MailedOnce ProcessingHasACall LoggedPerDrop WarnedOnce ToldPerSpell
PROPERTIES WaitingIsNeverCheaper LiveTokenKept
CHECK_DEADLOCK FALSE

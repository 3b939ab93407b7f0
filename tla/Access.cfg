SPECIFICATION AccessSpec
CONSTANTS
    Parts = {"account", "phones", "shipper", "pickup"}
    Requests = {c1, c2}
    s1 = s1
    s2 = s2
    k1 = k1
    Secrets = {s1, s2}
    NoSecret = NoSecret
    Codes = {k1}
    BatchOf <- OneCode
    MaxEnds = 1
    Users = {p1, p2}
    Numbers = {n1, n2}
    NoNumber = NoNumber
    ResendInterval = 3
    SendWindow = 3
    MaxSends = 2
    OtpTtl = 2
    Delay = 1
    MaxVerifyAttempts = 2
    MaxCodes = 2
    MaxTime = 3
    ShipperInterval = 1
    ShipperWindow = 2
    ShipperSends = 1
    ShipperOtpTtl = 1
    MaxFailures = 2
    TokenTtl = 2
    ShipperTime = 2
    Packages = {g1}
    Pins = {p1, p2}
    NoPin = NoPin
    Camera = Camera
    Kiosk = Kiosk
    Window = 2
    Lock = 2
    ReissueCooldown = 1
    Horizon = 2
    Residents = {u1}
    Owner <- SoleOwner
SYMMETRY Symmetry
INVARIANTS AccessTypes ActiveSecretWasConfirmed GuessesBounded CodeChangesOnce SendsSpaced TriesBounded
PROPERTIES RevivedOnlyByEarlierRefresh LockHolds
CHECK_DEADLOCK FALSE

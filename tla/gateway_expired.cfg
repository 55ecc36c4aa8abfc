SPECIFICATION FairSpec
CONSTANTS
    r1 = r1
    r2 = r2
    tA = tA
    Reqs = {r1, r2}
    Tokens = {tA}
    PublicCerts = {}
    PublicKeys = {}
    Pinpads = {}
    PinTries = 2
    MaxAttempts = 2
    Window = 2
    TTL = 1
    MaxTime = 2
PROPERTIES
    ExpiredPinErased
CHECK_DEADLOCK FALSE

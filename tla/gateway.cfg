SPECIFICATION Spec
CONSTANTS
    r1 = r1
    r2 = r2
    r3 = r3
    tA = tA
    tB = tB
    Reqs = {r1, r2, r3}
    Tokens = {tA, tB}
    PublicCerts = {tB}
    PublicKeys = {tB}
    Pinpads = {}
    PinTries = 2
    MaxAttempts = 2
    Window = 2
    TTL = 1
    MaxTime = 2
SYMMETRY ReqSymmetry
INVARIANTS
    PinsConfined
    
    AttemptLostOnlyWithSession
    UncheckedSessionExplained
CHECK_DEADLOCK FALSE

SPECIFICATION Spec
CONSTANTS
    s1 = s1
    s2 = s2
    l1 = l1
    OpKey = OpKey
    Nothing = Nothing
    Syncs = {s1, s2}
    DevKey = {s2}
    Loads = {l1}
    Items <- MCItems
INVARIANTS
    TypeOK
    VerifiedStoreIsOneDownload
    VerifiedLoadIsSigned
    LoneSyncVerifies
CHECK_DEADLOCK FALSE

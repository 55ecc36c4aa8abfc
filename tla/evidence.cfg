SPECIFICATION Spec
CONSTANTS
    r1 = r1
    r2 = r2
    r3 = r3
    Reqs = {r1, r2, r3}
    Blobs = {"signer_cert", "validation"}
    NoReq = NoReq
    AllowDelete = TRUE
    MinRetention = 1
    MaxTime = 1
    MaxCrashes = 1
SYMMETRY ReqSymmetry
INVARIANTS
    TypeOK
    LedgerMatchesFiles
    
    QuietReportsAreTrue
PROPERTIES
    RetentionRespected
CHECK_DEADLOCK FALSE

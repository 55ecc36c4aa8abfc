SPECIFICATION Spec
CONSTANTS
    p1 = p1
    p2 = p2
    Procs = {p1, p2}
    Payloads = {"entry"}
    Hashes <- MCHashes
    Hash <- MCHash
    Genesis = 0
    NoProc = NoProc
    MaxAppends = 4
    MaxCrashes = 2
    MaxLosses = 1
INVARIANTS
    LedgerSound
    IssuesExplained
    
    
PROPERTIES
    AppendOnly
CHECK_DEADLOCK FALSE

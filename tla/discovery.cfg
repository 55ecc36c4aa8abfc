SPECIFICATION AggSpec
CONSTANTS
    native = native
    vendor = vendor
    proxy = proxy
    rebrand = rebrand
    spare = spare
    junk = junk
    nameNative = nameNative
    nameVendor = nameVendor
    linkVendor = linkVendor
    nameProxy = nameProxy
    nameSpare = nameSpare
    token1 = token1
    token2 = token2
    cert1 = cert1
    cert2 = cert2
    p1 = p1
    p2 = p2
    Procs <- MCProcs
    Uses <- MCUses
    Files <- MCFiles
    Names <- MCNames
    Real <- MCReal
    Slices <- MCSlices
    Health <- MCHealth
    Proxies = {proxy}
    Machines <- MCMachines
    Installed <- MCInstalled
    Software <- MCSoftware
    Configured <- MCConfigured
    IntelDocs <- MCIntelDocs
    Globbed <- MCGlobbed
    MaxProbe = 2
    Ttl = 0
    MaxTime = 1
    MaxChanges = 1
    Tokens <- MCTokens
    Certs <- MCCerts
    Shows <- MCShows
    Holds <- MCHolds
    Stores <- MCStores
INVARIANTS
    DiscTypeOK
    RecordsAreRight
    
    BestCopyOnce
ACTION_CONSTRAINT
    MCMergeAlone
CHECK_DEADLOCK FALSE

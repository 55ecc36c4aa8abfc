SPECIFICATION SignSpec
CONSTANTS
    Certs <- MCCerts
    Leaf = "leaf"
    Subject <- MCName
    Issuer <- MCIssuer
    Key <- MCKey
    SignedBy <- MCSignedBy
    Role <- MCRole
    MayIssue <- MCMayIssue
    PathLen <- MCPathLen
    MaxDepth = 3
    Stores <- MCStores
    Bare <- MCBare
    CrlAnswers <- MCCrlAnswers
    TokenMechs <- MCTokenMechs
    Appendices <- MCAppendices
    Keys <- MCKeys
INVARIANTS
    SignerTypeOK
    ValidIsJustified
    
    SignedAsAllowed
    
    RecordIsTrue
CHECK_DEADLOCK FALSE

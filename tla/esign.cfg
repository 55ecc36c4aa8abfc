SPECIFICATION EsignSpec
CONSTANTS
    c1 = c1
    c2 = c2
    Callers <- MCCallers
    Operations <- MCOperations
    Specs <- MCSpecs
    MaxAttempts = 2
    Base = 1
    Longest = 2
    Threshold = 2
    Reset = 1
INVARIANTS
    OutcomeIsHonest
    
PROPERTIES
    
    BreakerRecovers

SPECIFICATION EventsSpec
CONSTANTS
    a1 = a1
    a2 = a2
    b = b
    NoCard = "none"
    Readers <- MCReaders
    Cards <- MCCards
    Atr <- MCAtr
    MaxMoves = 2
    MaxTroubles = 2
PROPERTIES
    
    ComesToRest

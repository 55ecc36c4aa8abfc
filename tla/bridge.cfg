SPECIFICATION FairSpec
CONSTANTS
    Callers = {"c1", "c2"}
    Closers = {"closer"}
    NoCaller = "nobody"
    Modules = {"module"}
    NoModule = "none"
    MaxHelpers = 3
INVARIANTS
    AnswerIsMine
    NoOrphan
PROPERTIES
    ImplementsRemoteCall
    CallsReturn
CHECK_DEADLOCK FALSE

SPECIFICATION Spec
CONSTANTS
    Callers = {"c1"}
    Closers = {"closer"}
    NoCaller = "nobody"
    Modules = {"module"}
    NoModule = "none"
    MaxHelpers = 1
INVARIANTS
    HelperOpensModule
CHECK_DEADLOCK FALSE

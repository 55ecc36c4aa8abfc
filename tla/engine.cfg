SPECIFICATION FairSpec
CONSTANTS
    e1 = e1
    e2 = e2
    d1 = d1
    Nobody = Nobody
    Enums = {e1, e2}
    Directs = {d1}
    Order <- MCOrder
    Bridged = {"bridged"}
INVARIANTS
    BridgedHangContained
PROPERTIES
    CallsEnd
CHECK_DEADLOCK FALSE

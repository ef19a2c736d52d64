SPECIFICATION FairSpec
CONSTANTS
    Requests = {r1, r2}
    Plugs = {p1, p2}
    NoPlug = NoPlug
    MaxPlugs = 2
    Faults = {}
INVARIANT SingleAddIsKept
PROPERTIES
    RequestsEnd
    RemovalArrives

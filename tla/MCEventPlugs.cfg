SPECIFICATION Spec
CONSTANTS
    Requests = {r1, r2, r3}
    Plugs = {p1, p2}
    NoPlug = NoPlug
    MaxPlugs = 2
    Faults = {"db", "crash"}
SYMMETRY Symmetry
INVARIANTS
    OneRowPerPlug
PROPERTIES
    ImplementsMembership

SPECIFICATION Spec
CONSTANTS
    Requests = {r1, r2, r3}
    Plugs = {p1, p2}
    NoPlug = NoPlug
    Files = {f1, f2, f3}
    NoFile = NoFile
    MaxFiles = 3
    Faults = {"s3", "db", "crash"}
CHECK_DEADLOCK FALSE
SYMMETRY Symmetry
INVARIANTS
    OneLateFile
    OrphansAreAccounted
    RowHasObject

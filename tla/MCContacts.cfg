SPECIFICATION Spec
CONSTANTS
    Requests = {r1, r2}
    Plugs = {p1, p2}
    NoPlug = NoPlug
    Emails = {e1}
    NoEmail = NoEmail
    Files = {f1, f2, f3}
    NoFile = NoFile
    RecentLimit = 1
    MaxNamed = 1
    Mixes <- MCMixes
    Faults = {"s3", "db", "crash"}
CHECK_DEADLOCK FALSE
SYMMETRY Symmetry
INVARIANTS
    MissingPictureIsAccounted
    ListMissesNothing
    DashboardCountsEveryPlug
PROPERTIES
    EmailsCollideOnlyInRaces
    StaleReadsTakeNothingBack

SPECIFICATION FairSpec
CONSTANTS
    Requests = {r1, r2}
    Zones = {z1}
    Media = {m1, m2}
    NoZone = NoZone
    NoMedia = NoMedia
    MaxFiles = 2
    Faults = {"db"}
INVARIANTS
    OnlyBatchesLeaveOrphans
    DeletedIsGone
PROPERTY RequestsEnd

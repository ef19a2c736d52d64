SPECIFICATION Spec
CONSTANTS
    Requests = {r1, r2}
    Zones = {z1}
    Media = {m1, m2, m3}
    NoZone = NoZone
    NoMedia = NoMedia
    MaxFiles = 2
    Faults = {"s3", "db", "crash"}
SYMMETRY Symmetry
INVARIANTS
    LiveRowHasObject
    StoredIsCommitted
    RowHasZone
    ZoneLivesWithItsFiles
PROPERTIES
    ZoneBornWithFiles

SPECIFICATION FairSpec
CONSTANTS
    r1 = r1
    r2 = r2
    r3 = r3
    r4 = r4
    w1 = w1
    w2 = w2
    x = x
    y = y
    Requests = {r1, r2, r3, r4}
    Workers = {w1, w2}
    Home <- MCHome
    Rows = {x, y}
    NoOne = NoOne
    PoolSizes = {1, 2}
    Writes <- MCWrites
CHECK_DEADLOCK FALSE
PROPERTY
    RequestsEnd

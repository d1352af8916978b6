SPECIFICATION FairSpec
CONSTANTS
    Rest = {r1}
    Sse = {s1}
    PoolSize = 1
    Capacity = 1
    Chunk = 5
    Hop = 4
    Lengths = {0, 5, 9}
INVARIANTS
    TypeOK
    FileLifetime
    StreamComplete
PROPERTIES
    LeaseReturned
    RequestsEnd
CHECK_DEADLOCK FALSE

SPECIFICATION Spec
CONSTANTS
    Rest = {r1}
    Sse = {}
    PoolSize = 1
    Capacity = 1
    Chunk = 5
    Hop = 4
    Lengths = {0, 5, 9}
INVARIANT
    TempFileRemoved
CHECK_DEADLOCK FALSE

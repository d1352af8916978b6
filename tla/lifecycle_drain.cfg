SPECIFICATION FairLifeSpec
CONSTANTS
    Conns = {c1}
    PoolSize = 1
    Observed = {}
    MaxSession = 0
    Owners = {"main"}
    Uploading = {}
PROPERTY
    Drained
CHECK_DEADLOCK FALSE

SPECIFICATION Spec
CONSTANTS
    Conns = {c1}
    PoolSize = 1
    Observed = {}
    MaxSession = 0
INVARIANT
    ZeroDisablesCap
CHECK_DEADLOCK FALSE

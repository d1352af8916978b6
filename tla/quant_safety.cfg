SPECIFICATION Spec
CONSTANTS
    Weights = {w1, w2}
    Kinds = {"large", "small", "mismatch", "nodata"}
    NumNodes = 2
    Arity = 3
INVARIANTS
    Loadable
    SameComputation
CHECK_DEADLOCK FALSE

SPECIFICATION Spec
CONSTANTS
    Procs = {p1}
    Commands = {"full"}
    Damaged = {}
    MaxQuantized = 2
    None = None
INVARIANT
    QuantizedOnce
CHECK_DEADLOCK FALSE

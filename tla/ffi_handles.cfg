SPECIFICATION FfiSpec
CONSTANTS
    Actors = {h1, h2, h3}
    Sessions = {s1, s2}
    None = None
INVARIANTS
    NullOwnsNothing
    LoadedWhileUsed
PROPERTY
    RefusedOnlyWhenBusy
CHECK_DEADLOCK FALSE

SPECIFICATION Spec
CONSTANTS
    Procs = {p1, p2}
    Commands = {"plain", "full", "force"}
    Damaged = {"short"}
    MaxQuantized = 0
    None = None
INVARIANTS
    TypeOK
    LoadsRight
    CrashesHeal
PROPERTIES
    EncoderSurvives
    BackupIsFp32
CHECK_DEADLOCK FALSE

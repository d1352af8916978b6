SPECIFICATION FairLifeSpec
CONSTANTS
    Conns = {c1}
    PoolSize = 1
    Observed = {c1}
    MaxSession = 1
    Owners = {"main", "library", "helper"}
    Uploading = {r1}
INVARIANTS
    LifeTypeOK
    NoHoldAndWait
    ShutdownReportsSpeech
    ShutdownAnswersStop
PROPERTIES
    SessionEnds
    LeaseReturned
    ServerReturns
    NoOrphans
CHECK_DEADLOCK FALSE

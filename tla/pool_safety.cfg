SPECIFICATION FairSpec
CONSTANTS
    Actors = {a1, a2, a3, a4}
    Sessions = {s1, s2}
    None = None
INVARIANTS
    TypeOK
    PopNeverFails
    SessionConservation
    NoLostWakeup
PROPERTIES
    NoStarvation
    LeaseSpec

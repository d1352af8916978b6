SPECIFICATION FairSpec
CONSTANTS
    Frame = 2
    MinSpeech = 3
    MaxSegment = 11
    Pad = 3
    Partial = 5
    SilenceEnd = 3
    Chunks = {1, 4}
    MaxAudio = 15
    None = None
INVARIANTS
    TypeOK
    IndexOrder
    NoSpeechLost
    SegmentBounded
PROPERTIES
    SegmentsSpec
    CallsReturn

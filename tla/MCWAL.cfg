SPECIFICATION FairSpec
CONSTANTS
    w1 = w1
    w2 = w2
    Writers = {w1, w2}
    Torn = Torn
    SegmentSize = 2
    FsyncIntervalOps = 2
    MaxSegment = 2
    MaxOps = 3
    MaxCrashes = 1
INVARIANTS
    TypeOK
    SealedStable
    DurableNotLost
    CheckpointSound
    FastLossBounded
PROPERTY
    AppendReturns

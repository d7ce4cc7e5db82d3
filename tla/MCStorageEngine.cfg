SPECIFICATION Spec
CHECK_DEADLOCK FALSE
CONSTANTS
    c1 = c1
    Clients = {c1}
    Lifecycle = Lifecycle
    i1 = i1
    i2 = i2
    i3 = i3
    Ids = {i1, i2, i3}
    Misfits = {i3}
    HotMax = 1
    DrainMax = 1
    Watermark = 0
    Days = {1}
    Torn = Torn
    NoId = NoId
    Bounds <- MCBounds
SYMMETRY Symmetry
INVARIANTS
    TypeOK
    HotBounded
    NoSilentLoss
    IndexCovers
PROPERTY
    BatchesImmutable

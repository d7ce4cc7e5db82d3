SPECIFICATION Spec
CHECK_DEADLOCK FALSE
CONSTANTS
    c1 = c1
    c2 = c2
    Clients = {c1, c2}
    Lifecycle = Lifecycle
    i1 = i1
    i2 = i2
    Ids = {i1, i2}
    Misfits = {}
    HotMax = 2
    DrainMax = 1
    Watermark = 2
    Days = {1}
    Torn = Torn
    NoId = NoId
    Bounds <- MCClients
PROPERTY NewBatchFile

SPECIFICATION Spec
CONSTANTS
    p1 = p1
    r1 = r1
    Readers = {r1}
    Producers = {p1}
    HeadReaders = {r1}
    Echo = {}
    SaveMode = "SIZE"
    MaxSize = 0
    Sizes = {1}
    Wrap = 64
    MaxPush = 3
    MayClear = TRUE
PROPERTY ProtectedStep
CHECK_DEADLOCK FALSE

SPECIFICATION Spec
CONSTANTS
    p1 = p1
    r1 = r1
    Readers = {r1}
    Producers = {p1}
    HeadReaders = {r1}
    Echo = {r1}
    SaveMode = "SIZE"
    MaxSize = 2
    Sizes = {1, 2}
    Wrap = 16
    MaxPush = 4
    MayClear = FALSE
INVARIANTS ProtectedIsAlive CountedLength RetainBound
CHECK_DEADLOCK FALSE

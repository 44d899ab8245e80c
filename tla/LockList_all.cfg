SPECIFICATION FairSpec
CONSTANTS
    p1 = p1
    p2 = p2
    r1 = r1
    Readers = {r1}
    Producers = {p1, p2}
    HeadReaders = {r1}
    Echo = {}
    SaveMode = "ALL"
    MaxSize = 0
    Sizes = {1}
    Wrap = 64
    MaxPush = 3
    MayClear = FALSE
INVARIANTS RealtimeAfterHistory
PROPERTIES ImplementsLog PushReturns CloseReturns EventuallyDelivered

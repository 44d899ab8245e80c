SPECIFICATION MCSpec
CONSTANTS
    Parts = {"list", "dict", "text", "file", "bits", "stream"}
    Values = {"a", "b"}
    Small = 2
    Row = 1
    MaxLen = 4
    Piece = 6
    MinBuffer = 5
    Bodies = {1, 4, 12}
    Short = 4
    Cuts <- MCCuts
    Keys = {"a", "b", "c", "d"}
    Hash <- MCHash
    InitialSize = 1
    EmptyVisits = 2
    Names = {1, 2}
    SubKeys = {1}
    Cids = {1}
    Dates = {1, 2}
    BlockMax = 2
    InitSize = 1
    MaxPubs = 3
    MaxEvents = 2
INVARIANTS KeepsSequence DictFaithful ReadsWhole FileFaithful BatchesDecode SubscribersDecode LogDecodes
CHECK_DEADLOCK FALSE

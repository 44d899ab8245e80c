SPECIFICATION MCSpec
CONSTANTS
    Workers = {"a", "b"}
    InModes = {"once", "notice", "gaps"}
    PoolSize = 2
    Threads = {"x", "y", "z"}
    Writers = {"x"}
INVARIANTS WaitsAreOwn FreedAfterThread Exclusion
PROPERTIES NoticeWorks DestroyReturns WaitersGetIn AllReclaimed
CHECK_DEADLOCK FALSE

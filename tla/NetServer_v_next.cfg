SPECIFICATION NetFairSpec
CONSTANTS
    NumSlots = 1
    MaxConns = 2
    MaxFrames = 2
    Protocols = {"tcp"}
PROPERTIES NextIsHandled
CHECK_DEADLOCK FALSE

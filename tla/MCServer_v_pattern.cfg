SPECIFICATION MCSpec
CONSTANTS
    Parts = {"commands"}
    NumSlots = 2
    MaxConns = 2
    MaxFrames = 2
    Protocols = {"tcp", "ws"}
    Clients = {"c1", "c2"}
    SingleKeys = {"a"}
    TableKeys = {"a.t"}
    Patterns = {"*", "*.*", "a,b"}
    Covers <- MCCovers
    Commands <- MCCommands
    Auths = {FALSE}
    MaxMsgs = 3
    MaxGen <- MCMaxGen
    MaxQueue = 1
INVARIANTS OnlyAsked
CHECK_DEADLOCK FALSE

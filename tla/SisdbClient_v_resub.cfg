SPECIFICATION FairSpec
CONSTANTS
    Users = {"u1"}
    Keys = {"k"}
    MaxAsks = 1
    MaxConns = 2
    MaxPubs = 0
PROPERTIES Resubscribed
CHECK_DEADLOCK FALSE

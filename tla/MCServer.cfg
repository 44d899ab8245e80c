SPECIFICATION MCSpec
CONSTANTS
    Parts = {"commands", "net", "client"}
    NumSlots = 2
    MaxConns = 2
    MaxFrames = 2
    Protocols = {"tcp", "ws"}
    Clients = {"c1", "c2"}
    SingleKeys = {"a"}
    TableKeys = {"a.t"}
    Patterns = {"*", "*.*", "a,b"}
    Covers <- MCCovers
    Commands <- MCCommands
    Auths = {TRUE, FALSE}
    MaxMsgs = 3
    MaxGen <- MCMaxGen
    MaxQueue = 1
INVARIANTS AskedReceive LoggedAsRun RequestsWhole AnswersInOrder CallbacksPaired
PROPERTIES AnswersCome EveryRequestAnswered AsksReturn
CHECK_DEADLOCK FALSE

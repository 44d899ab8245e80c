SPECIFICATION MCSpec
CONSTANTS
    k1 = k1
    k2 = k2
    Keys = {k1, k2}
    Ops = {"set", "del"}
    Daily = FALSE
    Recursive = FALSE
    CrashIn = {"serve"}
    TornWrites = FALSE
    MaxOps = 4
    MaxCrash = 2
    Tables <- MCTables
    Times = {1, 3, 9}
    Rests = {"a", "b"}
    BatchLen = 2
    MaxRecs = 5
    Finders <- MCFinders
    Signed <- MCSigned
INVARIANTS Recovered LookupsExact KeysOrdered
PROPERTIES ImplementsStore WriteAhead SavesReplaceLog CommandsReturn DaysComplete
CHECK_DEADLOCK FALSE

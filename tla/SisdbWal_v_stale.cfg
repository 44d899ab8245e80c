SPECIFICATION Spec
CONSTANTS
    k1 = k1
    Keys = {k1}
    Ops = {"set", "save"}
    Daily = FALSE
    Recursive = FALSE
    CrashIn = {"serve"}
    TornWrites = FALSE
    MaxOps = 3
    MaxCrash = 1
INVARIANT Recovered
CHECK_DEADLOCK FALSE

SPECIFICATION FairSpec
CONSTANTS
    l1 = l1
    l2 = l2
    d1 = d1
    d2 = d2
    r1 = r1
    r2 = r2
    f1 = f1
    f2 = f2
    NoLogin = NoLogin
    Logins <- LoginsDef
    Devices <- DevicesDef
    Device <- DeviceDef
    Runs <- RunsDef
    Files <- FilesDef
INVARIANTS
    OneAnswered
    BarredLeavesNone
    ErasedIsGone
PROPERTIES
    ErasureCompletes
CHECK_DEADLOCK FALSE

SPECIFICATION FairSpec
CONSTANTS
    g1 = g1
    g2 = g2
    Executions <- ExecutionsDef
    MaxRetries = 3
INVARIANTS
    ArchiveIfCompleted
PROPERTIES
    CancelHonoured
    ExportEnds
CHECK_DEADLOCK FALSE

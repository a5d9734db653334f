SPECIFICATION Spec
CONSTANTS
    Assets = {a1}
    Projects = {p1, p2}
    Checkpoints = {s1, s2}
    Posts = {}
    Size <- UnitSize
    Quota = 1
    None = None
    MayDie = TRUE
SYMMETRY Symmetric
INVARIANTS
    TypeOK
    ReferencedReadable
    CheckpointReadable
PROPERTIES
    ImplementsRetention
CHECK_DEADLOCK FALSE

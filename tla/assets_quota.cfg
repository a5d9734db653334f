SPECIFICATION Spec
CONSTANTS
    Assets = {a1, a2}
    Projects = {p1}
    Checkpoints = {}
    Posts = {k1}
    Size <- UnitSize
    Quota = 1
    None = None
    MayDie = TRUE
SYMMETRY Symmetric
INVARIANTS
    PostReadable
    QuotaKept
CHECK_DEADLOCK FALSE

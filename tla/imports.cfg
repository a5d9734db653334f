SPECIFICATION Spec
CONSTANTS
    a1 = a1
    a2 = a2
    r1 = r1
    r2 = r2
    Assets <- AssetsDef
    Multipart <- MultipartDef
    Requests <- RequestsDef
    MaxKeys = 2
SYMMETRY Symmetry
INVARIANTS
    ReadyIsComplete
    AdoptedIsStored
PROPERTIES
    EndedIsFinal
CHECK_DEADLOCK FALSE

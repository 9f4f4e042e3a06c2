SPECIFICATION Spec
CONSTANTS
    Handles = {h1, h2}
    Cells = {c1, c2}
    MaxVersion = 0
    None = None
    CanGetAndSetFMUstate = TRUE
    CanSerializeFMUstate = TRUE
SYMMETRY Interchangeable
CONSTRAINT ExportsAlone
INVARIANT
    TypeOK
PROPERTY
    ProxyIsLikeLocal
CHECK_DEADLOCK FALSE

SPECIFICATION Spec
CONSTANTS
    Handles = {h1}
    Cells = {c1, c2}
    MaxVersion = 1
    None = None
    CanGetAndSetFMUstate = TRUE
    CanSerializeFMUstate = TRUE
INVARIANTS
    TypeOK
    FlagsNeverAhead
PROPERTIES
    StatesAreStored
CHECK_DEADLOCK FALSE

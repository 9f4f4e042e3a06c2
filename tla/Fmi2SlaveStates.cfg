SPECIFICATION Spec
CONSTANTS
    Handles = {h1, h2}
    Cells = {c1, c2, c3}
    MaxVersion = 1
    None = None
    CanGetAndSetFMUstate = TRUE
    CanSerializeFMUstate = FALSE
SYMMETRY Interchangeable
INVARIANTS
    NoIndexShared
    NoSlotLost
    HeldStatesLive
    FlagsFollowCalls
PROPERTIES
    StatesAreStored
CHECK_DEADLOCK FALSE

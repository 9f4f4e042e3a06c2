SPECIFICATION Spec
CONSTANTS
    Loads = {l}
    Slaves = {s}
    Names = {n}
    Faults = {}
INVARIANTS
    MissingFileThrows
CHECK_DEADLOCK FALSE

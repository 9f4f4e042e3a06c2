SPECIFICATION Spec
CONSTANTS
    Loads = {k, l}
    Slaves = {s, t}
    Names = {m, n}
    Faults = {"crash", "locked"}
SYMMETRY Interchangeable
INVARIANTS
    TypeOK
    FilesThere
    DirsOwned
    HandlesFreed
CHECK_DEADLOCK FALSE

SPECIFICATION Spec
CONSTANTS
    Refs = {0, 1}
    Names = {n}
    Values = {v}
    Times = {1}
    MaxVars = 3
    Versions = {1, 2}
    None = None
INVARIANT
    VariablesListed
CHECK_DEADLOCK FALSE

SPECIFICATION FairSpec
CONSTANTS
    Vars = {x, y}
    Values = {0, 1}
    Starts = {0, 1}
    Stops = {0, 2}
    MaxLen = 2
    None = None
    Versions = {1, 2}
    Faults = {"crash"}
PROPERTIES
    SlaveIsTransparent
    CallsEnd
INVARIANTS
    TypeOK
    StartsAsAsked
    OneMessage

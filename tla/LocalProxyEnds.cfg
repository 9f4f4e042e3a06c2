SPECIFICATION FairSpec
CONSTANTS
    Instances = {a, b}
    NoOne = NoOne
    Ports = {1}
    MaxPortRetries = 1
    Faults = {"launch", "crash", "fmu"}
PROPERTIES
    ConstructorEnds
    FreeInstanceEnds
CHECK_DEADLOCK FALSE

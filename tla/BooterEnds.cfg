SPECIFICATION FairSpec
CONSTANTS
    Instances = {a, b}
    NoOne = NoOne
    Ports = {1}
    MaxPortRetries = 1
    MaxRetries = 2
    Faults = {"client"}
INVARIANTS
    NoChildAbandoned
PROPERTIES
    ConstructorEnds
    ShutdownEnds
CHECK_DEADLOCK FALSE

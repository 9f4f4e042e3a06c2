SPECIFICATION Spec
CONSTANTS
    Instances = {a, b}
    NoOne = NoOne
    Ports = {1, 2}
    MaxPortRetries = 1
    MaxRetries = 1
    Faults = {"launch", "crash", "fmu", "client"}
SYMMETRY Interchangeable
CONSTRAINT FewFailures
INVARIANTS
    TypeOK
    OneLoadAtATime
    ToldPortIsListenedOn
    FmuFileThere
    UnboundLeavesNothing
    NoCallWithoutSlave
CHECK_DEADLOCK FALSE

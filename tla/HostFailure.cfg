SPECIFICATION Spec
CONSTANTS
    Instances = {a}
    NoOne = NoOne
    Ports = {1, 2}
    MaxPortRetries = 2
    Faults = {"fmu"}
INVARIANTS
    HostSurvives
CHECK_DEADLOCK FALSE

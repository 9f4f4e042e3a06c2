SPECIFICATION Spec
CONSTANTS
    Instances = {a, b}
    NoOne = NoOne
    Ports = {1, 2}
    MaxPortRetries = 2
    Faults = {"launch", "crash", "fmu"}
SYMMETRY Interchangeable
INVARIANTS
    TypeOK
    AnnouncedPortIsListenedOn
    NoLostWakeup
    ConnectedToOwnChild
    NoCallWithoutSlave
    SlavesAreKept
    NothingLeftBehind
    CleanExitLocksNoDeadMutex
    HostEndsOnlyByFault
CHECK_DEADLOCK FALSE

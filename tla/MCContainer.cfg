SPECIFICATION FairSpec
CONSTANTS
    Pids = {p1, p2}
    NoPid = NoPid
    ExitCodes = {3}
    NsKinds = 1
    MaxNamespaces = 2
    Readers = {r1}
INVARIANTS
    NoOrphanProcess
    
PROPERTIES
    StopEndsProcess
    StopRecordsExitCode
    ImplementsLifecycle
    OperationsReturn
    TransientPhasesEnd
CHECK_DEADLOCK FALSE

SPECIFICATION FairSpec
CONSTANTS
    Pids = {p1}
    Clients = {c1, c2}
    Monitor = Monitor
    NoThread = NoThread
    NoPid = NoPid
INVARIANTS
    NoLostProcess
    ExitReported
PROPERTIES
    StopEnds
    CallsReturn
    ExitNoticed
CHECK_DEADLOCK FALSE

SPECIFICATION Spec
CONSTANTS
    Pids = {p1}
    NoPid = NoPid
    ExitCodes = {3}
    NsKinds = 1
    MaxNamespaces = 1
    Readers = {}
PROPERTIES RestartCompletes
CHECK_DEADLOCK FALSE

SPECIFICATION FairMonitorSpec
CONSTANTS
    Groups = {g1, g2}
    Procs = {p1}
    Root = Root
    Clients = {c1}
    Monitor = Monitor
    NoThread = NoThread
    NoGroup = NoGroup
    MaxHistory = 1
INVARIANTS ThreadIffGroups
PROPERTIES OneThread MonitorCallsReturn Sampled
CHECK_DEADLOCK FALSE

SPECIFICATION FairSpec
CONSTANTS
    Threads = {t1, t2}
    NoThread = NoThread
    Files = {f1}
    Custom = Custom
    Levels = {0, 1}
    INFO = 1
    MaxSinks = 2
    MaxLogs = 2
INVARIANTS SameOrder SinkHasStream
PROPERTIES CallsReturn
CHECK_DEADLOCK FALSE

SPECIFICATION FairSpec
CONSTANTS
    Objs = {o1}
    Ids = {i1}
    Names = {n1}
    Threads = {t1, t2}
    NoThread = NoThread
    NoObj = NoObj
PROPERTIES CallsReturn
CHECK_DEADLOCK FALSE

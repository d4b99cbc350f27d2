SPECIFICATION Spec
CONSTANTS
    Objs = {o1, o2}
    Ids = {i1, i2}
    Names = {n1, n2}
    Threads = {t1, t2}
    NoThread = NoThread
    NoObj = NoObj
SYMMETRY RegistrySymmetry
INVARIANTS
    NamesResolve
    NoCrossDeadlock
PROPERTIES
    ContainersFollowLifecycle
CHECK_DEADLOCK FALSE

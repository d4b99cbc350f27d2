SPECIFICATION FairSpec
CONSTANTS
    Names = {a, b, c}
    MaxFiles = 1
INVARIANTS CycleIffThrow LoadOrder NothingLeftOut
PROPERTIES DependentsFirst CallsReturn
CHECK_DEADLOCK FALSE

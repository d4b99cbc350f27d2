SPECIFICATION ConfigSpec
CONSTANTS
    Callers = {t1, t2}
    NoCaller = NoCaller
    k1 = k1
    k2 = k2
    Keys = {k1, k2}
    Values = {1, 2}
    None = None
    Documents <- MCDocuments
    MaxLayers = 2
INVARIANTS
    MirrorFollows
    LoadedExactly
    EffectiveAgrees
CHECK_DEADLOCK FALSE

SPECIFICATION ManagerSpec
CONSTANTS
    Groups = {g1}
    Procs = {p1}
    Root = Root
    Order <- MCOrder
    Values <- MCValues
    Invalid = Invalid
    Unlimited = Unlimited
INVARIANTS LimitsInForce
CHECK_DEADLOCK FALSE

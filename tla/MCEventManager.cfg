SPECIFICATION Spec
CONSTANTS
    c1 = c1
    c2 = c2
    l1 = l1
    NoThread = NoThread
    Events <- MCEvents
    Types <- MCTypes
    TypeOf <- MCTypeOf
    PriorityOf <- MCPriorityOf
    ClientOf <- MCClientOf
    Clients <- MCClients
    Listeners <- MCListeners
    Pattern <- MCPattern
    MaxQueueSize = 2
    MaxBatchSize = 2
    Batchable = {"b"}
    Calls = {"unsubscribe", "enable again", "disable", "flush", "reset"}
INVARIANTS
    TypeOK
    Conservation
    OrderPreserved
    UnsubscribedIsSilent
PROPERTIES ResetSilences
CHECK_DEADLOCK FALSE

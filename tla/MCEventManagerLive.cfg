SPECIFICATION FairSpec
CONSTANTS
    c1 = c1
    c2 = c2
    l1 = l1
    NoThread = NoThread
    Events <- MCLiveEvents
    Types <- MCTypes
    TypeOf <- MCLiveTypeOf
    PriorityOf <- MCLivePriorityOf
    ClientOf <- MCLiveClientOf
    Clients <- MCClients
    Listeners <- MCListeners
    Pattern <- MCPattern
    MaxQueueSize = 2
    MaxBatchSize = 2
    Batchable = {"b"}
    Calls = {"flush", "reset"}
PROPERTIES
    OnlyFlushStrands
    EventuallyDelivered
    ResetReturns
CHECK_DEADLOCK FALSE

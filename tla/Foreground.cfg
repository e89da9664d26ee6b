CONSTANTS
    c1 = c1
    c2 = c2
    c3 = c3
    Holders <- MCHolders
    Components <- MCComponents
    Resolve <- MCResolve
    Unreadable <- MCUnreadable
    RequestPaths <- MCRequestPaths
    Items = {1, 2}
    Width = 2
    RpcSlots = 1
    RpcLimit = 2
SPECIFICATION PartsSpec
CHECK_DEADLOCK FALSE
INVARIANTS
    MutualExclusion
    QueueSound
    EvaluationContained
PROPERTIES
    EveryWaiterLeaves
    EvaluationReturns

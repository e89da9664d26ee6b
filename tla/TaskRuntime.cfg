CONSTANTS
    Parts = {"shared", "many", "terminal"}
    p1 = p1
    p2 = p2
    t1 = t1
    t2 = t2
    t3 = t3
    NoOwner = NoOwner
    Tasks <- ThreeTasks
    Owners <- TwoProcesses
    Workers = 2
    Unknown <- ThirdTask
    StoreFails = TRUE
    BgTasks = {1, 2}
    BgRuns = {3}
    InlineLimit = 1
    RetryLimit = 2
    MaxRefresh = 2
    MaxVisits = 1
INIT PartsInit
NEXT PartsNext
CHECK_DEADLOCK FALSE
INVARIANTS
    AtMostOnce
    RunsSound
    CancelReachesHandler
    FollowedWork
PROPERTY ImplementsLifecycle

CONSTANTS
    Parts = {"shared"}
    p1 = p1
    p2 = p2
    t1 = t1
    t2 = t2
    t3 = t3
    NoOwner = NoOwner
    Tasks <- OneTask
    Owners <- TwoProcesses
    Workers = 1
    Unknown <- NoTask
    StoreFails = FALSE
    BgTasks = {1, 2}
    BgRuns = {3}
    InlineLimit = 1
    RetryLimit = 2
    MaxRefresh = 2
    MaxVisits = 1
SPECIFICATION PartsFairSpec
PROPERTY EveryTaskEnds

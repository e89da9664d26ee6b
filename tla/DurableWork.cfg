INIT MCInit
NEXT MCNext
CONSTANTS
    Parts = {"agents", "workflow"}
    a1 = a1
    a2 = a2
    c1 = c1
    r1 = r1
    Tasks = {a1, a2, c1, r1}
    Owners = {o1, o2}
    NoOwner = none
    NoTask = notask
    Agents = {a1, a2, c1}
    Contracted = {c1}
    KeyOf <- MCKeyOf
    AgentWorkers = {w1, w2}
    Cancelers = {user, h1}
    AgentQueueSize = 1
    SessionConcurrency = 2
    MaxOutputAttempts = 2
    MaxFaults = 1
    Runs = {r1}
    Launches <- MCLaunches
    Hosts = {h1}
    RunQueueSize = 1
SYMMETRY Symmetry
CHECK_DEADLOCK FALSE
INVARIANTS
    AgentsAccounted
    CancelReachesRun
    TreeSettles
PROPERTY ClosedAdmitsNothing

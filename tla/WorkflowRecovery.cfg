INIT MCInit
NEXT MCNext
CONSTANTS
    Parts = {"all"}
    a1 = a1
    a2 = a2
    c1 = c1
    r1 = r1
    Tasks = {r1}
    Owners = {o1, o2}
    NoOwner = none
    NoTask = notask
    Agents = {}
    Contracted = {}
    KeyOf <- MCKeyOf
    AgentWorkers = {w1}
    Cancelers = {h1}
    AgentQueueSize = 1
    SessionConcurrency = 1
    MaxOutputAttempts = 1
    MaxFaults = 0
    Runs = {r1}
    Launches <- MCLaunches
    Hosts = {h1}
    RunQueueSize = 1
INVARIANT RecoveryEndsRuns
CHECK_DEADLOCK FALSE

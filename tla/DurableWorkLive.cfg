SPECIFICATION MCLiveSpec
CONSTANTS
    Parts = {"all"}
    a1 = a1
    a2 = a2
    c1 = c1
    r1 = r1
    Tasks = {c1, r1, r2}
    Owners = {o1}
    NoOwner = none
    NoTask = notask
    Agents = {c1}
    Contracted = {}
    KeyOf <- MCKeyOf
    AgentWorkers = {w1}
    Cancelers = {h1}
    AgentQueueSize = 1
    SessionConcurrency = 1
    MaxOutputAttempts = 1
    MaxFaults = 0
    Runs = {r1, r2}
    Launches <- MCLaunches
    Hosts = {h1}
    RunQueueSize = 1
CHECK_DEADLOCK FALSE
PROPERTY WorkSettles

CONSTANTS
    None = None
    NoPath = None
    Holders <- MCHolders
    Components <- MCComponents
    Resolve <- MCResolve
    Unreadable <- MCUnreadable
    Slots = 2
    MaxCalls = 3
    Batches <- DeadlockBatches
SPECIFICATION FairSpec
PROPERTY BatchCompletes

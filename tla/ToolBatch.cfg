CONSTANTS
    None = None
    NoPath = None
    Holders <- MCHolders
    Components <- MCComponents
    Resolve <- MCResolve
    Unreadable <- MCUnreadable
    Slots = 2
    MaxCalls = 3
    Batches <- AllBatches
SPECIFICATION FairSpec
INVARIANTS
    BatchSound
    InProcessOrder
PROPERTIES
    DetachIsFinal
    BatchReturns

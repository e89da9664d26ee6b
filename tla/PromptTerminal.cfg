CONSTANTS
    Parts = {"runtime", "terminal"}
    r1 = r1
    r2 = r2
    c1 = c1
    s1 = s1
    d1 = d1
    d2 = d2
    n1 = n1
    NoRun = NoRun
    NoSlot = NoSlot
    Runs <- TwoRuns
    SlashRuns <- SecondRun
    Compactions <- None
    Sessions <- OneSession
    Steers <- TwoSteers
    Notices <- OneNotice
    Capacity = 1
    MaxAttempts = 2
    MaxToolRounds = 1
    MaxTyped = 2
    MaxHidden = 1
    MaxRuns = 2
    EventSlots = 1
    MayLeave = FALSE
INIT PartsInit
NEXT PartsNext
SYMMETRY SteerSymmetry
CHECK_DEADLOCK FALSE
INVARIANTS
    SteersInOrder
    CheckpointsSound
    DraftsConserved
    ViewsSound

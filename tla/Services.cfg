CONSTANTS
    MaxDrafts = 3
    FlushBatch = 2
    EventBuffer = 1
    Starters = {s1, s2, s3}
    Waiters = {w1}
    NoLock = NoLock
    Work = {"k1", "k2", "k3", "k4"}
    OwnerOf <- OwnerOfWork
    ChildWork = {"k3"}
    Readers = {"r1", "r2"}
    SessionRows = 2
    GlobalRows = 2
    DrainLimit = 2
    RepairPage = 2
    WriteCalls = {"x1"}
    ReadCalls = {"y1"}
    Conns = {1, 2}
    NoConn = 0
    MaxAttempts = 2
    MaxEntries = 3
    EntryKinds = {"assistant", "toolResult", "compaction", "branch_summary"}
    CompactionOps = {"p1", "p2"}
    PageSize = 1
    MaxLog = 4
    ReplayLimit = 2
    LiveBuffer = 1
    MaxToolCalls = 3
    MaxTexts = 2
    RetryAttempts = 2
    MaxRounds = 2
    MaxBlocks = 2
    MaxSteers = 1
    MaxSends = 2
    Conversation = {"user", "assistant"}
    MaxBranch = 6
    MaxToolRows = 2
    MaxFiles = 1
    Windows = {0, 6}
    Histories <- ShortHistories
    Window = 1000
    PromptTokens = 500
    Answers = {70, 160}
    MaxChunks = 3
    MaxDepth = 2
    Retained = 700
    MaxLines = 5
    Callers = {"c1"}
    Logins = {"l1"}
    KeySets = {"k1"}
    MaxGrants = 2
    MaxCatalog = 3
    Characters = {"x", "s", "n", "r"}
    MaxText = 3
    MaxOld = 2
    NewTexts <- OneReplacement
    MaxShown = 2
    MaxShownBytes = 3
    MaxWritten = 7
    MaxFile = 4
    MaxWidth = 4
    MaxGrepFiles = 2
    MaxGrepLines = 4
    MaxRows = 5
    Walkers = {"v1", "v2"}
    FindFiles = {"f1", "f2", "f3", "f4", "f5"}
    FindMatches = {"f1", "f2", "f3", "f4"}
    FindLimit = 2
    IgnoreReads = {"g1", "g2"}
    MaxVersion = 4
    Extensions = {1, 2}
    MaxRegistrations = 2
    MaxDispatches = 1
    BufferEdits = 2
    EventLimit = 2
    HandlerLimit = 2
    Callbacks = {"a", "b"}
    NodeKeys = {"n1"}
    MaxCalls = 2
    MaxEvaluations = 2
    NoCallback = "-"
    Emitting = {"a", "b"}
    MaxEvents = 3
    Unheld = "-"
    Typeable = {"x", " ", "n", "w"}
    MaxTyping = 5
    Columns = 3
    Rows = 2
    ListItems = 5
    ListHeights = {9, 10, 11}
INIT PartsInit
NEXT PartsNext
CHECK_DEADLOCK FALSE
INVARIANTS
    EventsDelivered
    WaitersServed
    DeliveredOnce
    CommitsHonest
    SummariesTellAll
    StoredSound
    ExtensionsSound
    ScriptsSound
    FilesSound
PROPERTIES
    TreeSound
    TurnSound
    InputSound

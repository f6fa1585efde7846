\* Each part with two of whatever may overlap, failures and deaths.
SPECIFICATION PartsSpec
CONSTANTS
    w1 = w1
    w2 = w2
    host1 = host1
    t1 = t1
    t2 = t2
    claude = claude
    codex = codex
    loop = loop
    worker = worker
    timeout = timeout
    none = none
    d1 = d1
    d2 = d2
    Workers <- MCWorkers
    Hosts <- MCHosts
    MaxPairs = 10
    Turns <- MCTurns
    Claude = claude
    Grace = 1
    Threshold = 1
    Window = 2
    MinOutage = 1
    ProbeInterval = 3
    NotifyCooldown = 0
    Breakers <- MCTwoBreakers
    Threads <- MCTwoThreads
    Owner <- MCOwner
    Reasons <- MCReasons
    DiskFails = TRUE
    None = none
    Dispatches <- MCDispatches
    Day = 1
    LastWeek = 1
    MaxUpdates = 2
    MaxRuns = 2
    Contexts <- MCContexts
    TargetTokens = 4
    HardTokens = 6
    RecentLimit = 4
    Target = 3
    Ceiling = 4
    ResultLimit = 2
    FirstTurns <- MCFirstTurns
    LaterTurns <- MCLaterTurns
    MaxTurns = 4
    ActiveBudget = 6
    HistoryBudget = 4
    MemoryBudget = 1
    ToolsBudget = 1
    SystemBudget = 1
    MaxInput = 9
    FirstItems <- MCFirstItems
    LaterItems <- MCLaterItems
    MaxRequests = 4
    MaxClients = 2
    MaxPending = 1
    MaxIds = 3
    MaxTokens = 2
    MaxLogins = 2
    Deltas <- MCDeltas
    MaxChunks = 3
INVARIANTS BuiltVerifies AskedOnce HoldBounded StateFileIsSound
           MailIsRight NothingIsLost ConnectionsHold SelectionIsSound PromptIsSound ReplyIsFaithful
PROPERTIES BlipIsAbsorbed SlotsAreUsed AppStaysWhole AppendsWhileItFits CodexRequestsSound
SYMMETRY Symmetry
\* The bounds end some of the parts.
CHECK_DEADLOCK FALSE

\* A window that opens between calls made in parallel.
SPECIFICATION CodexSpec
CONSTANTS
    ActiveBudget = 6
    HistoryBudget = 5
    MemoryBudget = 1
    ToolsBudget = 1
    SystemBudget = 1
    MaxInput = 9
    FirstItems <- MCFirstItems
    LaterItems <- MCLaterItems
    MaxRequests = 4
INVARIANTS NoOrphanOutput
\* The bound on requests ends the conversation.
CHECK_DEADLOCK FALSE

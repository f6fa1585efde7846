\* Three Claude turns and two Codex turns on one tier, each served repeatedly; one local
\* turn beside the archive's worker; three releases of the router; a request and its retry
\* on queues shorter than the reply; two tunnels, one of which is too many; an outage of
\* either upstream.
SPECIFICATION DeadlinesSpec
CONSTANTS
    a = a
    b = b
    c = c
    x = x
    y = y
    r1 = r1
    h1 = h1
    h2 = h2
    original = original
    retry = retry
    c1 = c1
    c2 = c2
    claude = claude
    codex = codex
    ClaudeTurns <- MCClaude3
    CodexTurns <- MCCodex
    Requests <- MCRequests
    Transcripts <- MCTranscripts
    Threads <- MCExecutor
    QueueSize = 1
    InactiveDays = 1
    MaxDays = 2
    MaxLineages = 2
    MaxMain = 3
    MaxFaults = 3
    Clients <- MCClients
    SubscriberQueue = 1
    MaxEvents = 2
    MaxFlights = 2
    Connections <- MCConnections
    MaxConnections = 1
    Chunks = 1
    Breakers <- MCBreakers
    OfflineGated <- MCCodexOnly
    Probed <- MCBreakers
    Threshold = 1
    Window = 1
    MinOutage = 1
    ProbeInterval = 1
    NotifyCooldown = 1
INVARIANTS MutualExclusion LockOwned SnapshotsWhole ReleaseIsWhole
           NothingSkipped CompleteIsWhole OneGeneration ServedWhole
PROPERTIES QueuedIsServed TurnsEnd SuccessIsTrue TransactionsEnd
           ClientsAreTold TunnelsEnd RecoversWithoutRider
\* Releases and connections come to an end.
CHECK_DEADLOCK FALSE

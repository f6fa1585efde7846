\* A stale probe closes an outage that opened on a status.
SPECIFICATION BreakerSpec
CONSTANTS
    claude = claude
    codex = codex
    Breakers <- MCBreakers
    OfflineGated <- MCNone
    Probed <- MCBreakers
    Threshold = 1
    Window = 1
    MinOutage = 0
    ProbeInterval = 1
    NotifyCooldown = 1
PROPERTIES StatusOutageOutlivesProbe

\* One production-style breaker (service-level, with a probe) and one
\* offline-gated breaker, so that both branches of record_failure are taken.
SPECIFICATION BreakerSpec
CONSTANTS
    claude = claude
    codex = codex
    Breakers <- MCBreakers
    OfflineGated <- MCCodexOnly
    Probed <- MCBreakers
    Threshold = 1
    Window = 1
    MinOutage = 1
    ProbeInterval = 1
    NotifyCooldown = 1
INVARIANTS RegistryExact OneVoice
PROPERTIES OpensOnlyAfterOutage ContractSpec

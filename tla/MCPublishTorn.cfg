\* Two threads that publish at the same time; the disk works.
SPECIFICATION PublishSpec
CONSTANTS
    claude = claude
    codex = codex
    loop = loop
    worker = worker
    timeout = timeout
    none = none
    Breakers <- MCTwoBreakers
    Threads <- MCTwoThreads
    Owner <- MCOwner
    Reasons <- MCReasons
    None = none
    DiskFails = FALSE
INVARIANTS ReadersSeeWhole

\* A turn that arrives between a release and the waiter it woke.
SPECIFICATION LockSpec
CONSTANTS
    a = a
    b = b
    c = c
    x = x
    y = y
    ClaudeTurns <- MCClaude3
    CodexTurns <- MCNone
INVARIANTS EveryWaitIsTimed

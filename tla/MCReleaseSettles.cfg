\* What is left on a closed breaker when its side has come to rest.
SPECIFICATION MCSpec
CONSTANTS
    a = a
    b = b
    x = x
    y = y
    narrow = narrow
    wide = wide
    ClaudeTurns <- MCClaude
    CodexTurns <- MCCodex
    Narrow = narrow
    Wide = wide
    CodexTier = narrow
INVARIANTS SettlesClean

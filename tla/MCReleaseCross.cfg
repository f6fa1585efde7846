\* A turn of either path on the same tier.
SPECIFICATION MCSpec
CONSTANTS
    a = a
    b = b
    x = x
    y = y
    narrow = narrow
    wide = wide
    ClaudeTurns <- MCClaude
    CodexTurns <- MCCodex
    Narrow = narrow
    Wide = wide
    CodexTier = narrow
INVARIANTS PathsSpareEachOther

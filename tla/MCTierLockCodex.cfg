\* A Codex turn that gave up waiting ends while another one holds the tier.
SPECIFICATION LockSpec
CONSTANTS
    a = a
    b = b
    c = c
    x = x
    y = y
    ClaudeTurns <- MCOneClaude
    CodexTurns <- MCCodex
INVARIANTS Serialized

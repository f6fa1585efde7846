\* Two Claude turns, two Codex turns, or one of each, and the ticker.
SPECIFICATION MCSpec
CONSTANTS
    a = a
    b = b
    x = x
    y = y
    narrow = narrow
    wide = wide
    ClaudeTurns <- MCClaude
    CodexTurns <- MCCodex
    Narrow = narrow
    Wide = wide
    CodexTier = narrow
INVARIANTS CountsExact DeferralHasHeir CodexSparesCodex
PROPERTIES LoopsStartIdle CodexForgetsNothing ClaudeForgetsOnlyReopened
SYMMETRY Symmetry

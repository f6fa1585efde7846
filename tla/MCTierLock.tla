----------------------------- MODULE MCTierLock -----------------------------
(* Instances of TierLock for TLC. *)
EXTENDS TierLock

CONSTANTS a, b, c, x, y

MCClaude3 == {a, b, c}
MCOneClaude == {a}
MCCodex == {x, y}
MCNone == {}
=============================================================================

-------------------------- MODULE MCFailoverBreaker --------------------------
(* Instances of FailoverBreaker for TLC: two breakers that share a state file. *)
EXTENDS FailoverBreaker, TLC

CONSTANTS claude, codex

MCBreakers == {claude, codex}
MCNone == {}
MCCodexOnly == {codex}
=============================================================================

---------------------------- MODULE MCMemoryInterlock ----------------------------
(* The instance for TLC of MemoryInterlock. *)
EXTENDS MemoryInterlock

CONSTANTS t1, t2

MCTurns == {t1, t2}
=============================================================================

---------------------------- MODULE MCStatePublish ----------------------------
(* An instance of StatePublish for TLC: two breakers, each with its thread. *)
EXTENDS StatePublish

CONSTANTS claude, codex, loop, worker, timeout, none

MCTwoBreakers == {claude, codex}
MCTwoThreads == {loop, worker}
MCOwner == [w \in Threads |-> IF w = loop THEN codex ELSE claude]
MCReasons == {timeout}
=============================================================================

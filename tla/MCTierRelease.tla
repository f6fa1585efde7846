---------------------------- MODULE MCTierRelease ----------------------------
(***************************************************************************)
(* Instances of TierRelease for TLC.  The two paths keep separate books, so *)
(* a behaviour has a few turns of one path, or one turn of each: the turns  *)
(* in `live` take part, the others stay idle.                               *)
(***************************************************************************)
EXTENDS TierRelease, TLC

CONSTANTS a, b, x, y, narrow, wide

MCClaude == {a, b}
MCCodex == {x, y}

VARIABLE live

MCInit ==
    /\ Init
    /\ live \in {ClaudeTurns, CodexTurns} \union
               {{c, d} : c \in ClaudeTurns, d \in CodexTurns}

MCNext ==
    /\ Next
    /\ \A t \in Turns \ live : pc'[t] = "idle"
    /\ UNCHANGED live

MCSpec == MCInit /\ [][MCNext]_<<vars, live>>

Symmetry == Permutations(ClaudeTurns) \union Permutations(CodexTurns)
=============================================================================

---------------------------- MODULE MCCodexPrompt ----------------------------
(* Instances of CodexPrompt for TLC: turns of the user, and calls in parallel. *)
EXTENDS CodexPrompt

Adds(k, n, p) == [kind |-> k, size |-> n, pair |-> p]
MCFirstItems == {<<Adds("user", 1, 0)>>}
MCLaterItems ==
    {<<Adds("answer", 1, 0), Adds("user", 1, 0)>>,
     <<Adds("call", 1, 1), Adds("call", 1, 2), Adds("output", 1, 1), Adds("output", 1, 2)>>}
=============================================================================

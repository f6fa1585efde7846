--------------------------- MODULE BreakerContract ---------------------------
(***************************************************************************)
(* What the failover breakers of one router promise to everybody else.     *)
(*                                                                         *)
(* Other consumers of the local GPU read the set of upstreams that are     *)
(* being served locally (the published state file); the person at the      *)
(* machine is told of an outage by an upstream that fails over while none  *)
(* is published, and is told "back to cloud" only by an upstream that      *)
(* spoke.  Upstreams that fail over together may all speak: an upstream is *)
(* published some time after it has.  How a breaker decides to fail over   *)
(* or to recover is not part of the promise: FailoverBreaker is the        *)
(* detailed specification that implements this one.                        *)
(***************************************************************************)
CONSTANT Breakers

VARIABLES
    failing,   \* the breakers whose traffic goes to the local tier
    serving,   \* those of them that are published
    speakers   \* those of them whose outage was announced

contractVars == <<failing, serving, speakers>>

Init ==
    /\ failing = {}
    /\ serving = {}
    /\ speakers = {}

\* An upstream fails over.  It may speak only if nobody is known to be failing over.
FailsOver(b) ==
    /\ b \notin failing
    /\ failing' = failing \union {b}
    /\ \/ speakers' = speakers
       \/ /\ serving = {}
          /\ speakers' = speakers \union {b}
    /\ UNCHANGED serving

\* Everybody may know.
IsPublished(b) ==
    /\ b \in failing
    /\ serving' = serving \union {b}
    /\ UNCHANGED <<failing, speakers>>

\* An upstream returns to the cloud; it is unpublished, and takes back what it said.
Recovers(b) ==
    /\ b \in failing
    /\ failing' = failing \ {b}
    /\ serving' = serving \ {b}
    /\ speakers' = speakers \ {b}

Next == \E b \in Breakers : FailsOver(b) \/ IsPublished(b) \/ Recovers(b)

Spec == Init /\ [][Next]_contractVars
=============================================================================

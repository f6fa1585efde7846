----------------------------- MODULE MemoryInterlock -----------------------------
(***************************************************************************)
(* Two runtimes whose large models do not fit in memory together: the MLX  *)
(* server (mlx_admin.py), a job of launchd, and Ollama with its 27B.       *)
(* Before a turn is sent to either, resolve_profile makes the other one    *)
(* give way, or sends the turn to a small model.  Every look and every     *)
(* command is awaited, and turns are prepared at the same time.            *)
(***************************************************************************)
EXTENDS Naturals, FiniteSets

CONSTANTS Turns

VARIABLES
    mlx,       \* "down", "loading", "up", "stopping", or "unmanaged": up without its job
    resident,  \* Ollama has loaded the 27B
    wants,     \* turn -> the runtime its profile names: "mlx" or "ollama"
    place,     \* turn -> where its preparation is, then "served"
    excused    \* history: an eviction failed, which the code accepts

interlockVars == <<mlx, resident, wants, place, excused>>

Init ==
    /\ mlx \in {"down", "up", "unmanaged"}
    /\ resident \in BOOLEAN
    /\ mlx # "down" => ~resident
    /\ wants \in [Turns -> {"mlx", "ollama"}]
    /\ place = [t \in Turns |-> "idle"]
    /\ excused = FALSE

Goes(t, from, to) == place[t] = from /\ place' = [place EXCEPT ![t] = to]

\* What _service_pid finds, and what /health may answer: a server that is stopping may
\* or may not.
HasJob == mlx \in {"loading", "up", "stopping"}
MayAnswer == mlx \in {"up", "unmanaged", "stopping"}
MayNotAnswer == mlx \notin {"up", "unmanaged"}

Arrives(t) ==
    /\ Goes(t, "idle", "resolving")
    /\ wants' \in {[wants EXCEPT ![t] = r] : r \in {"mlx", "ollama"}}
    /\ UNCHANGED <<mlx, resident, excused>>

\* The turn is sent to a model that fits beside either.
FallsBack(t, from) == Goes(t, from, "idle")

-----------------------------------------------------------------------------
(* stop_running, for a turn that wants the 27B *)

LooksForJobs(t) ==
    /\ wants[t] = "ollama"
    /\ Goes(t, "resolving", IF HasJob THEN "kills" ELSE "checks")
    /\ UNCHANGED <<mlx, resident, wants, excused>>

\* No job, but a server that nobody can name answers: it fails closed.
Checks(t) ==
    /\ \/ MayAnswer /\ FallsBack(t, "checks")
       \/ MayNotAnswer /\ Goes(t, "checks", "granted")
    /\ UNCHANGED <<mlx, resident, wants, excused>>

Kills(t) ==
    /\ \/ /\ HasJob
          /\ mlx' = "stopping"
          /\ Goes(t, "kills", "waits for its end")
       \/ FallsBack(t, "kills") /\ UNCHANGED mlx
    /\ UNCHANGED <<resident, wants, excused>>

\* It is stopped when it has neither a process nor an answer; or time is up.
WaitsForItsEnd(t) ==
    /\ \/ ~HasJob /\ MayNotAnswer /\ Goes(t, "waits for its end", "granted")
       \/ FallsBack(t, "waits for its end")
    /\ UNCHANGED <<mlx, resident, wants, excused>>

-----------------------------------------------------------------------------
(* ensure_running and evict_all, for a turn that wants MLX *)

Probes(t) ==
    /\ wants[t] = "mlx"
    /\ \/ MayAnswer /\ Goes(t, "resolving", "running")
       \/ MayNotAnswer /\ Goes(t, "resolving", "kickstarts")
    /\ UNCHANGED <<mlx, resident, wants, excused>>

Kickstarts(t) ==
    /\ \/ /\ mlx' = IF mlx = "down" THEN "loading" ELSE mlx
          /\ Goes(t, "kickstarts", "waits for an answer")
       \/ FallsBack(t, "kickstarts") /\ UNCHANGED mlx
    /\ UNCHANGED <<resident, wants, excused>>

WaitsForAnAnswer(t) ==
    /\ \/ MayAnswer /\ Goes(t, "waits for an answer", "running")
       \/ FallsBack(t, "waits for an answer")
    /\ UNCHANGED <<mlx, resident, wants, excused>>

\* resident_models: what cannot be read counts as nothing.
ReadsResidency(t) ==
    /\ \/ Goes(t, "running", IF resident THEN "evicts" ELSE "granted") /\ UNCHANGED excused
       \/ resident /\ Goes(t, "running", "granted") /\ excused' = TRUE
    /\ UNCHANGED <<mlx, resident, wants>>

Evicts(t) ==
    /\ Goes(t, "evicts", "granted")
    /\ \/ resident' = FALSE /\ UNCHANGED excused
       \/ excused' = TRUE /\ UNCHANGED resident
    /\ UNCHANGED <<mlx, wants>>

-----------------------------------------------------------------------------
(* The turn is sent, and answered.  Ollama loads what it is asked for. *)

Served(t) ==
    /\ Goes(t, "granted", "served")
    /\ wants[t] = "mlx" => MayAnswer
    /\ resident' = (resident \/ wants[t] = "ollama")
    /\ UNCHANGED <<mlx, wants, excused>>

Ends(t) ==
    /\ place[t] \in {"granted", "served"}
    /\ place' = [place EXCEPT ![t] = "idle"]
    /\ UNCHANGED <<mlx, resident, wants, excused>>

Turn(t) ==
    \/ Arrives(t) \/ LooksForJobs(t) \/ Checks(t) \/ Kills(t) \/ WaitsForItsEnd(t)
    \/ Probes(t) \/ Kickstarts(t) \/ WaitsForAnAnswer(t) \/ ReadsResidency(t) \/ Evicts(t)
    \/ Served(t) \/ Ends(t)

\* The server comes up, or is gone.
Changes ==
    /\ \/ mlx = "loading" /\ mlx' = "up"
       \/ mlx = "stopping" /\ mlx' = "down"
    /\ UNCHANGED <<resident, wants, place, excused>>

\* Nobody has used the 27B for its keep_alive.
KeepAliveEnds ==
    /\ resident
    /\ \A t \in Turns : ~(wants[t] = "ollama" /\ place[t] = "served")
    /\ resident' = FALSE
    /\ UNCHANGED <<mlx, wants, place, excused>>

Next == (\E t \in Turns : Turn(t)) \/ Changes \/ KeepAliveEnds

Spec == Init /\ [][Next]_interlockVars

-----------------------------------------------------------------------------
\* mlx_admin.py:48: "resolve_profile enforces the transition before either runtime serves
\* a request".  While a turn is served by one runtime the other holds no large model,
\* unless an eviction failed.
RuntimesApart ==
    \A t \in Turns : place[t] = "served" /\ ~excused =>
        IF wants[t] = "mlx" THEN ~resident ELSE mlx = "down"
=============================================================================

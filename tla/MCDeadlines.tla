----------------------------- MODULE MCDeadlines -----------------------------
(***************************************************************************)
(* Instances for TLC of what must come to an end: the turns for the tier   *)
(* lock, the local turns for the context archive, the deployer for the     *)
(* router, a stream that clients share, the forward proxy's tunnels, and   *)
(* the outages of the breakers.                                            *)
(*                                                                         *)
(* Their models share no variables.  One is chosen at the start, and only  *)
(* it moves: TLC explores them one after the other.                        *)
(***************************************************************************)
EXTENDS TierLock, ContextArchive, RouterDeploy, StreamFlights, ForwardProxy, FailoverBreaker

CONSTANTS a, b, c, x, y, r1, h1, h2, original, retry, c1, c2, claude, codex

MCClaude3 == {a, b, c}
MCCodex == {x, y}
MCRequests == {r1}
MCTranscripts == {<<"a">>, <<"a", "b">>}
MCExecutor == {h1, h2}
MCClients == {original, retry}
MCConnections == {c1, c2}
MCBreakers == {claude, codex}
MCCodexOnly == {codex}

VARIABLE live

-----------------------------------------------------------------------------
\* What is not chosen rests in one of its initial states.
DeadlinesInit ==
    /\ live \in {"lock", "archive", "deploy", "stream", "proxy"} \union MCBreakers
    /\ LockInit
    /\ ArchiveInit
    /\ DeployInit
    /\ live # "deploy" => bad = {} /\ script.at = "never"
    /\ FlightsInit
    /\ ProxyInit
    /\ live # "proxy" => \A k \in MCConnections : kind[k] = "tcp"
    /\ BreakerInit
    /\ \A p \in MCBreakers \ {live} : reachable[p]

\* The upstream of one breaker fails and comes back; the other one rests.
OneBreakerMoves ==
    /\ live \in MCBreakers
    /\ BreakerNext
    /\ \A p \in MCBreakers \ {live} :
          reachable'[p] /\ UNCHANGED <<failures[p], sinceSuccess[p]>>

DeadlinesNext ==
    /\ UNCHANGED live
    /\ \/ /\ live = "lock" /\ LockNext
          /\ UNCHANGED <<archiveVars, deployVars, flightVars, proxyVars, failoverVars>>
       \/ /\ live = "archive" /\ ArchiveNext
          /\ UNCHANGED <<lockVars, deployVars, flightVars, proxyVars, failoverVars>>
       \/ /\ live = "deploy" /\ DeployNext
          /\ UNCHANGED <<lockVars, archiveVars, flightVars, proxyVars, failoverVars>>
       \/ /\ live = "stream" /\ FlightsNext
          /\ UNCHANGED <<lockVars, archiveVars, deployVars, proxyVars, failoverVars>>
       \/ /\ live = "proxy" /\ ProxyNext
          /\ UNCHANGED <<lockVars, archiveVars, deployVars, flightVars, failoverVars>>
       \/ /\ OneBreakerMoves
          /\ UNCHANGED <<lockVars, archiveVars, deployVars, flightVars, proxyVars>>

deadlinesVars ==
    <<live, lockVars, archiveVars, deployVars, flightVars, proxyVars, failoverVars>>

\* What rests has nothing to do, so that its fairness asks nothing of the rest; only the
\* breakers' ticker and clock always have, and are asked for where they move.
DeadlinesSpec ==
    /\ DeadlinesInit /\ [][DeadlinesNext]_deadlinesVars
    /\ LockFairness
    /\ ArchiveFairness
    /\ DeployFairness
    /\ FlightsFairness
    /\ ProxyFairness
    /\ WF_failoverVars(live \in MCBreakers /\ Tick)
    /\ WF_failoverVars(live \in MCBreakers /\ Ticker)
    /\ \A p \in MCBreakers : WF_failoverVars(GateAnswers(p))
=============================================================================

------------------------------ MODULE RouterDeploy ------------------------------
(***************************************************************************)
(* The two ways a release reaches the running router: the controller       *)
(* scripts/qa_deploy.py, polled every minute for GitHub deployments, and   *)
(* scripts/deploy-router.sh, run by a person.                              *)
(*                                                                         *)
(* Both change the service checkout and restart the router, which then     *)
(* runs what it was started with.  The controller's poll holds a file      *)
(* lock, the script knows nothing of it.  Commits are numbered in the      *)
(* order they reach main, one deployment for each.  Any command may fail,  *)
(* any status may be lost on its way to GitHub or on the way back, and the *)
(* controller may die between any two steps.                               *)
(***************************************************************************)
EXTENDS Naturals, FiniteSets

CONSTANTS
    MaxMain,     \* bound: commits that reach main
    MaxFaults    \* bound: failures and deaths

ASSUME DeployBounds == MaxMain \in Nat \ {0}

VARIABLES
    main,      \* the commit at the head of main
    bad,       \* commits whose router does not come up healthy, with the right routes
    head,      \* the commit checked out
    installed, \* the commit whose frozen dependencies are installed
    routes,    \* the environment in the LaunchAgent: "before" or "qa"
    router,    \* what the running router was started with, or Down
    journal,   \* the controller's transaction, or NoRecord
    saved,     \* the LaunchAgent saved for a rollback
    controller, \* the controller: its place and the deployment it serves
    reported,  \* per commit: the latest status GitHub shows of its deployment
    script,    \* the person's script: its place and the commit it began from
    faults     \* failures so far

machineVars == <<head, installed, routes, router>>
recordVars == <<journal, saved, reported>>
deployVars == <<main, bad, machineVars, recordVars, controller, script, faults>>

Commits == 1..MaxMain
Down == [commit |-> 0, installed |-> 0, routes |-> "none"]
NoRecord == [commit |-> 0, previous |-> 0, phase |-> "none", outcome |-> "none", reported |-> TRUE]
Waiting == [at |-> "idle", serves |-> 0]

Healthy(r) == r # Down /\ r.commit \notin bad
Matches(k) == Healthy(router) /\ router.commit = k /\ router.routes = "qa"

DeployInit ==
    /\ main = 1
    /\ bad \in SUBSET (Commits \ {1})
    /\ head = 1 /\ installed = 1 /\ routes = "before"
    /\ router = [commit |-> 1, installed |-> 1, routes |-> "before"]
    /\ journal = NoRecord
    /\ saved = "none"
    /\ controller = Waiting
    /\ reported = [k \in Commits |-> "none"]
    /\ script \in {[at |-> "idle", before |-> 0], [at |-> "never", before |-> 0]}
    /\ faults = 0

\* A merge to main, with the request to deploy it.
Merges ==
    /\ main < MaxMain
    /\ main' = main + 1
    /\ reported' = [reported EXCEPT ![main'] = "pending"]
    /\ UNCHANGED <<bad, machineVars, journal, saved, controller, script, faults>>

-----------------------------------------------------------------------------
(* The controller *)

Goto(place) == controller' = [controller EXCEPT !.at = place]
Fault == faults < MaxFaults /\ faults' = faults + 1

\* A status is posted; a post that fails may have arrived, and the answer is lost.
Posts(k, status) == reported' = [reported EXCEPT ![k] = status]
PostFails(k, status) == Fault /\ (Posts(k, status) \/ UNCHANGED reported)

\* Mutant: an end that was not reported is not reported again.
MutPolls ==
    /\ controller.at = "idle"
    /\ \/ /\ journal.phase = "applying"
          /\ controller' = [at |-> IF head = journal.commit /\ Matches(journal.commit)
                                   THEN "succeeds" ELSE "undoes",
                            serves |-> journal.commit]
       \/ /\ journal.phase # "applying"
          /\ \E k \in Commits : /\ reported[k] = "pending"
                                /\ \A l \in Commits : reported[l] = "pending" => l <= k
                                /\ controller' = [at |-> "validates", serves |-> k]
    /\ UNCHANGED <<main, bad, machineVars, recordVars, script, faults>>

\* recover, at the beginning of every poll: an unreported end is reported again, a
\* transaction that was interrupted is verified or rolled back.
Polls ==
    /\ controller.at = "idle"
    /\ \/ /\ journal.phase = "terminal" /\ ~journal.reported
          /\ controller' = [at |-> "reports", serves |-> journal.commit]
       \/ /\ journal.phase = "applying"
          /\ controller' = [at |-> IF head = journal.commit /\ Matches(journal.commit)
                                   THEN "succeeds" ELSE "undoes",
                            serves |-> journal.commit]
       \/ /\ journal.reported
          /\ \E k \in Commits : /\ reported[k] = "pending"
                                /\ \A l \in Commits : reported[l] = "pending" => l <= k
                                /\ controller' = [at |-> "validates", serves |-> k]
    /\ UNCHANGED <<main, bad, machineVars, recordVars, script, faults>>

\* validate_request, preflight, the fetch, the model tags and the quiet window: the
\* deployment must be at the head of main, ahead of the checkout, and the router
\* healthy; each may also be refused for a reason of its own,
\* or its checks may still be running.
Refuses ==
    /\ controller.at = "validates"
    /\ controller.serves # main \/ head > controller.serves \/ ~Healthy(router) \/ faults < MaxFaults
    /\ faults' = IF controller.serves # main \/ head > controller.serves \/ ~Healthy(router)
                 THEN faults ELSE faults + 1
    /\ Posts(controller.serves, "failure") \/ UNCHANGED reported
    /\ controller' = Waiting
    /\ UNCHANGED <<main, bad, machineVars, journal, saved, script>>

\* An announcement that is not confirmed is an error of the poll too.
AnnounceFails ==
    /\ controller.at = "validates"
    /\ controller.serves = main /\ head <= controller.serves /\ Healthy(router)
    /\ PostFails(controller.serves, IF Matches(controller.serves) THEN "success" ELSE "in_progress")
    /\ Goto("apologises")
    /\ UNCHANGED <<main, bad, machineVars, journal, saved, script>>

\* Already running, it is reported; otherwise the deployment is announced.
Announces ==
    /\ controller.at = "validates"
    /\ controller.serves = main /\ head <= controller.serves /\ Healthy(router)
    /\ IF Matches(controller.serves)
       THEN Posts(controller.serves, "success") /\ controller' = Waiting
       ELSE Posts(controller.serves, "in_progress") /\ Goto("saves")
    /\ UNCHANGED <<main, bad, machineVars, journal, saved, script, faults>>

\* The LaunchAgent and the transaction are on disk before anything changes.
Saves ==
    /\ controller.at = "saves"
    /\ saved' = routes
    /\ journal' = [commit |-> controller.serves, previous |-> head, phase |-> "applying",
                   outcome |-> "none", reported |-> FALSE]
    /\ Goto("checks_out")
    /\ UNCHANGED <<main, bad, machineVars, reported, script, faults>>

\* One step of the deployment, or its failure, which is rolled back.
Step(place, next) ==
    /\ controller.at = place
    /\ Goto(next)
    /\ UNCHANGED <<main, bad, recordVars, script, faults>>

ChecksOut == Step("checks_out", "syncs") /\ head' = controller.serves /\ UNCHANGED <<installed, routes, router>>
Syncs == Step("syncs", "configures") /\ installed' = head /\ UNCHANGED <<head, routes, router>>
Configures == Step("configures", "unloads") /\ routes' = "qa" /\ UNCHANGED <<head, installed, router>>
Unloads == Step("unloads", "loads") /\ router' = Down /\ UNCHANGED <<head, installed, routes>>

Started == [commit |-> head, installed |-> installed, routes |-> routes]
Loads == Step("loads", "verifies") /\ router' = Started /\ UNCHANGED <<head, installed, routes>>

\* Mutant: that a process is up is enough.
MutVerifies ==
    /\ Step("verifies", IF router # Down THEN "succeeds" ELSE "undoes")
    /\ UNCHANGED machineVars

\* wait_for_release: the new process reports the commit and the model routes.
Verifies ==
    /\ Step("verifies", IF Matches(controller.serves) THEN "succeeds" ELSE "undoes")
    /\ UNCHANGED machineVars

StepFails ==
    /\ controller.at \in {"checks_out", "syncs", "configures", "unloads", "loads", "verifies"}
    /\ Fault
    /\ Goto("undoes")
    /\ UNCHANGED <<main, bad, machineVars, recordVars, script>>

\* Mutant: a rollback leaves the LaunchAgent as it is.
MutUndoes == Step("undoes", "unsyncs") /\ head' = journal.previous /\ UNCHANGED <<installed, routes, router>>

\* rollback: checkout, LaunchAgent and dependencies as they were, and a restart.
Undoes ==
    /\ Step("undoes", "unsyncs")
    /\ head' = journal.previous
    /\ routes' = saved
    /\ UNCHANGED <<installed, router>>
Unsyncs == Step("unsyncs", "reunloads") /\ installed' = head /\ UNCHANGED <<head, routes, router>>
Reunloads == Step("reunloads", "reloads") /\ router' = Down /\ UNCHANGED <<head, installed, routes>>
Reloads == Step("reloads", "reverifies") /\ router' = Started /\ UNCHANGED <<head, installed, routes>>

\* A rollback that cannot be confirmed keeps the journal: the next poll tries again.
Reverifies ==
    /\ controller.at = "reverifies"
    /\ controller' = IF Healthy(router) /\ head = journal.previous /\ router.commit = head
                     THEN [controller EXCEPT !.at = "gives_up"] ELSE Waiting
    /\ UNCHANGED <<main, bad, machineVars, recordVars, script, faults>>

\* finish: the outcome is on disk before it is reported.
Concludes ==
    /\ controller.at \in {"succeeds", "gives_up"}
    /\ journal' = [journal EXCEPT !.phase = "terminal",
                                  !.outcome = IF controller.at = "succeeds" THEN "success" ELSE "failure"]
    /\ Goto("reports")
    /\ UNCHANGED <<main, bad, machineVars, saved, reported, script, faults>>

Reports ==
    /\ controller.at = "reports"
    /\ Posts(controller.serves, journal.outcome)
    /\ Goto("notes")
    /\ UNCHANGED <<main, bad, machineVars, journal, saved, script, faults>>

\* A report that is not confirmed is an error of the poll, which posts a failure.
ReportFails ==
    /\ controller.at = "reports"
    /\ PostFails(controller.serves, journal.outcome)
    /\ Goto("apologises")
    /\ UNCHANGED <<main, bad, machineVars, journal, saved, script>>

Apologises ==
    /\ controller.at = "apologises"
    /\ Posts(controller.serves, "failure") \/ UNCHANGED reported
    /\ controller' = Waiting
    /\ UNCHANGED <<main, bad, machineVars, journal, saved, script, faults>>

Notes ==
    /\ controller.at = "notes"
    /\ journal' = [journal EXCEPT !.reported = TRUE]
    /\ controller' = Waiting
    /\ UNCHANGED <<main, bad, machineVars, saved, reported, script, faults>>

ControllerDies ==
    /\ controller.at # "idle"
    /\ Fault
    /\ controller' = Waiting
    /\ UNCHANGED <<main, bad, machineVars, recordVars, script>>

-----------------------------------------------------------------------------
(* The person's script *)

ScriptBegins ==
    /\ script.at = "idle"
    /\ head < main
    /\ script' = [at |-> "merges", before |-> head]
    /\ UNCHANGED <<main, bad, machineVars, recordVars, controller, faults>>

\* git merge --ff-only, which refuses when the checkout is no ancestor of main.
ScriptMerges ==
    /\ script.at = "merges"
    /\ IF head <= main
       THEN head' = main /\ script' = [script EXCEPT !.at = "restarts"]
       ELSE UNCHANGED head /\ script' = [script EXCEPT !.at = "ended"]
    /\ UNCHANGED <<main, bad, installed, routes, router, recordVars, controller, faults>>

\* RESTART_CMD.  When it fails, the script ends: the checkout stays advanced.
ScriptRestarts ==
    /\ script.at = "restarts"
    /\ \/ /\ router' = Started
          /\ script' = [script EXCEPT !.at = "verifies"]
          /\ UNCHANGED faults
       \/ /\ Fault
          /\ router' \in {router, Down}
          /\ script' = [script EXCEPT !.at = "ended"]
    /\ UNCHANGED <<main, bad, head, installed, routes, recordVars, controller>>

\* roll_back does not look whether its own restart works.
ScriptVerifies ==
    /\ script.at = "verifies"
    /\ \/ /\ Healthy(router)
          /\ UNCHANGED <<head, router, faults>>
       \/ /\ ~Healthy(router)
          /\ head' = script.before
          /\ \/ router' = [Started EXCEPT !.commit = script.before] /\ UNCHANGED faults
             \/ Fault /\ router' \in {router, Down}
    /\ script' = [script EXCEPT !.at = "ended"]
    /\ UNCHANGED <<main, bad, installed, routes, recordVars, controller>>

-----------------------------------------------------------------------------
Advances ==
    \/ ChecksOut \/ Syncs \/ Configures \/ Unloads \/ Loads \/ Verifies
    \/ Undoes \/ Unsyncs \/ Reunloads \/ Reloads \/ Reverifies
    \/ Concludes \/ Reports \/ Apologises \/ Notes

DeployNext ==
    \/ Merges \/ Polls \/ Refuses \/ Announces \/ Saves \/ Advances
    \/ StepFails \/ ReportFails \/ AnnounceFails \/ ControllerDies
    \/ ScriptBegins \/ ScriptMerges \/ ScriptRestarts \/ ScriptVerifies

\* launchd starts the poll every minute, and a poll goes on while it lives.
DeployFairness ==
    /\ WF_deployVars(Polls)
    /\ WF_deployVars(Saves \/ Announces)
    /\ WF_deployVars(Advances)

DeploySpec == DeployInit /\ [][DeployNext]_deployVars /\ DeployFairness

-----------------------------------------------------------------------------
(* Properties *)

Alone == script.at = "never"
AtRest == controller = Waiting /\ journal.phase # "applying"

\* Between two transactions of the controller the checkout, the dependencies, the
\* LaunchAgent and the running router are of one release, healthy, whatever failed or
\* died on the way; after a deployment that failed, they are what they were before it.
ReleaseIsWhole ==
    Alone /\ AtRest =>
       /\ Started = router /\ Healthy(router) /\ installed = head
       /\ journal.outcome = "failure" => head = journal.previous /\ routes = saved

\* A success the controller reports is true when it reports it.
SuccessIsTrue ==
    [][\A k \in Commits :
          Alone /\ reported[k] # "success" /\ reported'[k] = "success" =>
             Healthy(router) /\ router.commit = k /\ Started = router]_deployVars

\* A transaction begun is brought to an end, and its outcome to GitHub.
TransactionsEnd == []<>(Alone => journal.reported)
=============================================================================

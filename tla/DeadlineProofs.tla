--------------------------- MODULE DeadlineProofs ----------------------------
(***************************************************************************)
(* Proofs about what has a deadline.  First the deployed release           *)
(* (RouterDeploy.tla), for any commits and any failures of the steps.      *)
(* Then the tier lock (TierLock.tla), for any sets of turns of both paths. *)
(* Last the context archive (ContextArchive.tla), for any turns, threads   *)
(* and transcripts.                                                        *)
(***************************************************************************)
EXTENDS TierLock, ContextArchive, RouterDeploy, SequenceTheorems, FiniteSetTheorems, TLAPS

-----------------------------------------------------------------------------
(* The deployer                                                             *)

Forward == {"checks_out", "syncs", "configures", "unloads", "loads", "verifies", "succeeds"}
Backward == {"undoes", "unsyncs", "reunloads", "reloads", "reverifies", "gives_up"}
Unbegun == {"validates", "saves", "reports", "notes", "apologises"}
Routings == {"before", "qa"}
Statuses == {"none", "pending", "in_progress", "success", "failure"}

Numbers == Commits \union {0}

Releases == [commit : Numbers, installed : Numbers, routes : Routings \union {"none"}]
Transactions == [commit : Numbers, previous : Numbers, phase : {"none", "applying", "terminal"},
                 outcome : {"none", "success", "failure"}, reported : BOOLEAN]
Places == Forward \union Backward \union Unbegun \union {"idle"}

DeployTyped ==
    /\ main \in Commits
    /\ head \in Commits
    /\ installed \in Commits
    /\ routes \in Routings
    /\ router \in Releases
    /\ journal \in Transactions
    /\ journal.phase # "none" => journal.commit \in Commits /\ journal.previous \in Commits
    /\ saved \in Routings \union {"none"}
    /\ controller \in [at : Places, serves : Numbers]
    /\ controller.at # "idle" => controller.serves \in Commits

StatusTyped == reported \in [Commits -> Statuses]

ScriptTyped ==
    script \in [at : {"idle", "never"}, before : {0}]
               \union [at : {"merges", "restarts", "verifies", "ended"}, before : Commits]

\* The journal says whether a transaction is under way, and which.
JournalKnows ==
    /\ controller.at \in Forward \union Backward =>
          journal.phase = "applying" /\ controller.serves = journal.commit
    /\ controller.at \in Unbegun => journal.phase # "applying"
    /\ controller.at \in {"reports", "notes"} =>
          journal.phase = "terminal" /\ controller.serves = journal.commit
    /\ journal.reported => journal.phase # "applying"
    /\ journal.phase = "applying" => saved \in Routings

\* Nothing is ahead of main, and what is to be deployed is ahead of the checkout.
Ordered ==
    /\ head <= main /\ journal.commit <= main /\ controller.serves <= main
    /\ journal.phase = "applying" => journal.previous < journal.commit
    /\ \A k \in Commits : reported[k] = "pending" => k <= main
    /\ controller.at = "validates" => reported[controller.serves] = "pending"
    /\ controller.at = "saves" =>
          head < controller.serves /\ reported[controller.serves] # "pending"
    /\ reported[main] = "pending" =>
          head < main /\ (journal.phase = "applying" => journal.commit < main)

\* The router runs what is checked out, installed and configured.
Current == Started = router /\ installed = head

\* What a transaction that has ended, or was never begun, leaves behind.
LeftWhole ==
    journal.phase # "applying" =>
       /\ Current /\ Healthy(router)
       /\ journal.outcome = "failure" => head = journal.previous /\ routes = saved
       /\ journal.outcome = "success" => router.commit = journal.commit

\* On the way forward: until the old router is stopped it is the old one, and what
\* runs with the new commit and the new routes is what was deployed.
GoesForward ==
    /\ controller.at \in {"checks_out", "syncs", "configures", "unloads"} =>
          router.commit = journal.previous
    /\ controller.at = "loads" => router = Down
    /\ controller.at \in {"syncs", "configures", "unloads", "loads", "verifies", "succeeds"} =>
          head = journal.commit
    /\ controller.at \in {"configures", "unloads", "loads", "verifies", "succeeds"} =>
          installed = head
    /\ controller.at = "succeeds" => Current /\ Matches(journal.commit)
    /\ journal.phase = "applying" /\ head = journal.commit /\ Matches(journal.commit) => Current

\* On the way back: one thing after the other is as it was.
GoesBack ==
    /\ controller.at \in Backward \ {"undoes"} => head = journal.previous /\ routes = saved
    /\ controller.at \in Backward \ {"undoes", "unsyncs"} => installed = head
    /\ controller.at \in {"reverifies", "gives_up"} => Started = router
    /\ controller.at = "gives_up" => Healthy(router)

\* What holds whoever deploys, and what holds as long as only the controller does.
DeployInv == DeployTyped /\ StatusTyped /\ ScriptTyped /\ JournalKnows
ReleaseInv == Alone => Ordered /\ LeftWhole /\ GoesForward /\ GoesBack

-----------------------------------------------------------------------------
\* The script goes its own way; one that has begun, or may, does not become one that is
\* never begun.
LEMMA ScriptStep == ASSUME DeployTyped, ScriptTyped, [DeployNext]_deployVars
                    PROVE  ScriptTyped' /\ (Alone' => Alone)
<1> USE DEF DeployTyped, ScriptTyped, Alone, Step, machineVars, recordVars
<1>1. CASE UNCHANGED script
  BY <1>1
<1>2. CASE ScriptBegins \/ ScriptMerges \/ ScriptRestarts \/ ScriptVerifies
  <2>1. CASE ScriptBegins  BY <2>1 DEF ScriptBegins
  <2>2. CASE ScriptMerges  BY <2>2 DEF ScriptMerges
  <2>3. CASE ScriptRestarts  BY <2>3 DEF ScriptRestarts
  <2>4. CASE ScriptVerifies  BY <2>4 DEF ScriptVerifies
  <2> QED BY <1>2, <2>1, <2>2, <2>3, <2>4
<1>3. CASE Merges \/ Polls \/ Refuses \/ Announces \/ Saves
  BY <1>3 DEF Merges, Polls, Refuses, Announces, Saves
<1>4. CASE Advances
  BY <1>4 DEF Advances, ChecksOut, Syncs, Configures, Unloads, Loads, Verifies, Undoes, Unsyncs,
              Reunloads, Reloads, Reverifies, Concludes, Reports, Apologises, Notes
<1>5. CASE StepFails \/ ReportFails \/ AnnounceFails \/ ControllerDies
  BY <1>5 DEF StepFails, ReportFails, AnnounceFails, ControllerDies
<1> QED
  BY <1>1, <1>2, <1>3, <1>4, <1>5 DEF DeployNext, deployVars

\* One step of the deployer, whoever deploys beside it.
LEMMA DeployStep == ASSUME DeployInv, [DeployNext]_deployVars
                    PROVE  DeployInv'
<1> USE DeployBounds DEF DeployInv, Started, Forward, Backward, Unbegun, Routings, Statuses,
        Releases, Transactions, Places, Numbers, Commits, Down, NoRecord, Waiting, Step, Goto,
        Fault, Posts, PostFails, machineVars, recordVars
<1>1. CASE Merges
  <2>1. DeployTyped'  BY <1>1 DEF Merges, DeployTyped
  <2>2. StatusTyped'  BY <1>1 DEF Merges, StatusTyped
  <2>3. JournalKnows'  BY <1>1 DEF Merges, JournalKnows
  <2> QED BY ScriptStep, <2>1, <2>2, <2>3
<1>2. CASE Polls
  <2>1. DeployTyped'  BY <1>2 DEF Polls, DeployTyped
  <2>2. StatusTyped'  BY <1>2 DEF Polls, StatusTyped
  <2>3. JournalKnows'  BY <1>2 DEF Polls, JournalKnows
  <2> QED BY ScriptStep, <2>1, <2>2, <2>3
<1>3. CASE Refuses
  <2>1. DeployTyped'  BY <1>3 DEF Refuses, DeployTyped
  <2>2. StatusTyped'  BY <1>3 DEF Refuses, StatusTyped
  <2>3. JournalKnows'  BY <1>3 DEF Refuses, JournalKnows
  <2> QED BY ScriptStep, <2>1, <2>2, <2>3
<1>4. CASE Announces
  <2>1. DeployTyped'  BY <1>4 DEF Announces, DeployTyped
  <2>2. StatusTyped'  BY <1>4 DEF Announces, StatusTyped
  <2>3. JournalKnows'  BY <1>4 DEF Announces, DeployTyped, JournalKnows
  <2> QED BY ScriptStep, <2>1, <2>2, <2>3
<1>5. CASE Saves
  <2>1. DeployTyped'  BY <1>5 DEF Saves, DeployTyped
  <2>2. StatusTyped'  BY <1>5 DEF Saves, StatusTyped
  <2>3. JournalKnows'  BY <1>5 DEF Saves, DeployTyped, JournalKnows
  <2> QED BY ScriptStep, <2>1, <2>2, <2>3
<1>6. CASE ChecksOut
  <2>1. DeployTyped'  BY <1>6 DEF ChecksOut, DeployTyped
  <2>2. StatusTyped'  BY <1>6 DEF ChecksOut, StatusTyped
  <2>3. JournalKnows'  BY <1>6 DEF ChecksOut, JournalKnows
  <2> QED BY ScriptStep, <2>1, <2>2, <2>3
<1>7. CASE Syncs
  <2>1. DeployTyped'  BY <1>7 DEF Syncs, DeployTyped
  <2>2. StatusTyped'  BY <1>7 DEF Syncs, StatusTyped
  <2>3. JournalKnows'  BY <1>7 DEF Syncs, JournalKnows
  <2> QED BY ScriptStep, <2>1, <2>2, <2>3
<1>8. CASE Configures
  <2>1. DeployTyped'  BY <1>8 DEF Configures, DeployTyped
  <2>2. StatusTyped'  BY <1>8 DEF Configures, StatusTyped
  <2>3. JournalKnows'  BY <1>8 DEF Configures, JournalKnows
  <2> QED BY ScriptStep, <2>1, <2>2, <2>3
<1>9. CASE Unloads
  <2>1. DeployTyped'  BY <1>9 DEF Unloads, DeployTyped
  <2>2. StatusTyped'  BY <1>9 DEF Unloads, StatusTyped
  <2>3. JournalKnows'  BY <1>9 DEF Unloads, JournalKnows
  <2> QED BY ScriptStep, <2>1, <2>2, <2>3
<1>10. CASE Loads
  <2>1. DeployTyped'  BY <1>10 DEF Loads, DeployTyped
  <2>2. StatusTyped'  BY <1>10 DEF Loads, StatusTyped
  <2>3. JournalKnows'  BY <1>10 DEF Loads, JournalKnows
  <2> QED BY ScriptStep, <2>1, <2>2, <2>3
<1>11. CASE Verifies
  <2>1. DeployTyped'  BY <1>11 DEF Verifies, DeployTyped
  <2>2. StatusTyped'  BY <1>11 DEF Verifies, StatusTyped
  <2>3. JournalKnows'  BY <1>11 DEF Verifies, JournalKnows
  <2> QED BY ScriptStep, <2>1, <2>2, <2>3
<1>12. CASE Undoes
  <2>1. DeployTyped'  BY <1>12 DEF Undoes, DeployTyped, JournalKnows
  <2>2. StatusTyped'  BY <1>12 DEF Undoes, StatusTyped
  <2>3. JournalKnows'  BY <1>12 DEF Undoes, JournalKnows
  <2> QED BY ScriptStep, <2>1, <2>2, <2>3
<1>13. CASE Unsyncs
  <2>1. DeployTyped'  BY <1>13 DEF Unsyncs, DeployTyped
  <2>2. StatusTyped'  BY <1>13 DEF Unsyncs, StatusTyped
  <2>3. JournalKnows'  BY <1>13 DEF Unsyncs, JournalKnows
  <2> QED BY ScriptStep, <2>1, <2>2, <2>3
<1>14. CASE Reunloads
  <2>1. DeployTyped'  BY <1>14 DEF Reunloads, DeployTyped
  <2>2. StatusTyped'  BY <1>14 DEF Reunloads, StatusTyped
  <2>3. JournalKnows'  BY <1>14 DEF Reunloads, JournalKnows
  <2> QED BY ScriptStep, <2>1, <2>2, <2>3
<1>15. CASE Reloads
  <2>1. DeployTyped'  BY <1>15 DEF Reloads, DeployTyped
  <2>2. StatusTyped'  BY <1>15 DEF Reloads, StatusTyped
  <2>3. JournalKnows'  BY <1>15 DEF Reloads, JournalKnows
  <2> QED BY ScriptStep, <2>1, <2>2, <2>3
<1>16. CASE Reverifies
  <2>1. DeployTyped'  BY <1>16 DEF Reverifies, DeployTyped
  <2>2. StatusTyped'  BY <1>16 DEF Reverifies, StatusTyped
  <2>3. JournalKnows'  BY <1>16 DEF Reverifies, JournalKnows
  <2> QED BY ScriptStep, <2>1, <2>2, <2>3
<1>17. CASE Concludes
  <2>1. DeployTyped'
    <3>1. journal' \in Transactions  BY <1>17 DEF Concludes, DeployTyped
    <3> QED
      BY <1>17, <3>1 DEF Concludes, DeployTyped, JournalKnows
  <2>2. StatusTyped'  BY <1>17 DEF Concludes, StatusTyped
  <2>3. JournalKnows'  BY <1>17 DEF Concludes, JournalKnows
  <2> QED BY ScriptStep, <2>1, <2>2, <2>3
<1>18. CASE Reports
  <2>1. DeployTyped'  BY <1>18 DEF Reports, DeployTyped
  <2>2. StatusTyped'  BY <1>18 DEF Reports, DeployTyped, StatusTyped
  <2>3. JournalKnows'  BY <1>18 DEF Reports, JournalKnows
  <2> QED BY ScriptStep, <2>1, <2>2, <2>3
<1>19. CASE Apologises
  <2>1. DeployTyped'  BY <1>19 DEF Apologises, DeployTyped
  <2>2. StatusTyped'  BY <1>19 DEF Apologises, StatusTyped
  <2>3. JournalKnows'  BY <1>19 DEF Apologises, JournalKnows
  <2> QED BY ScriptStep, <2>1, <2>2, <2>3
<1>20. CASE Notes
  <2>1. DeployTyped'  BY <1>20 DEF Notes, DeployTyped
  <2>2. StatusTyped'  BY <1>20 DEF Notes, StatusTyped
  <2>3. JournalKnows'  BY <1>20 DEF Notes, JournalKnows
  <2> QED BY ScriptStep, <2>1, <2>2, <2>3
<1>21. CASE StepFails
  <2>1. DeployTyped'  BY <1>21 DEF StepFails, DeployTyped
  <2>2. StatusTyped'  BY <1>21 DEF StepFails, StatusTyped
  <2>3. JournalKnows'  BY <1>21 DEF StepFails, JournalKnows
  <2> QED BY ScriptStep, <2>1, <2>2, <2>3
<1>22. CASE ReportFails
  <2>1. DeployTyped'  BY <1>22 DEF ReportFails, DeployTyped
  <2>2. StatusTyped'  BY <1>22 DEF ReportFails, DeployTyped, StatusTyped
  <2>3. JournalKnows'  BY <1>22 DEF ReportFails, JournalKnows
  <2> QED BY ScriptStep, <2>1, <2>2, <2>3
<1>23. CASE AnnounceFails
  <2>1. DeployTyped'  BY <1>23 DEF AnnounceFails, DeployTyped
  <2>2. StatusTyped'  BY <1>23 DEF AnnounceFails, StatusTyped
  <2>3. JournalKnows'  BY <1>23 DEF AnnounceFails, JournalKnows
  <2> QED BY ScriptStep, <2>1, <2>2, <2>3
<1>24. CASE ControllerDies
  <2>1. DeployTyped'  BY <1>24 DEF ControllerDies, DeployTyped
  <2>2. StatusTyped'  BY <1>24 DEF ControllerDies, StatusTyped
  <2>3. JournalKnows'  BY <1>24 DEF ControllerDies, JournalKnows
  <2> QED BY ScriptStep, <2>1, <2>2, <2>3
<1>25. CASE ScriptBegins
  <2>1. DeployTyped'  BY <1>25 DEF ScriptBegins, DeployTyped
  <2>2. StatusTyped'  BY <1>25 DEF ScriptBegins, StatusTyped
  <2>3. JournalKnows'  BY <1>25 DEF ScriptBegins, JournalKnows
  <2> QED BY ScriptStep, <2>1, <2>2, <2>3
<1>26. CASE ScriptMerges
  <2>1. DeployTyped'  BY <1>26 DEF ScriptMerges, DeployTyped
  <2>2. StatusTyped'  BY <1>26 DEF ScriptMerges, StatusTyped
  <2>3. JournalKnows'  BY <1>26 DEF ScriptMerges, JournalKnows
  <2> QED BY ScriptStep, <2>1, <2>2, <2>3
<1>27. CASE ScriptRestarts
  <2>1. DeployTyped'  BY <1>27 DEF ScriptRestarts, DeployTyped, ScriptTyped
  <2>2. StatusTyped'  BY <1>27 DEF ScriptRestarts, StatusTyped
  <2>3. JournalKnows'  BY <1>27 DEF ScriptRestarts, JournalKnows
  <2> QED BY ScriptStep, <2>1, <2>2, <2>3
<1>28. CASE ScriptVerifies
  <2>1. DeployTyped'  BY <1>28 DEF ScriptVerifies, DeployTyped, ScriptTyped
  <2>2. StatusTyped'  BY <1>28 DEF ScriptVerifies, StatusTyped
  <2>3. JournalKnows'  BY <1>28 DEF ScriptVerifies, JournalKnows
  <2> QED BY ScriptStep, <2>1, <2>2, <2>3
<1>29. CASE UNCHANGED deployVars
  BY <1>29 DEF deployVars, ScriptTyped, DeployTyped, StatusTyped, JournalKnows
<1> QED
  BY <1>1, <1>2, <1>3, <1>4, <1>5, <1>6, <1>7, <1>8, <1>9, <1>10, <1>11, <1>12, <1>13, <1>14,
     <1>15, <1>16, <1>17, <1>18, <1>19, <1>20, <1>21, <1>22, <1>23, <1>24, <1>25, <1>26, <1>27,
     <1>28,
     <1>29
     DEF DeployNext, Advances

\* One step of the deployer while nobody deploys by hand.
LEMMA ReleaseStep == ASSUME Alone, Alone', DeployInv, ReleaseInv, [DeployNext]_deployVars
                     PROVE  ReleaseInv'
<1> USE DeployBounds DEF DeployInv, ReleaseInv, Current, Matches, Healthy, Started, Forward,
        Backward, Unbegun, Routings, Statuses, Releases, Transactions, Places, Numbers,
        Commits, Down, NoRecord, Waiting, Step, Goto, Fault, Posts, PostFails, machineVars,
        recordVars
<1>1. CASE Merges
  <2>1. Ordered'  BY <1>1 DEF Merges, DeployTyped, Ordered
  <2>2. LeftWhole'  BY <1>1 DEF Merges, LeftWhole
  <2>3. GoesForward'  BY <1>1 DEF Merges, GoesForward
  <2>4. GoesBack'  BY <1>1 DEF Merges, GoesBack
  <2> QED BY <2>1, <2>2, <2>3, <2>4
<1>2. CASE Polls
  <2>1. Ordered'  BY <1>2 DEF Polls, Ordered
  <2>2. LeftWhole'  BY <1>2 DEF Polls, LeftWhole
  <2>3. GoesForward'  BY <1>2 DEF Polls, GoesForward
  <2>4. GoesBack'  BY <1>2 DEF Polls, GoesBack
  <2> QED BY <2>1, <2>2, <2>3, <2>4
<1>3. CASE Refuses
  <2>1. Ordered'  BY <1>3 DEF Refuses, DeployTyped, StatusTyped, Ordered
  <2>2. LeftWhole'  BY <1>3 DEF Refuses, LeftWhole
  <2>3. GoesForward'  BY <1>3 DEF Refuses, GoesForward
  <2>4. GoesBack'  BY <1>3 DEF Refuses, GoesBack
  <2> QED BY <2>1, <2>2, <2>3, <2>4
<1>4. CASE Announces
  <2>1. Ordered'  BY <1>4 DEF Announces, DeployTyped, StatusTyped, Ordered
  <2>2. LeftWhole'  BY <1>4 DEF Announces, LeftWhole
  <2>3. GoesForward'  BY <1>4 DEF Announces, DeployTyped, GoesForward
  <2>4. GoesBack'  BY <1>4 DEF Announces, DeployTyped, GoesBack
  <2> QED BY <2>1, <2>2, <2>3, <2>4
<1>5. CASE Saves
  <2>1. Ordered'  BY <1>5 DEF Saves, DeployTyped, Ordered
  <2>2. LeftWhole'  BY <1>5 DEF Saves, LeftWhole
  <2>3. GoesForward'
    BY <1>5 DEF Saves, DeployTyped, StatusTyped, JournalKnows, Ordered, LeftWhole, GoesForward,
       GoesBack
  <2>4. GoesBack'  BY <1>5 DEF Saves, GoesBack
  <2> QED BY <2>1, <2>2, <2>3, <2>4
<1>6. CASE ChecksOut
  <2>1. Ordered'  BY <1>6 DEF ChecksOut, DeployTyped, JournalKnows, Ordered
  <2>2. LeftWhole'  BY <1>6 DEF ChecksOut, DeployTyped, JournalKnows, LeftWhole
  <2>3. GoesForward'  BY <1>6 DEF ChecksOut, DeployTyped, JournalKnows, Ordered, GoesForward
  <2>4. GoesBack'  BY <1>6 DEF ChecksOut, GoesBack
  <2> QED BY <2>1, <2>2, <2>3, <2>4
<1>7. CASE Syncs
  <2>1. Ordered'  BY <1>7 DEF Syncs, Ordered
  <2>2. LeftWhole'  BY <1>7 DEF Syncs, LeftWhole
  <2>3. GoesForward'  BY <1>7 DEF Syncs, GoesForward
  <2>4. GoesBack'  BY <1>7 DEF Syncs, GoesBack
  <2> QED BY <2>1, <2>2, <2>3, <2>4
<1>8. CASE Configures
  <2>1. Ordered'  BY <1>8 DEF Configures, Ordered
  <2>2. LeftWhole'  BY <1>8 DEF Configures, DeployTyped, JournalKnows, LeftWhole
  <2>3. GoesForward'  BY <1>8 DEF Configures, GoesForward
  <2>4. GoesBack'  BY <1>8 DEF Configures, GoesBack
  <2> QED BY <2>1, <2>2, <2>3, <2>4
<1>9. CASE Unloads
  <2>1. Ordered'  BY <1>9 DEF Unloads, Ordered
  <2>2. LeftWhole'  BY <1>9 DEF Unloads, DeployTyped, JournalKnows, LeftWhole
  <2>3. GoesForward'  BY <1>9 DEF Unloads, GoesForward
  <2>4. GoesBack'  BY <1>9 DEF Unloads, GoesBack
  <2> QED BY <2>1, <2>2, <2>3, <2>4
<1>10. CASE Loads
  <2>1. Ordered'  BY <1>10 DEF Loads, Ordered
  <2>2. LeftWhole'  BY <1>10 DEF Loads, LeftWhole
  <2>3. GoesForward'  BY <1>10 DEF Loads, GoesForward
  <2>4. GoesBack'  BY <1>10 DEF Loads, GoesBack
  <2> QED BY <2>1, <2>2, <2>3, <2>4
<1>11. CASE Verifies
  <2>1. Ordered'  BY <1>11 DEF Verifies, Ordered
  <2>2. LeftWhole'  BY <1>11 DEF Verifies, LeftWhole
  <2>3. GoesForward'  BY <1>11 DEF Verifies, DeployTyped, JournalKnows, GoesForward
  <2>4. GoesBack'  BY <1>11 DEF Verifies, GoesBack
  <2> QED BY <2>1, <2>2, <2>3, <2>4
<1>12. CASE Undoes
  <2>1. Ordered'  BY <1>12 DEF Undoes, DeployTyped, JournalKnows, Ordered
  <2>2. LeftWhole'  BY <1>12 DEF Undoes, DeployTyped, JournalKnows, LeftWhole
  <2>3. GoesForward'  BY <1>12 DEF Undoes, DeployTyped, JournalKnows, Ordered, GoesForward
  <2>4. GoesBack'  BY <1>12 DEF Undoes, GoesBack
  <2> QED BY <2>1, <2>2, <2>3, <2>4
<1>13. CASE Unsyncs
  <2>1. Ordered'  BY <1>13 DEF Unsyncs, Ordered
  <2>2. LeftWhole'  BY <1>13 DEF Unsyncs, LeftWhole
  <2>3. GoesForward'  BY <1>13 DEF Unsyncs, GoesForward
  <2>4. GoesBack'  BY <1>13 DEF Unsyncs, GoesBack
  <2> QED BY <2>1, <2>2, <2>3, <2>4
<1>14. CASE Reunloads
  <2>1. Ordered'  BY <1>14 DEF Reunloads, Ordered
  <2>2. LeftWhole'  BY <1>14 DEF Reunloads, DeployTyped, JournalKnows, LeftWhole
  <2>3. GoesForward'  BY <1>14 DEF Reunloads, GoesForward
  <2>4. GoesBack'  BY <1>14 DEF Reunloads, GoesBack
  <2> QED BY <2>1, <2>2, <2>3, <2>4
<1>15. CASE Reloads
  <2>1. Ordered'  BY <1>15 DEF Reloads, Ordered
  <2>2. LeftWhole'  BY <1>15 DEF Reloads, LeftWhole
  <2>3. GoesForward'  BY <1>15 DEF Reloads, DeployTyped, JournalKnows, GoesForward, GoesBack
  <2>4. GoesBack'  BY <1>15 DEF Reloads, GoesBack
  <2> QED BY <2>1, <2>2, <2>3, <2>4
<1>16. CASE Reverifies
  <2>1. Ordered'  BY <1>16 DEF Reverifies, DeployTyped, Ordered
  <2>2. LeftWhole'  BY <1>16 DEF Reverifies, LeftWhole
  <2>3. GoesForward'  BY <1>16 DEF Reverifies, GoesForward
  <2>4. GoesBack'  BY <1>16 DEF Reverifies, GoesBack
  <2> QED BY <2>1, <2>2, <2>3, <2>4
<1>17. CASE Concludes
  <2>1. Ordered'  BY <1>17 DEF Concludes, Ordered
  <2>2. LeftWhole'
    BY <1>17 DEF Concludes, DeployTyped, JournalKnows, LeftWhole, GoesForward, GoesBack
  <2>3. GoesForward'  BY <1>17 DEF Concludes, GoesForward
  <2>4. GoesBack'  BY <1>17 DEF Concludes, GoesBack
  <2> QED BY <2>1, <2>2, <2>3, <2>4
<1>18. CASE Reports
  <2>1. Ordered'  BY <1>18 DEF Reports, DeployTyped, Ordered
  <2>2. LeftWhole'  BY <1>18 DEF Reports, LeftWhole
  <2>3. GoesForward'  BY <1>18 DEF Reports, GoesForward
  <2>4. GoesBack'  BY <1>18 DEF Reports, GoesBack
  <2> QED BY <2>1, <2>2, <2>3, <2>4
<1>19. CASE Apologises
  <2>1. Ordered'  BY <1>19 DEF Apologises, DeployTyped, StatusTyped, Ordered
  <2>2. LeftWhole'  BY <1>19 DEF Apologises, LeftWhole
  <2>3. GoesForward'  BY <1>19 DEF Apologises, GoesForward
  <2>4. GoesBack'  BY <1>19 DEF Apologises, GoesBack
  <2> QED BY <2>1, <2>2, <2>3, <2>4
<1>20. CASE Notes
  <2>1. Ordered'  BY <1>20 DEF Notes, DeployTyped, Ordered
  <2>2. LeftWhole'  BY <1>20 DEF Notes, LeftWhole
  <2>3. GoesForward'  BY <1>20 DEF Notes, GoesForward
  <2>4. GoesBack'  BY <1>20 DEF Notes, GoesBack
  <2> QED BY <2>1, <2>2, <2>3, <2>4
<1>21. CASE StepFails
  <2>1. Ordered'  BY <1>21 DEF StepFails, Ordered
  <2>2. LeftWhole'  BY <1>21 DEF StepFails, LeftWhole
  <2>3. GoesForward'  BY <1>21 DEF StepFails, GoesForward
  <2>4. GoesBack'  BY <1>21 DEF StepFails, GoesBack
  <2> QED BY <2>1, <2>2, <2>3, <2>4
<1>22. CASE ReportFails
  <2>1. Ordered'  BY <1>22 DEF ReportFails, DeployTyped, StatusTyped, Ordered
  <2>2. LeftWhole'  BY <1>22 DEF ReportFails, LeftWhole
  <2>3. GoesForward'  BY <1>22 DEF ReportFails, GoesForward
  <2>4. GoesBack'  BY <1>22 DEF ReportFails, GoesBack
  <2> QED BY <2>1, <2>2, <2>3, <2>4
<1>23. CASE AnnounceFails
  <2>1. Ordered'  BY <1>23 DEF AnnounceFails, DeployTyped, StatusTyped, Ordered
  <2>2. LeftWhole'  BY <1>23 DEF AnnounceFails, LeftWhole
  <2>3. GoesForward'  BY <1>23 DEF AnnounceFails, GoesForward
  <2>4. GoesBack'  BY <1>23 DEF AnnounceFails, GoesBack
  <2> QED BY <2>1, <2>2, <2>3, <2>4
<1>24. CASE ControllerDies
  <2>1. Ordered'  BY <1>24 DEF ControllerDies, DeployTyped, Ordered
  <2>2. LeftWhole'  BY <1>24 DEF ControllerDies, LeftWhole
  <2>3. GoesForward'  BY <1>24 DEF ControllerDies, GoesForward
  <2>4. GoesBack'  BY <1>24 DEF ControllerDies, GoesBack
  <2> QED BY <2>1, <2>2, <2>3, <2>4
<1>25. CASE UNCHANGED deployVars
  BY <1>25 DEF deployVars, Ordered, LeftWhole, GoesForward, GoesBack
<1> QED
  BY <1>1, <1>2, <1>3, <1>4, <1>5, <1>6, <1>7, <1>8, <1>9, <1>10, <1>11, <1>12, <1>13, <1>14,
     <1>15, <1>16, <1>17, <1>18, <1>19, <1>20, <1>21, <1>22, <1>23, <1>24, <1>25
     DEF DeployNext, Advances,
         Alone, ScriptBegins, ScriptMerges, ScriptRestarts, ScriptVerifies

LEMMA DeployStart == DeployInit => DeployInv /\ ReleaseInv
<1> SUFFICES ASSUME DeployInit
             PROVE  DeployInv /\ Ordered /\ LeftWhole /\ GoesForward /\ GoesBack
  BY DEF ReleaseInv
<1> USE DeployBounds DEF DeployInit, Commits, NoRecord, Waiting
<1>1. DeployInv
  BY DEF DeployInv, DeployTyped, StatusTyped, ScriptTyped, JournalKnows, Routings, Statuses,
         Releases,
         Transactions, Places, Numbers, Forward, Backward, Unbegun
<1>2. Ordered
  BY DEF Ordered
<1>3. LeftWhole /\ GoesForward /\ GoesBack
  BY DEF LeftWhole, GoesForward, GoesBack, Current, Started, Healthy, Down, Backward
<1> QED BY <1>1, <1>2, <1>3

\* What the deployer knows at each of its places.
THEOREM DeployCorrect == DeploySpec => [](DeployInv /\ ReleaseInv)
<1>1. DeployInv /\ ReleaseInv /\ [DeployNext]_deployVars => (DeployInv /\ ReleaseInv)'
  BY ScriptStep, DeployStep, ReleaseStep DEF DeployInv, ReleaseInv
<1> QED BY DeployStart, <1>1, PTL DEF DeploySpec

\* Whatever fails or dies, and however often: between two transactions of the controller
\* the checkout, the dependencies, the LaunchAgent and the router are of one release, and
\* after a failed deployment they are what they were (qa_deploy.py).
THEOREM ReleasesStayWhole == DeploySpec => []ReleaseIsWhole
<1>1. ReleaseInv => ReleaseIsWhole
  BY DEF ReleaseInv, LeftWhole, ReleaseIsWhole, AtRest, Current
<1> QED BY DeployCorrect, <1>1, PTL

\* A success that GitHub is told of is true: the router runs that commit, with its
\* dependencies and routes, and is healthy (qa_deploy.py).
THEOREM SuccessesAreTrue == DeploySpec => SuccessIsTrue
<1> DEFINE Told(k) == Alone /\ reported[k] # "success" /\ reported'[k] = "success"
           Truth(k) == Healthy(router) /\ router.commit = k /\ Started = router
<1>1. ASSUME DeployInv, ReleaseInv, [DeployNext]_deployVars, NEW k \in Commits, Told(k)
      PROVE  Truth(k)
  <2> USE DEF Posts, PostFails, machineVars, recordVars, Step
  <2>1. DeployTyped /\ StatusTyped /\ JournalKnows /\ LeftWhole
    BY <1>1 DEF DeployInv, ReleaseInv
  <2>2. reported \in [Commits -> Statuses] /\ reported # reported'
    BY <2>1, <1>1 DEF StatusTyped
  <2>3. CASE Reports \/ ReportFails
    <3>1. controller.at = "reports" /\ k = journal.commit /\ journal.outcome = "success"
      BY <2>1, <2>2, <2>3, <1>1 DEF Reports, ReportFails, JournalKnows
    <3> QED BY <3>1, <2>1 DEF JournalKnows, LeftWhole, Current, Unbegun
  <2>4. CASE Announces \/ AnnounceFails
    <3>1. controller.at = "validates" /\ Matches(k)
      BY <2>2, <2>4, <1>1 DEF Announces, AnnounceFails, Matches
    <3> QED BY <3>1, <2>1 DEF JournalKnows, LeftWhole, Current, Unbegun, Matches
  <2>5. CASE Merges \/ Refuses \/ Apologises
    BY <2>2, <2>5, <1>1 DEF Merges, Refuses, Apologises
  <2>6. CASE UNCHANGED reported
    BY <2>2, <2>6
  <2> QED
    BY <1>1, <2>3, <2>4, <2>5, <2>6
       DEF DeployNext, Advances, deployVars, Polls, Saves, ChecksOut, Syncs, Configures, Unloads,
           Loads, Verifies, Undoes, Unsyncs, Reunloads, Reloads, Reverifies, Concludes, Notes,
           StepFails, ControllerDies, ScriptBegins, ScriptMerges, ScriptRestarts, ScriptVerifies
<1>2. DeployInv /\ ReleaseInv /\ [DeployNext]_deployVars =>
         [\A k \in Commits : Told(k) => Truth(k)]_deployVars
  BY <1>1
<1> QED BY DeployCorrect, <1>2, PTL DEF DeploySpec, SuccessIsTrue

-----------------------------------------------------------------------------
(* The tier lock *)

USE TurnAssumption

\* The queue holds the waiting turns, each once; only its head is scheduled.
QueueInv ==
    /\ LockTypeOK
    /\ \A i, j \in 1..Len(waiters) : waiters[i] = waiters[j] => i = j
    /\ \A i \in 1..Len(waiters) : stage[waiters[i]] = "queued"
    /\ \A t \in Turns : stage[t] = "queued" => \E i \in 1..Len(waiters) : waiters[i] = t
    /\ woken # {} => waiters # <<>> /\ woken = {Head(waiters)}

\* The lock has exactly the owner that the turns believe it has: one holder that was
\* not robbed of it, nobody scheduled while it is taken, and the Codex path's own
\* memory of the tier agrees with the turn that holds it.
OwnerInv ==
    /\ MutualExclusion
    /\ LockOwned
    /\ woken # {} => ~locked
    /\ keyHeld = heldTier
    /\ heldTier <=> \E c \in CodexTurns \ robbed : stage[c] = "held"
    /\ robbed \subseteq Holders

-----------------------------------------------------------------------------
(* The queue *)

\* RemoveAt takes out one element and keeps the order of the others.
LEMMA RemoveAtFacts ==
    ASSUME NEW S, NEW q \in Seq(S), NEW i \in 1..Len(q)
    PROVE  /\ RemoveAt(q, i) \in Seq(S)
           /\ Len(RemoveAt(q, i)) = Len(q) - 1
           /\ \A j \in 1..Len(q) - 1 :
                  RemoveAt(q, i)[j] = IF j < i THEN q[j] ELSE q[j + 1]
<1>. DEFINE u == SubSeq(q, 1, i - 1)
           v == SubSeq(q, i + 1, Len(q))
<1>1. /\ u \in Seq(S) /\ Len(u) = i - 1
      /\ \A j \in 1..i - 1 : u[j] = q[j]
  OBVIOUS
<1>2. /\ v \in Seq(S) /\ Len(v) = Len(q) - i
      /\ \A j \in 1..Len(q) - i : v[j] = q[j + i]
  OBVIOUS
<1>. HIDE DEF u, v
<1>3. /\ u \o v \in Seq(S) /\ Len(u \o v) = Len(q) - 1
      /\ \A j \in 1..Len(q) - 1 :
             (u \o v)[j] = IF j < i THEN u[j] ELSE v[j - (i - 1)]
  <2>1. /\ Len(u) + Len(v) = Len(q) - 1
        /\ \A j \in 1..Len(q) - 1 : j < i <=> j <= i - 1
    BY <1>1, <1>2
  <2>2. /\ u \o v \in Seq(S)
        /\ Len(u \o v) = Len(u) + Len(v)
        /\ \A j \in 1..Len(u) + Len(v) :
               (u \o v)[j] = IF j <= Len(u) THEN u[j] ELSE v[j - Len(u)]
    BY <1>1, <1>2, ConcatProperties
  <2>. QED  BY <1>1, <2>1, <2>2
<1>4. \A j \in 1..Len(q) - 1 :
          (u \o v)[j] = IF j < i THEN q[j] ELSE q[j + 1]
  <2>. SUFFICES ASSUME NEW j \in 1..Len(q) - 1
                PROVE  (u \o v)[j] = IF j < i THEN q[j] ELSE q[j + 1]
    OBVIOUS
  <2>1. CASE j < i
    BY <1>1, <1>3, <2>1
  <2>2. CASE ~(j < i)
    <3>1. j - (i - 1) \in 1..Len(q) - i
      BY <2>2
    <3>2. v[j - (i - 1)] = q[(j - (i - 1)) + i]
      BY <1>2, <3>1
    <3>. QED  BY <1>3, <2>2, <3>2
  <2>. QED  BY <2>1, <2>2
<1>5. RemoveAt(q, i) = u \o v
  BY DEF RemoveAt, u, v
<1>. QED  BY <1>3, <1>4, <1>5

\* Place finds a turn that is in the queue.
LEMMA PlaceFound ==
    ASSUME NEW t, NEW i \in 1..Len(waiters), waiters[i] = t
    PROVE  Place(t) \in 1..Len(waiters) /\ waiters[Place(t)] = t
BY DEF Place

\* The queue is well formed before the first turn.
LEMMA QueueInit == LockInit => QueueInv
<1>. SUFFICES ASSUME LockInit PROVE QueueInv
  OBVIOUS
<1>1. waiters = <<>> /\ Len(waiters) = 0 /\ waiters \in Seq(Turns)
  BY DEF LockInit
<1>2. \A t \in Turns : stage[t] = "idle"
  BY DEF LockInit
<1>3. LockTypeOK
  BY <1>1 DEF LockInit, LockTypeOK
<1>. QED  BY <1>1, <1>2, <1>3 DEF LockInit, QueueInv

\* A newcomer goes to the end of the queue.
LEMMA EnqueueStep ==
    ASSUME QueueInv, NEW t \in Turns, NEW timeout \in BOOLEAN,
           stage[t] = "idle", Enqueue(t, timeout)
    PROVE  QueueInv'
<1>1. /\ waiters' \in Seq(Turns)
      /\ Len(waiters') = Len(waiters) + 1
      /\ waiters'[Len(waiters) + 1] = t
      /\ \A i \in 1..Len(waiters) : waiters'[i] = waiters[i] /\ waiters[i] # t
  BY DEF QueueInv, LockTypeOK, Enqueue
<1>2. waiters # <<>> => Head(waiters') = Head(waiters)
  BY <1>1 DEF QueueInv, LockTypeOK
<1>3. LockTypeOK'
  BY <1>1 DEF QueueInv, LockTypeOK, Enqueue
<1>4. woken' # {} => waiters' # <<>> /\ woken' = {Head(waiters')}
  BY <1>1, <1>2 DEF QueueInv, LockTypeOK, Enqueue
<1>5. \A u \in Turns : stage'[u] = IF u = t THEN "queued" ELSE stage[u]
  BY DEF QueueInv, LockTypeOK, Enqueue
<1>6. \A i, j \in 1..Len(waiters') : waiters'[i] = waiters'[j] => i = j
  BY <1>1 DEF QueueInv, LockTypeOK
<1>7. \A i \in 1..Len(waiters') : stage'[waiters'[i]] = "queued"
  BY <1>1, <1>5 DEF QueueInv, LockTypeOK
<1>8. ASSUME NEW u \in Turns, stage'[u] = "queued"
      PROVE  \E i \in 1..Len(waiters') : waiters'[i] = u
  <2>1. CASE u = t
    BY <1>1, <2>1 DEF QueueInv, LockTypeOK
  <2>2. CASE u # t
    <3>1. PICK i \in 1..Len(waiters) : waiters[i] = u
      BY <1>5, <1>8, <2>2 DEF QueueInv
    <3>. QED  BY <1>1, <3>1 DEF QueueInv, LockTypeOK
  <2>. QED  BY <2>1, <2>2
<1>. QED  BY <1>3, <1>4, <1>6, <1>7, <1>8 DEF QueueInv

\* A cancelled waiter leaves the queue, and a wake-up it had is passed on.
LEMMA LeaveStep ==
    ASSUME QueueInv, NEW t \in Turns, stage[t] = "queued", Leave(t),
           NEW where \in {"idle", "bare"}, stage' = [stage EXCEPT ![t] = where],
           UNCHANGED <<locked, timed, keyHeld, heldTier, robbed>>
    PROVE  QueueInv'
<1>. DEFINE p == Place(t)
<1>1. p \in 1..Len(waiters) /\ waiters[p] = t
  BY PlaceFound DEF QueueInv
<1>2. /\ waiters' \in Seq(Turns)
      /\ Len(waiters') = Len(waiters) - 1
      /\ \A j \in 1..Len(waiters) - 1 :
             waiters'[j] = IF j < p THEN waiters[j] ELSE waiters[j + 1]
  <2>1. waiters \in Seq(Turns) /\ waiters' = RemoveAt(waiters, p)
    BY DEF QueueInv, LockTypeOK, Leave
  <2>. HIDE DEF p
  <2>. QED  BY <1>1, <2>1, RemoveAtFacts
<1>. HIDE DEF p
<1>3. \A u \in Turns : stage'[u] = IF u = t THEN where ELSE stage[u]
  BY DEF QueueInv, LockTypeOK
<1>4. \A j \in 1..Len(waiters') : waiters'[j] # t
  BY <1>1, <1>2 DEF QueueInv, LockTypeOK
<1>5. \A i, j \in 1..Len(waiters') : waiters'[i] = waiters'[j] => i = j
  <2>. DEFINE at(i) == IF i < p THEN i ELSE i + 1
  <2>1. /\ Len(waiters) \in Nat /\ p \in 1..Len(waiters)
        /\ \A i, j \in 1..Len(waiters) : waiters[i] = waiters[j] => i = j
    BY <1>1 DEF QueueInv, LockTypeOK
  <2>2. \A i \in 1..Len(waiters') : at(i) \in 1..Len(waiters) /\ waiters'[i] = waiters[at(i)]
    BY <1>2, <2>1
  <2>3. \A i, j \in 1..Len(waiters') : at(i) = at(j) => i = j
    BY <1>2, <2>1
  <2>. HIDE DEF at
  <2>. QED  BY <2>1, <2>2, <2>3
<1>6. \A j \in 1..Len(waiters') : stage'[waiters'[j]] = "queued"
  <2>. SUFFICES ASSUME NEW j \in 1..Len(waiters') PROVE stage'[waiters'[j]] = "queued"
    OBVIOUS
  <2>1. \E i \in 1..Len(waiters) : waiters'[j] = waiters[i]
    BY <1>1, <1>2 DEF QueueInv, LockTypeOK
  <2>2. stage[waiters'[j]] = "queued" /\ waiters'[j] \in Turns
    BY <2>1, <1>2 DEF QueueInv, LockTypeOK
  <2>. QED  BY <1>3, <1>4, <2>2
<1>7. ASSUME NEW u \in Turns, stage'[u] = "queued"
      PROVE  \E j \in 1..Len(waiters') : waiters'[j] = u
  <2>1. u # t /\ stage[u] = "queued"
    BY <1>3, <1>7
  <2>2. PICK i \in 1..Len(waiters) : waiters[i] = u
    BY <2>1 DEF QueueInv
  <2>3. CASE i < p
    BY <1>1, <1>2, <2>2, <2>3 DEF QueueInv, LockTypeOK
  <2>4. CASE i > p
    <3>1. i - 1 \in 1..Len(waiters') /\ ~(i - 1 < p)
      BY <1>1, <1>2, <2>4 DEF QueueInv, LockTypeOK
    <3>2. waiters'[i - 1] = u
      BY <1>2, <2>2, <3>1 DEF QueueInv, LockTypeOK
    <3>. QED  BY <3>1, <3>2
  <2>5. i # p
    BY <1>1, <2>1, <2>2
  <2>. QED  BY <1>1, <2>3, <2>4, <2>5
<1>8. ASSUME woken \ {t} # {}
      PROVE  waiters' # <<>> /\ woken \ {t} = {Head(waiters')}
  <2>1. woken = {Head(waiters)} /\ Head(waiters) = waiters[1] /\ waiters[1] # t
    BY <1>8 DEF QueueInv, LockTypeOK
  <2>2. 1 < p
    BY <1>1, <2>1 DEF QueueInv, LockTypeOK
  <2>3. waiters' # <<>> /\ Head(waiters') = waiters[1]
    BY <1>1, <1>2, <2>2 DEF QueueInv, LockTypeOK
  <2>. QED  BY <2>1, <2>3
<1>9. woken' # {} => waiters' # <<>> /\ woken' = {Head(waiters')}
  BY <1>8 DEF Leave, Woken
<1>10. woken' \in SUBSET Turns
  <2>1. waiters' # <<>> => Head(waiters') \in Turns
    BY <1>2
  <2>. QED  BY <1>9, <2>1
<1>11. LockTypeOK'
  BY <1>2, <1>10 DEF QueueInv, LockTypeOK
<1>. QED  BY <1>5, <1>6, <1>7, <1>9, <1>11 DEF QueueInv

\* A turn that ends is not in the queue; handing the lock back schedules the
\* head at most.
LEMMA EndStep ==
    ASSUME QueueInv, NEW t \in Turns, stage[t] \in {"held", "bare"},
           stage' = [stage EXCEPT ![t] = "idle"],
           Unlock \/ UNCHANGED <<locked, woken>>,
           keyHeld' \in BOOLEAN, heldTier' \in BOOLEAN, robbed' \in SUBSET CodexTurns,
           UNCHANGED <<waiters, timed>>
    PROVE  QueueInv'
<1>1. woken' # {} => waiters # <<>> /\ woken' = {Head(waiters)}
  BY DEF QueueInv, Unlock, Woken
<1>2. waiters # <<>> => Head(waiters) \in Turns
  BY DEF QueueInv, LockTypeOK
<1>3. LockTypeOK'
  BY <1>1, <1>2 DEF QueueInv, LockTypeOK, Unlock
<1>4. \A u \in Turns : stage'[u] = IF u = t THEN "idle" ELSE stage[u]
  BY DEF QueueInv, LockTypeOK
<1>5. \A i \in 1..Len(waiters) : waiters[i] \in Turns /\ waiters[i] # t
  BY DEF QueueInv, LockTypeOK
<1>. QED  BY <1>1, <1>3, <1>4, <1>5 DEF QueueInv

\* A turn that takes the lock without waiting leaves the queue as it was.
LEMMA TakeStep ==
    ASSUME QueueInv, NEW t \in Turns, stage[t] = "idle",
           stage' = [stage EXCEPT ![t] = "held"], locked' = TRUE,
           keyHeld' \in BOOLEAN, heldTier' \in BOOLEAN,
           UNCHANGED <<waiters, woken, timed, robbed>>
    PROVE  QueueInv'
<1>1. \A u \in Turns : stage'[u] = IF u = t THEN "held" ELSE stage[u]
  BY DEF QueueInv, LockTypeOK
<1>2. \A i \in 1..Len(waiters) : waiters[i] \in Turns /\ waiters[i] # t
  BY DEF QueueInv, LockTypeOK
<1>3. LockTypeOK'
  BY DEF QueueInv, LockTypeOK
<1>. QED  BY <1>1, <1>2, <1>3 DEF QueueInv

\* The scheduled waiter is the head, and it leaves the queue.
LEMMA ResumeStep ==
    ASSUME QueueInv, NEW t \in Turns, Resume(t)
    PROVE  QueueInv'
<1>1. waiters # <<>> /\ t = waiters[1]
  BY DEF QueueInv, LockTypeOK, Resume
<1>2. /\ waiters' \in Seq(Turns)
      /\ Len(waiters') = Len(waiters) - 1
      /\ \A i \in 1..Len(waiters') : waiters'[i] = waiters[i + 1]
  BY <1>1 DEF QueueInv, LockTypeOK, Resume
<1>3. \A u \in Turns : stage'[u] = IF u = t THEN "held" ELSE stage[u]
  BY DEF QueueInv, LockTypeOK, Resume
<1>4. LockTypeOK'
  BY <1>2 DEF QueueInv, LockTypeOK, Resume
<1>5. \A i, j \in 1..Len(waiters') : waiters'[i] = waiters'[j] => i = j
  BY <1>2 DEF QueueInv, LockTypeOK
<1>6. \A i \in 1..Len(waiters') : waiters'[i] \in Turns /\ waiters'[i] # t
                                /\ stage[waiters'[i]] = "queued"
  <2>. SUFFICES ASSUME NEW i \in 1..Len(waiters')
                PROVE  /\ waiters'[i] \in Turns /\ waiters'[i] # t
                       /\ stage[waiters'[i]] = "queued"
    OBVIOUS
  <2>1. 1 \in 1..Len(waiters) /\ i + 1 \in 1..Len(waiters) /\ i + 1 # 1
    BY <1>1, <1>2 DEF QueueInv, LockTypeOK
  <2>2. waiters[i + 1] # waiters[1]
    BY <2>1 DEF QueueInv
  <2>. QED  BY <1>1, <1>2, <2>1, <2>2 DEF QueueInv, LockTypeOK
<1>7. ASSUME NEW u \in Turns, stage'[u] = "queued"
      PROVE  \E j \in 1..Len(waiters') : waiters'[j] = u
  <2>1. u # t /\ stage[u] = "queued"
    BY <1>3, <1>7
  <2>2. PICK i \in 1..Len(waiters) : waiters[i] = u
    BY <2>1 DEF QueueInv
  <2>3. i # 1
    BY <1>1, <2>1, <2>2
  <2>4. i - 1 \in 1..Len(waiters') /\ waiters'[i - 1] = u
    BY <1>2, <2>2, <2>3 DEF QueueInv, LockTypeOK
  <2>. QED  BY <2>4
<1>8. woken' = {}
  BY DEF Resume
<1>. QED  BY <1>3, <1>4, <1>5, <1>6, <1>7, <1>8 DEF QueueInv

\* Every step keeps the queue well formed.
LEMMA QueueStep == QueueInv /\ [LockNext]_lockVars => QueueInv'
<1> SUFFICES ASSUME QueueInv, [LockNext]_lockVars PROVE QueueInv'
  OBVIOUS
<1>. USE DEF Turns
<1>1. ASSUME NEW t \in Turns, HoldFree(t) PROVE QueueInv'
  <2>1. CASE Enqueue(t, FALSE)
    BY <1>1, <2>1, EnqueueStep DEF HoldFree
  <2>2. CASE ~Enqueue(t, FALSE)
    <3>1. keyHeld' \in BOOLEAN /\ heldTier' \in BOOLEAN
      BY <1>1, <2>2 DEF HoldFree, QueueInv, LockTypeOK
    <3>. QED  BY <1>1, <2>2, <3>1, TakeStep DEF HoldFree
  <2>. QED  BY <2>1, <2>2
<1>2. ASSUME NEW t \in Turns, HoldBusy(t) PROVE QueueInv'
  BY <1>2, EnqueueStep DEF HoldBusy
<1>3. ASSUME NEW t \in Turns, CodexTakes(t) PROVE QueueInv'
  <2>1. CASE Enqueue(t, TRUE)
    BY <1>3, <2>1, EnqueueStep DEF CodexTakes
  <2>2. CASE ~Enqueue(t, TRUE)
    BY <1>3, <2>2, TakeStep DEF CodexTakes
  <2>. QED  BY <2>1, <2>2
<1>4. ASSUME NEW t \in Turns, Resume(t) PROVE QueueInv'
  BY <1>4, ResumeStep
<1>5. ASSUME NEW t \in Turns, GiveUp(t) PROVE QueueInv'
  BY <1>5, LeaveStep DEF GiveUp
<1>6. ASSUME NEW t \in Turns, HangUp(t) PROVE QueueInv'
  BY <1>6, LeaveStep DEF HangUp
<1>7. ASSUME NEW t \in Turns, ClaudeEnds(t) PROVE QueueInv'
  <2>1. keyHeld' \in BOOLEAN /\ heldTier' \in BOOLEAN /\ robbed' \in SUBSET CodexTurns
    BY <1>7 DEF ClaudeEnds, QueueInv, LockTypeOK
  <2>. QED  BY <1>7, <2>1, EndStep DEF ClaudeEnds
<1>8. ASSUME NEW t \in Turns, CodexEnds(t) PROVE QueueInv'
  <2>1. keyHeld' \in BOOLEAN /\ heldTier' \in BOOLEAN /\ robbed' \in SUBSET CodexTurns
    BY <1>8 DEF CodexEnds, Release, QueueInv, LockTypeOK
  <2>2. Unlock \/ UNCHANGED <<locked, woken>>
    BY <1>8 DEF CodexEnds, Release
  <2>. QED  BY <1>8, <2>1, <2>2, EndStep DEF CodexEnds
<1>9. CASE UNCHANGED lockVars
  BY <1>9 DEF lockVars, QueueInv, LockTypeOK
<1>. QED  BY <1>1, <1>2, <1>3, <1>4, <1>5, <1>6, <1>7, <1>8, <1>9 DEF LockNext

\* The queue is well formed in every reachable state.
LEMMA QueueAlways == LockSpec => []QueueInv
BY QueueInit, QueueStep, PTL DEF LockSpec

\* Type correctness of the lock, for any turns of either path.
THEOREM LockTypeCorrect == LockSpec => []LockTypeOK
<1>1. QueueInv => LockTypeOK
  BY DEF QueueInv
<1>. QED  BY <1>1, QueueAlways, PTL

-----------------------------------------------------------------------------
(* Ownership *)

\* Nobody owns the free lock of the initial state.
LEMMA OwnerInit == LockInit => OwnerInv
BY DEF LockInit, OwnerInv, MutualExclusion, LockOwned, Holders, Turns

\* The turn that hands back the Codex path's lock leaves every Codex turn without one.
LEMMA CodexEndsStep ==
    ASSUME QueueInv, OwnerInv, NEW t \in Turns, CodexEnds(t)
    PROVE  OwnerInv'
<1>. USE DEF OwnerInv, MutualExclusion, LockOwned, Holders, QueueInv, LockTypeOK, Turns
<1>0. \A u \in Turns : stage'[u] = IF u = t THEN "idle" ELSE stage[u]
  BY DEF CodexEnds
<1>1. CASE heldTier
  <2>1. PICK c \in CodexTurns \ robbed : stage[c] = "held"
    BY <1>1
  <2>2. locked /\ \A u \in Holders \ robbed : u = c
    BY <2>1
  <2>3. /\ locked' = FALSE /\ keyHeld' = FALSE /\ heldTier' = FALSE
        /\ robbed' = (robbed \union (Holders \intersect CodexTurns)) \ {t}
    BY <1>1, <2>2 DEF CodexEnds, Release, Unlock
  <2>4. Holders' \ robbed' = {}
    BY <1>0, <2>2, <2>3
  <2>5. robbed' \subseteq Holders'
    BY <1>0, <2>3
  <2>6. MutualExclusion' /\ LockOwned'
    BY <2>3, <2>4
  <2>7. ~\E d \in CodexTurns \ robbed' : stage'[d] = "held"
    BY <2>4
  <2>. QED  BY <2>3, <2>5, <2>6, <2>7
<1>2. CASE ~heldTier
  <2>1. /\ UNCHANGED <<locked, woken, keyHeld, heldTier>>
        /\ robbed' = robbed \ {t}
    BY <1>2 DEF CodexEnds
  <2>2. t \notin Holders \ robbed
    BY <1>2 DEF CodexEnds
  <2>3. Holders' \ robbed' = Holders \ robbed
    BY <1>0, <2>1, <2>2
  <2>4. robbed' \subseteq Holders'
    BY <1>0, <2>1
  <2>5. ~\E d \in CodexTurns \ robbed' : stage'[d] = "held"
    BY <1>0, <1>2, <2>1
  <2>6. MutualExclusion'
    BY <2>3
  <2>. QED  BY <1>2, <2>1, <2>3, <2>4, <2>5, <2>6
<1>. QED  BY <1>1, <1>2

\* Ownership moves only through the lock, or is lost when another Codex turn ends.
LEMMA OwnerStep == QueueInv /\ OwnerInv /\ [LockNext]_lockVars => OwnerInv'
<1> SUFFICES ASSUME QueueInv, OwnerInv, [LockNext]_lockVars
             PROVE  OwnerInv'
  OBVIOUS
<1>. USE DEF OwnerInv, MutualExclusion, LockOwned, Holders, QueueInv, LockTypeOK, Turns
<1>1. ASSUME NEW t \in Turns, HoldFree(t) PROVE OwnerInv'
  BY <1>1 DEF HoldFree, Immediate, Enqueue
<1>2. ASSUME NEW t \in Turns, HoldBusy(t) PROVE OwnerInv'
  BY <1>2 DEF HoldBusy, Enqueue
<1>3. ASSUME NEW t \in Turns, CodexTakes(t) PROVE OwnerInv'
  <2>1. CASE Enqueue(t, TRUE)
    BY <1>3, <2>1 DEF CodexTakes, Enqueue
  <2>2. CASE ~Enqueue(t, TRUE)
    <3>1. /\ ~locked /\ woken = {} /\ ~heldTier /\ t \notin robbed
          /\ locked' /\ keyHeld' /\ heldTier' /\ woken' = woken /\ robbed' = robbed
      BY <1>3, <2>2 DEF CodexTakes, Immediate
    <3>2. \A u \in Turns : stage'[u] = IF u = t THEN "held" ELSE stage[u]
      BY <1>3, <2>2 DEF CodexTakes
    <3>3. Holders \ robbed = {}
      BY <3>1
    <3>4. t \in CodexTurns
      BY <1>3 DEF CodexTakes
    <3>5. Holders' = Holders \union {t}
      BY <3>2
    <3>. QED  BY <3>1, <3>2, <3>3, <3>4, <3>5
  <2>. QED  BY <2>1, <2>2
<1>4. ASSUME NEW t \in Turns, Resume(t) PROVE OwnerInv'
  <2>1. /\ ~locked /\ ~heldTier /\ ~keyHeld /\ locked' /\ woken' = {} /\ robbed' = robbed
        /\ keyHeld' = (t \in CodexTurns) /\ heldTier' = (t \in CodexTurns)
        /\ Holders \ robbed = {}
    BY <1>4 DEF Resume
  <2>2. \A u \in Turns : stage'[u] = IF u = t THEN "held" ELSE stage[u]
    BY <1>4 DEF Resume
  <2>3. stage[t] = "queued"
    <3>1. waiters # <<>> /\ t = waiters[1] /\ 1 \in 1..Len(waiters)
      BY <1>4 DEF Resume
    <3>. QED  BY <3>1
  <2>4. t \notin robbed /\ Holders' = Holders \union {t}
    BY <2>2, <2>3
  <2>5. Holders' \ robbed' = {t}
    BY <2>1, <2>4
  <2>6. MutualExclusion' /\ LockOwned' /\ robbed' \subseteq Holders'
    BY <2>1, <2>4, <2>5
  <2>7. heldTier' <=> \E d \in CodexTurns \ robbed' : stage'[d] = "held"
    <3>1. \A d \in CodexTurns : d \notin robbed' /\ stage'[d] = "held" => d = t
      BY <2>5
    <3>2. t \in CodexTurns => t \in CodexTurns \ robbed' /\ stage'[t] = "held"
      BY <2>1, <2>2, <2>4
    <3>. QED  BY <2>1, <3>1, <3>2
  <2>. QED  BY <2>1, <2>6, <2>7
<1>5. ASSUME NEW t \in Turns, GiveUp(t) PROVE OwnerInv'
  BY <1>5 DEF GiveUp, Leave, Woken
<1>6. ASSUME NEW t \in Turns, HangUp(t) PROVE OwnerInv'
  BY <1>6 DEF HangUp, Leave, Woken
<1>7. ASSUME NEW t \in Turns, ClaudeEnds(t) PROVE OwnerInv'
  BY <1>7 DEF ClaudeEnds, Unlock, Woken
<1>8. ASSUME NEW t \in Turns, CodexEnds(t) PROVE OwnerInv'
  BY <1>8, CodexEndsStep
<1>9. CASE UNCHANGED lockVars
  BY <1>9 DEF lockVars
<1>. QED  BY <1>1, <1>2, <1>3, <1>4, <1>5, <1>6, <1>7, <1>8, <1>9 DEF LockNext

\* The ownership invariant of the whole specification.
LEMMA OwnerAlways == LockSpec => []OwnerInv
BY OwnerInit, OwnerStep, QueueAlways, PTL DEF LockSpec

\* Two turns that both took the tier generate together only if one of them is a Codex
\* turn whose lock another Codex turn's end handed back, through timeouts, hang-ups and
\* wake-ups in any order, for any number of turns of either path.
THEOREM LockIsExclusive == LockSpec => []MutualExclusion
<1>1. OwnerInv => MutualExclusion
  BY DEF OwnerInv
<1>. QED  BY <1>1, OwnerAlways, PTL

\* The lock is never left taken by nobody: it is locked exactly while a turn holds it
\* that was not robbed of it, so no later turn sits out its timeout for a holder that
\* is gone.
THEOREM LockIsOwned == LockSpec => []LockOwned
<1>1. OwnerInv => LockOwned
  BY DEF OwnerInv
<1>. QED  BY <1>1, OwnerAlways, PTL

-----------------------------------------------------------------------------
(* The archive                                                              *)

Snapshots == [id : Nat \ {0}, parent : Nat, active : Nat]
TurnRecords == [phase : Phases \union {"idle", "sent", "refused"},
          transcript : Transcripts \union {<<>>}, lineage : Nat]
Identifiers == {None} \union {lineages[s].id : s \in DOMAIN lineages}

ArchiveTyped ==
    /\ lineages \in [DOMAIN lineages -> Snapshots]
    /\ made \in Nat /\ day \in Nat
    /\ request \in [Requests -> TurnRecords]
    /\ DOMAIN runs = Threads

\* A call began today or yesterday.
IsCall(c) ==
    /\ c = [owner |-> c.owner, kind |-> c.kind, transcript |-> c.transcript, at |-> c.at]
    /\ c.at \in Nat /\ c.at <= day /\ day <= c.at + 1
CallsAreRecent == \A h \in Threads : runs[h] # Idle => IsCall(runs[h])

StoreWhole ==
    \A t \in DOMAIN lineages :
       Range(t) \subseteq bodies /\ lineages[t].parent \in Identifiers

\* Nor was what a turn selects from used before yesterday.
SelectionLasts ==
    \A r \in Requests : request[r].phase \in {"prune", "select", "fit"} =>
       /\ request[r].transcript \in DOMAIN lineages
       /\ lineages[request[r].transcript].id = request[r].lineage
       /\ day <= lineages[request[r].transcript].active + 1

ArchiveInv == ArchiveTyped /\ CallsAreRecent /\ StoreWhole /\ SelectionLasts

\* What a call of that day does to the store: it stays whole, and whatever was in use a
\* day before stays.
StoreMoves(at) ==
    /\ lineages' \in [DOMAIN lineages' -> Snapshots]
    /\ made' \in Nat
    /\ StoreWhole'
    /\ \A s \in DOMAIN lineages : at <= lineages[s].active + 1 =>
          /\ s \in DOMAIN lineages'
          /\ lineages'[s].id = lineages[s].id
          /\ lineages'[s].active \in {lineages[s].active, at}

LEMMA ParentIsThere == ASSUME NEW t  PROVE  Parent(t) \in Identifiers
<1> DEFINE best == {s \in DOMAIN lineages : /\ Shared(s, t) > 0
                                            /\ \A o \in DOMAIN lineages : Shared(o, t) <= Shared(s, t)}
<1>1. CASE Cardinality(best) = 1
  <2>1. best # {}
    BY <1>1, FS_EmptySet
  <2>2. (CHOOSE s \in best : TRUE) \in best
    BY <2>1
  <2>3. Parent(t) = lineages[CHOOSE s \in best : TRUE].id
    BY <1>1 DEF Parent
  <2> QED BY <2>2, <2>3 DEF Identifiers
<1>2. CASE Cardinality(best) # 1
  BY <1>2 DEF Parent, Identifiers
<1> QED BY <1>1, <1>2

\* A transcript is stored with all of its bodies, under a parent that is there.
LEMMA ArchivesWhole ==
    ASSUME ArchiveTyped, StoreWhole, NEW t, NEW at \in Nat, Archives(t, at)
    PROVE  /\ StoreMoves(at)
           /\ t \in DOMAIN lineages' /\ lineages'[t].active = at
<1>1. CASE t \in DOMAIN lineages
  <2>1. /\ lineages' = [lineages EXCEPT ![t].active = at]
        /\ UNCHANGED <<bodies, made>>
    BY <1>1 DEF Archives
  <2>2. /\ DOMAIN lineages' = DOMAIN lineages
        /\ lineages' \in [DOMAIN lineages -> Snapshots]
        /\ \A s \in DOMAIN lineages : /\ lineages'[s].id = lineages[s].id
                                      /\ lineages'[s].parent = lineages[s].parent
                                      /\ lineages'[s].active = IF s = t THEN at ELSE lineages[s].active
    BY <1>1, <2>1 DEF ArchiveTyped, Snapshots
  <2>3. Identifiers' = Identifiers
    BY <2>2 DEF Identifiers
  <2>4. StoreWhole'
    BY <2>1, <2>2, <2>3 DEF StoreWhole
  <2> QED BY <1>1, <2>1, <2>2, <2>4 DEF StoreMoves, ArchiveTyped
<1>2. CASE t \notin DOMAIN lineages
  <2> DEFINE new == [id |-> made + 1, parent |-> Parent(t), active |-> at]
  <2>1. /\ lineages' = [s \in DOMAIN lineages \union {t} |-> IF s = t THEN new ELSE lineages[s]]
        /\ bodies' = bodies \union Range(t)
        /\ made' = made + 1
    BY <1>2 DEF Archives
  <2>2. Parent(t) \in Identifiers
    BY ParentIsThere
  <2>3. new \in Snapshots /\ new.parent \in Identifiers /\ new.active = at
    BY <2>2 DEF ArchiveTyped, Snapshots, Identifiers, None
  <2> HIDE DEF new
  <2>4. /\ DOMAIN lineages' = DOMAIN lineages \union {t}
        /\ lineages' \in [DOMAIN lineages' -> Snapshots]
        /\ lineages'[t] = new
        /\ \A s \in DOMAIN lineages : lineages'[s] = lineages[s]
    BY <1>2, <2>1, <2>3 DEF ArchiveTyped
  <2>5. Identifiers \subseteq Identifiers'
    BY <2>4 DEF Identifiers
  <2>6. StoreWhole'
    BY <2>1, <2>3, <2>4, <2>5 DEF StoreWhole
  <2> QED BY <2>1, <2>3, <2>4, <2>6 DEF StoreMoves, ArchiveTyped
<1> QED BY <1>1, <1>2

\* Pruning takes what is stale, and leaves the rest with all of its bodies.
LEMMA PrunesWhole ==
    ASSUME ArchiveTyped, StoreWhole, NEW at \in Nat, Prunes(at)
    PROVE  StoreMoves(at)
<1> DEFINE stale == Stale(at)
           kept == DOMAIN lineages \ stale
<1>1. /\ lineages' = Without(stale)
      /\ bodies' = IF stale = {} THEN bodies
                   ELSE bodies \intersect UNION {Range(t) : t \in DOMAIN lineages'}
      /\ made' = made
  BY DEF Prunes
<1>2. \A s \in DOMAIN lineages : at <= lineages[s].active + 1 => s \in kept
  BY DaysAssumption DEF Stale, ArchiveTyped, Snapshots
<1>3. stale \subseteq DOMAIN lineages
  BY DEF Stale
<1> HIDE DEF stale
<1>4. /\ DOMAIN lineages' = kept
      /\ lineages' \in [kept -> Snapshots]
      /\ \A t \in kept : /\ lineages'[t].id = lineages[t].id
                         /\ lineages'[t].active = lineages[t].active
                         /\ lineages'[t].parent = IF \E s \in stale : lineages[s].id = lineages[t].parent
                                                  THEN None ELSE lineages[t].parent
  BY <1>1 DEF Without, ArchiveTyped, Snapshots, None
<1>5. None \in Identifiers' /\ \A s \in kept : lineages'[s].id \in Identifiers'
  BY <1>4 DEF Identifiers, None
<1>6. ASSUME NEW t \in kept
      PROVE  Range(t) \subseteq bodies' /\ lineages'[t].parent \in Identifiers'
  <2>1. Range(t) \subseteq bodies /\ lineages[t].parent \in Identifiers
    BY DEF StoreWhole
  <2>2. Range(t) \subseteq bodies'
    BY <1>1, <1>4, <2>1
  <2>3. CASE \E s \in stale : lineages[s].id = lineages[t].parent
    BY <1>4, <1>5, <2>2, <2>3
  <2>4. CASE ~\E s \in stale : lineages[s].id = lineages[t].parent
    <3>1. lineages'[t].parent = lineages[t].parent
      BY <1>4, <2>4
    <3>2. CASE lineages[t].parent = None
      BY <2>2, <3>1, <3>2, <1>5
    <3>3. CASE lineages[t].parent # None
      <4>1. PICK s \in DOMAIN lineages : lineages[s].id = lineages[t].parent
        BY <2>1, <3>3 DEF Identifiers
      <4>2. s \in kept
        BY <4>1, <2>4
      <4> QED BY <2>2, <4>1, <4>2, <3>1, <1>4, <1>5
    <3> QED BY <3>2, <3>3
  <2> QED BY <2>2, <2>3, <2>4
<1>7. StoreWhole'
  BY <1>4, <1>6 DEF StoreWhole
<1> QED BY <1>1, <1>2, <1>4, <1>7 DEF StoreMoves, ArchiveTyped

LEMMA StoreRests ==
    ASSUME ArchiveTyped, StoreWhole, NEW at \in Nat, UNCHANGED storeVars
    PROVE  StoreMoves(at)
BY DEF StoreMoves, StoreWhole, Identifiers, storeVars, ArchiveTyped

\* Calls that run are as recent after a step that lets them go on or ends them.
LEMMA CallsStayRecent ==
    ASSUME ArchiveTyped, CallsAreRecent, UNCHANGED day, DOMAIN runs' = Threads,
           \A h \in Threads :
              runs'[h] \in {runs[h], Idle, IF runs[h] = Idle THEN Idle
                                          ELSE [runs[h] EXCEPT !.owner = Nobody]}
    PROVE  CallsAreRecent'
BY DEF CallsAreRecent, IsCall, Idle

\* What a turn selects from stays, whatever call of yesterday or today ends.
LEMMA SelectionStays ==
    ASSUME ArchiveTyped, SelectionLasts, NEW at \in Nat, at <= day, day <= at + 1,
           StoreMoves(at), UNCHANGED day,
           NEW r \in Requests, request[r].phase \in {"prune", "select", "fit"}
    PROVE  /\ request[r].transcript \in DOMAIN lineages'
           /\ lineages'[request[r].transcript].id = request[r].lineage
           /\ day' <= lineages'[request[r].transcript].active + 1
<1> DEFINE t == request[r].transcript
<1>1. t \in DOMAIN lineages /\ lineages[t].id = request[r].lineage /\ day <= lineages[t].active + 1
  BY DEF SelectionLasts
<1>2. lineages[t].active \in Nat /\ day \in Nat
  BY <1>1 DEF ArchiveTyped, Snapshots
<1> HIDE DEF t
<1>3. t \in DOMAIN lineages' /\ lineages'[t].id = lineages[t].id
      /\ lineages'[t].active \in {lineages[t].active, at}
  BY <1>1, <1>2 DEF StoreMoves
<1>4. day' <= lineages'[t].active + 1
  BY <1>1, <1>2, <1>3
<1> QED BY <1>1, <1>3, <1>4 DEF t

\* A step that leaves the store alone keeps it whole.
LEMMA StoreStays == ASSUME StoreWhole, UNCHANGED storeVars
                    PROVE  StoreWhole'
BY DEF StoreWhole, Identifiers, storeVars

-----------------------------------------------------------------------------
LEMMA ArchiveStart == ArchiveInit => ArchiveInv
BY DEF ArchiveInit, ArchiveInv, ArchiveTyped, CallsAreRecent, StoreWhole, SelectionLasts, TurnRecords,
       Fresh, Idle, None, Phases

LEMMA BeginsKeeps == ASSUME ArchiveInv, NEW h \in Threads, Begins(h)
                     PROVE  ArchiveInv'
<1> USE DEF ArchiveInv
<1>1. ArchiveTyped' /\ SelectionLasts'
  BY DEF Begins, storeVars, ArchiveTyped, SelectionLasts
<1>2. StoreWhole'
  BY StoreStays DEF Begins
<1>3. CallsAreRecent'
  <2>1. IsCall(Begun(Head(waiting)))
    BY DEF IsCall, Begun, Begins, ArchiveTyped
  <2>2. \A k \in Threads : runs'[k] = IF k = h THEN Begun(Head(waiting)) ELSE runs[k]
    BY DEF Begins, ArchiveTyped
  <2> QED BY <2>1, <2>2 DEF CallsAreRecent, IsCall, Begins, Begun
<1> QED BY <1>1, <1>2, <1>3

LEMMA EndsLateKeeps == ASSUME ArchiveInv, NEW h \in Threads, EndsLate(h)
                       PROVE  ArchiveInv'
<1> USE DEF ArchiveInv
<1> DEFINE at == runs[h].at
<1>1. runs[h] # Idle /\ at \in Nat /\ at <= day /\ day <= at + 1
  BY DEF EndsLate, Runs, CallsAreRecent, IsCall
<1> HIDE DEF at
<1>2. StoreMoves(at)
  <2>1. Archives(runs[h].transcript, at) \/ Prunes(at) \/ UNCHANGED storeVars
    BY DEF EndsLate, at
  <2> QED BY <1>1, <2>1, ArchivesWhole, PrunesWhole, StoreRests
<1>3. ArchiveTyped' /\ StoreWhole'
  BY <1>2 DEF EndsLate, Frees, ArchiveTyped, StoreMoves
<1>4. CallsAreRecent'
  <2>1. DOMAIN runs' = Threads /\ \A k \in Threads : runs'[k] \in {runs[k], Idle}
    BY DEF EndsLate, Frees, ArchiveTyped
  <2> QED BY <2>1, CallsStayRecent DEF EndsLate
<1>5. SelectionLasts'
  BY <1>1, <1>2, SelectionStays DEF EndsLate, SelectionLasts
<1> QED BY <1>3, <1>4, <1>5

LEMMA WorkerGoesOnKeeps == ASSUME ArchiveInv, NEW h \in Threads, WorkerGoesOn(h)
                           PROVE  ArchiveInv'
<1> USE DEF ArchiveInv
<1> DEFINE at == runs[h].at
<1>1. runs[h] # Idle /\ at \in Nat /\ at <= day /\ day <= at + 1
  BY DEF WorkerGoesOn, Runs, CallsAreRecent, IsCall
<1> HIDE DEF at
<1>2. StoreMoves(at)
  <2>1. Archives(worker, at) \/ Prunes(at) \/ UNCHANGED storeVars
    BY DEF WorkerGoesOn, at
  <2> QED BY <1>1, <2>1, ArchivesWhole, PrunesWhole, StoreRests
<1>3. ArchiveTyped' /\ StoreWhole'
  BY <1>2 DEF WorkerGoesOn, Frees, ArchiveTyped, StoreMoves
<1>4. CallsAreRecent'
  <2>1. DOMAIN runs' = Threads /\ \A k \in Threads : runs'[k] \in {runs[k], Idle}
    BY DEF WorkerGoesOn, Frees, ArchiveTyped
  <2> QED BY <2>1, CallsStayRecent DEF WorkerGoesOn
<1>5. SelectionLasts'
  BY <1>1, <1>2, SelectionStays DEF WorkerGoesOn, SelectionLasts
<1> QED BY <1>3, <1>4, <1>5

\* Where a turn goes on to: with its lineage, or without one.
LEMMA GoesTo ==
    ASSUME ArchiveTyped, NEW r \in Requests, NEW p, NEW lineage, NEW calls,
           Goes(r, p, lineage, calls)
    PROVE  \A q \in Requests :
              request'[q] = IF q = r
                            THEN [phase |-> p, lineage |-> lineage,
                                  transcript |-> IF lineage = None THEN <<>> ELSE request[r].transcript]
                            ELSE request[q]
BY DEF Goes, ArchiveTyped

\* A turn goes on with a phase of its preparation, or with its end.
LEMMA GoesTyped ==
    ASSUME ArchiveTyped, NEW r \in Requests, NEW p \in Phases \union {"idle", "sent", "refused"},
           NEW lineage \in Nat, NEW calls, Goes(r, p, lineage, calls)
    PROVE  request' \in [Requests -> TurnRecords]
BY DEF Goes, ArchiveTyped, TurnRecords

\* One turn goes on to p, the others stay where they are.
LEMMA SelectionGoesOn ==
    ASSUME ArchiveTyped, SelectionLasts, NEW at \in Nat, at <= day, day <= at + 1,
           StoreMoves(at), UNCHANGED day,
           NEW r \in Requests, NEW p, NEW lineage, NEW calls, Goes(r, p, lineage, calls),
           p \in {"prune", "select", "fit"} =>
              /\ lineage = request[r].lineage /\ lineage # None
              /\ request[r].phase \in {"prune", "select", "fit"}
    PROVE  SelectionLasts'
<1> SUFFICES ASSUME NEW q \in Requests, request'[q].phase \in {"prune", "select", "fit"}
             PROVE  /\ request'[q].transcript \in DOMAIN lineages'
                    /\ lineages'[request'[q].transcript].id = request'[q].lineage
                    /\ day' <= lineages'[request'[q].transcript].active + 1
  BY DEF SelectionLasts
<1>1. /\ request[q].phase \in {"prune", "select", "fit"}
      /\ request'[q].transcript = request[q].transcript
      /\ request'[q].lineage = request[q].lineage
  <2>1. CASE q = r
    <3>1. request'[r] = [phase |-> p, lineage |-> lineage,
                         transcript |-> IF lineage = None THEN <<>> ELSE request[r].transcript]
      BY GoesTo
    <3> QED BY <2>1, <3>1
  <2>2. CASE q # r
    <3>1. request'[q] = request[q]
      BY <2>2, GoesTo
    <3> QED BY <3>1
  <2> QED BY <2>1, <2>2
<1> QED BY <1>1, SelectionStays

LEMMA ReturnsKeeps == ASSUME ArchiveInv, NEW h \in Threads, NEW r \in Requests, Returns(r, h)
                      PROVE  ArchiveInv'
<1> USE DEF ArchiveInv
<1> DEFINE at == runs[h].at
<1>1. runs[h] # Idle /\ at \in Nat /\ at <= day /\ day <= at + 1 /\ UNCHANGED day
  BY DEF Returns, Runs, CallsAreRecent, IsCall
<1>2. DOMAIN runs' = Threads /\ CallsAreRecent'
  <2>1. DOMAIN runs' = Threads /\ \A k \in Threads : runs'[k] \in {runs[k], Idle}
    BY DEF Returns, Frees, ArchiveTyped
  <2> QED BY <1>1, <2>1, CallsStayRecent
<1>3. request[r].lineage \in Nat
  BY DEF ArchiveTyped, TurnRecords
<1>4. CASE Archived(r, h)
  <2> DEFINE t == request[r].transcript
             new == lineages'[t].id
  <2>1. StoreMoves(at) /\ t \in DOMAIN lineages' /\ lineages'[t].active = at
    BY <1>1, <1>4, ArchivesWhole DEF Archived
  <2>2. new \in Nat /\ new # None
    BY <2>1 DEF StoreMoves, Snapshots, None
  <2>3. Goes(r, "prune", new, waiting)
    BY <1>4 DEF Archived
  <2> HIDE DEF at, new
  <2>4. request' \in [Requests -> TurnRecords]
    BY <2>2, <2>3, GoesTyped DEF Phases
  <2>5. ASSUME NEW q \in Requests, request'[q].phase \in {"prune", "select", "fit"}
        PROVE  /\ request'[q].transcript \in DOMAIN lineages'
               /\ lineages'[request'[q].transcript].id = request'[q].lineage
               /\ day' <= lineages'[request'[q].transcript].active + 1
    <3>1. CASE q = r
      <4>1. request'[r] = [phase |-> "prune", lineage |-> new,
                           transcript |-> IF new = None THEN <<>> ELSE t]
        BY <2>3, GoesTo
      <4>2. request'[r].lineage = new /\ request'[r].transcript = t
        BY <2>2, <4>1
      <4> QED BY <1>1, <2>1, <3>1, <4>2 DEF new, ArchiveTyped
    <3>2. CASE q # r
      <4>1. request'[q] = request[q]
        BY <2>3, <3>2, GoesTo
      <4> QED BY <1>1, <2>1, <2>5, <4>1, SelectionStays
    <3> QED BY <3>1, <3>2
  <2>6. SelectionLasts'
    BY <2>5 DEF SelectionLasts
  <2> QED BY <1>1, <1>2, <2>1, <2>4, <2>6 DEF ArchiveTyped, StoreMoves
<1>5. CASE Pruned(r, h) \/ Selected(r) \/ TailChosen(r) \/ Fitted(r)
  <2>1. StoreMoves(at)
    <3>1. Prunes(at) \/ UNCHANGED storeVars
      BY <1>5 DEF Pruned, Selected, TailChosen, Fitted
    <3> QED BY <1>1, <3>1, PrunesWhole, StoreRests
  <2> HIDE DEF at
  <2>2. PICK p \in {"select", "fit", "tail_fit", "sent", "refused"}, lineage \in Nat :
           /\ Goes(r, p, lineage, waiting)
           /\ p \in {"select", "fit"} => /\ lineage = request[r].lineage
                                         /\ request[r].phase \in {"prune", "select"}
    BY <1>3, <1>5 DEF Pruned, Selected, TailChosen, Fitted, None
  <2>3. request' \in [Requests -> TurnRecords]
    BY <2>2, GoesTyped DEF Phases
  <2>4. request[r].phase \in {"prune", "select"} => request[r].lineage # None
    BY DEF SelectionLasts, ArchiveTyped, Snapshots, None
  <2>5. SelectionLasts'
    BY <1>1, <2>1, <2>2, <2>4, SelectionGoesOn
  <2> QED BY <1>1, <1>2, <2>1, <2>3, <2>5 DEF ArchiveTyped, StoreMoves
<1> QED BY <1>4, <1>5 DEF Returns

\* A call whose deadline passed runs on for nobody.
LEMMA AbandonsKeeps == ASSUME ArchiveTyped, CallsAreRecent, NEW owner, Abandons(owner), UNCHANGED day
                       PROVE  DOMAIN runs' = Threads /\ CallsAreRecent'
<1>1. DOMAIN runs' = Threads /\
      \A h \in Threads :
         runs'[h] \in {runs[h], IF runs[h] = Idle THEN Idle
                               ELSE [runs[h] EXCEPT !.owner = Nobody]}
  BY DEF Abandons, Runs
<1> QED BY <1>1, CallsStayRecent

LEMMA GivesUpKeeps == ASSUME ArchiveInv, NEW r \in Requests, GivesUp(r)
                      PROVE  ArchiveInv'
<1> USE DEF ArchiveInv
<1>1. DOMAIN runs' = Threads /\ CallsAreRecent'
  BY AbandonsKeeps DEF GivesUp
<1>2. UNCHANGED <<storeVars, day>> /\ day \in Nat
  BY DEF GivesUp, ArchiveTyped
<1>3. StoreMoves(day) /\ StoreWhole'
  BY <1>2, StoreRests, StoreStays
<1>4. PICK p \in {"select", "tail"}, lineage \in Nat :
         /\ Goes(r, p, lineage, Withdrawn(r))
         /\ p = "select" => lineage = request[r].lineage /\ request[r].phase = "prune"
  BY DEF GivesUp, ArchiveTyped, TurnRecords, None
<1>5. request' \in [Requests -> TurnRecords]
  BY <1>4, GoesTyped DEF Phases
<1>6. request[r].phase = "prune" => request[r].lineage # None
  BY DEF SelectionLasts, ArchiveTyped, Snapshots, None
<1>7. SelectionLasts'
  BY <1>2, <1>3, <1>4, <1>6, SelectionGoesOn
<1> QED BY <1>1, <1>2, <1>3, <1>5, <1>7 DEF ArchiveTyped, storeVars

\* The other steps touch neither the store nor a call that runs.
LEMMA OthersKeep ==
    ASSUME ArchiveInv,
           \/ \E r \in Requests : Leaves(r) \/ \E t \in Transcripts : Prepares(r, t)
           \/ \E t \in Transcripts : ArchivesCloud(t)
           \/ WorkerTakes \/ WorkerGivesUp \/ DayPasses \/ UNCHANGED archiveVars
    PROVE  ArchiveInv'
<1> USE DEF ArchiveInv
<1>1. CASE \E r \in Requests : Leaves(r) \/ \E t \in Transcripts : Prepares(r, t)
  <2>1. PICK r \in Requests, turn \in TurnRecords :
           /\ request' = [request EXCEPT ![r] = turn]
           /\ turn.phase \in {"idle", "archive"}
    <3>1. CASE \E r \in Requests : Leaves(r)
      <4>1. Fresh \in TurnRecords /\ Fresh.phase = "idle"
        BY DEF Fresh, TurnRecords, None
      <4> QED BY <3>1, <4>1 DEF Leaves
    <3>2. CASE \E r \in Requests, t \in Transcripts : Prepares(r, t)
      <4>1. PICK r \in Requests, t \in Transcripts : Prepares(r, t)
        BY <3>2
      <4> DEFINE turn == [phase |-> "archive", transcript |-> t, lineage |-> None]
      <4>2. turn \in TurnRecords /\ turn.phase = "archive"
        BY DEF TurnRecords, Phases, None
      <4>3. request' = [request EXCEPT ![r] = turn]
        BY <4>1 DEF Prepares
      <4> QED BY <4>2, <4>3
    <3> QED BY <1>1, <3>1, <3>2
  <2>2. UNCHANGED <<storeVars, runs, day>>
    BY <1>1 DEF Leaves, Prepares
  <2>3. ArchiveTyped' /\ SelectionLasts'
    BY <2>1, <2>2 DEF ArchiveTyped, SelectionLasts, storeVars
  <2> QED BY <2>2, <2>3, StoreStays DEF CallsAreRecent, IsCall
<1>2. CASE WorkerGivesUp
  <2>1. DOMAIN runs' = Threads /\ CallsAreRecent'
    BY <1>2, AbandonsKeeps DEF WorkerGivesUp
  <2> QED BY <1>2, <2>1, StoreStays DEF WorkerGivesUp, ArchiveTyped, SelectionLasts, storeVars
<1>3. CASE DayPasses
  <2>1. UNCHANGED <<storeVars, runs, request>> /\ day' = day + 1
    BY <1>3 DEF DayPasses
  <2>2. CallsAreRecent'
    BY <1>3, <2>1 DEF DayPasses, CallsAreRecent, IsCall, ArchiveTyped
  <2>3. SelectionLasts'
    BY <1>3, <2>1 DEF DayPasses, SelectionLasts, Hurried
  <2> QED BY <2>1, <2>2, <2>3, StoreStays DEF ArchiveTyped, storeVars
<1>4. CASE (\E t \in Transcripts : ArchivesCloud(t)) \/ WorkerTakes \/ UNCHANGED archiveVars
  <2>1. UNCHANGED <<storeVars, runs, request, day>>
    BY <1>4 DEF ArchivesCloud, WorkerTakes, archiveVars, storeVars
  <2> QED
    BY <2>1, StoreStays DEF ArchiveTyped, SelectionLasts, CallsAreRecent, IsCall, storeVars
<1> QED BY <1>1, <1>2, <1>3, <1>4

\* What is known of the store, of the calls that run and of what turns select from.
THEOREM ArchiveCorrect == ArchiveSpec => []ArchiveInv
<1>1. ArchiveInv /\ [ArchiveNext]_archiveVars => ArchiveInv'
  BY BeginsKeeps, EndsLateKeeps, WorkerGoesOnKeeps, ReturnsKeeps, GivesUpKeeps, OthersKeep
     DEF ArchiveNext
<1> QED BY ArchiveStart, <1>1, PTL DEF ArchiveSpec

\* Whatever calls end after their deadlines: every snapshot has all of its bodies, no parent
\* is gone, and what a turn selects from is there until it is done (context_store.py,
\* prepare_local of context_runtime.py).
THEOREM SnapshotsStayWhole == ArchiveSpec => []SnapshotsWhole
<1>1. ArchiveInv => SnapshotsWhole
  BY DEF ArchiveInv, StoreWhole, SelectionLasts, SnapshotsWhole, Identifiers
<1> QED BY ArchiveCorrect, <1>1, PTL
=============================================================================

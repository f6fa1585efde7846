----------------------------- MODULE UpstreamHold -----------------------------
(***************************************************************************)
(* The Claude path's attempt on the cloud, _try_upstream in                *)
(* src/proxy/routes.py, composed with its breaker (FailoverBreaker.tla).   *)
(*                                                                         *)
(* A turn whose attempt dies while the breaker is still deciding is held:  *)
(* it sleeps, asks the breaker again and, if its request cannot have been  *)
(* delivered, sends again.  Each turn is one coroutine, split where it     *)
(* awaits: the attempt, the verdict on a worker thread, and the sleep.     *)
(*                                                                         *)
(* A tick is one retry interval (_HOLD_RETRY_SECONDS).  The router's own   *)
(* steps take no time, except that a turn may resume up to a tick after    *)
(* its verdict was reached.  An attempt of _upstream_send stands for the   *)
(* send and its one replay: only the last of them can have been delivered. *)
(***************************************************************************)
EXTENDS Naturals, FiniteSets

CONSTANTS
    Turns,           \* concurrent requests to /v1/messages
    Claude,          \* the breaker of the Claude path
    Grace,           \* _HOLD_GRACE_SECONDS
    Threshold, Window, MinOutage, ProbeInterval, NotifyCooldown

ClaudeBreaker == {Claude}
OfflineGated == {}      \* get_breaker passes require_offline=False
Probed == {Claude}      \* and a service_fn

HoldBound == MinOutage + Grace

\* The defaults (60 s against 20 s + 5 s, and 20 s within 120 s) satisfy it; the
\* code does not check.  A burst that may not last MinOutage never opens anything.
SlotAssumption ==
    /\ Grace \in Nat \ {0} /\ Threshold \in Nat \ {0}
    /\ {Window, MinOutage, ProbeInterval, NotifyCooldown} \subseteq Nat
    /\ ProbeInterval > HoldBound
    /\ MinOutage <= Window

VARIABLES
    open, onTransport, failures, sinceFirst, sinceProbe, sinceRecovery,
    sinceNotice, announced, active, publishing, unseen, verdict, todo, probing,
    reachable, sinceSuccess     \* the breaker's, see FailoverBreaker.tla

VARIABLES
    pc,        \* where each turn is suspended, or how it was answered
    kind,      \* what its last failure says: could the request have left?
    said,      \* what record_failure returned to it
    holding,   \* hold_deadline is set
    heldFor,   \* time since the hold began
    nap,       \* time in the present sleep, or since the verdict
    resend,    \* resend_is_safe
    leased,    \* environment: another process holds the GPU
    accepted   \* history: attempts of this turn the cloud may have accepted

breaker == <<open, onTransport, failures, sinceFirst, sinceProbe,
             sinceRecovery, sinceNotice, announced, active, publishing, unseen,
             verdict, todo, probing, reachable, sinceSuccess>>
turn == <<pc, kind, said, holding, heldFor, nap, resend, accepted>>
holdVars == <<breaker, turn, leased>>

Br == INSTANCE FailoverBreaker WITH Breakers <- ClaudeBreaker

Attempting == {"first", "again"}
Verdict == {"died", "ruled", "failing", "answered"}
Outcomes == {"relayed", "local", "refused"}

HoldInit ==
    /\ Br!BreakerInit
    /\ pc = [t \in Turns |-> "idle"]
    /\ kind = [t \in Turns |-> "undelivered"]
    /\ said = [t \in Turns |-> FALSE]
    /\ holding = [t \in Turns |-> FALSE]
    /\ heldFor = [t \in Turns |-> 0]
    /\ nap = [t \in Turns |-> 0]
    /\ resend = [t \in Turns |-> TRUE]
    /\ accepted = [t \in Turns |-> 0]
    /\ leased \in BOOLEAN

-----------------------------------------------------------------------------
TurnGoes(t, where) == pc' = [pc EXCEPT ![t] = where]

SlotDue == sinceProbe[Claude] >= ProbeInterval

\* allow_upstream: always while closed, once per interval while open.
Allowed == ~open[Claude] \/ SlotDue

TakeSlot == IF open[Claude] THEN Br!AllowUpstream(Claude) ELSE UNCHANGED breaker

\* The coroutine returns, and its locals with it.
Returns(t, how) ==
    /\ TurnGoes(t, how)
    /\ kind' = [kind EXCEPT ![t] = "undelivered"]
    /\ said' = [said EXCEPT ![t] = FALSE]
    /\ holding' = [holding EXCEPT ![t] = FALSE]
    /\ heldFor' = [heldFor EXCEPT ![t] = 0]
    /\ nap' = [nap EXCEPT ![t] = 0]
    /\ resend' = [resend EXCEPT ![t] = TRUE]
    /\ accepted' = [accepted EXCEPT ![t] = 0]

Arrives(t) ==
    /\ pc[t] = "idle"
    /\ \/ /\ Allowed
          /\ TakeSlot
          /\ TurnGoes(t, "first")
          /\ UNCHANGED <<kind, said, holding, heldFor, nap, resend, accepted>>
       \/ /\ ~Allowed
          /\ UNCHANGED breaker
          /\ Returns(t, "local")
    /\ UNCHANGED leased

\* A transport error, or the end of the time a held attempt was given: only a
\* connect or pool error proves that nothing was delivered.
AttemptDies(t, k) ==
    /\ pc[t] \in Attempting
    /\ TurnGoes(t, "died")
    /\ kind' = [kind EXCEPT ![t] = k]
    /\ accepted' = [accepted EXCEPT ![t] = IF k = "uncertain" THEN @ + 1 ELSE @]
    /\ UNCHANGED <<breaker, said, holding, heldFor, nap, resend, leased>>

\* Response headers: a failover status, or anything else.
AttemptAnswers(t, status) ==
    /\ pc[t] \in Attempting
    /\ TurnGoes(t, status)
    /\ accepted' = [accepted EXCEPT ![t] = @ + 1]
    /\ UNCHANGED <<breaker, kind, said, holding, heldFor, nap, resend, leased>>

\* _breaker_failure_lock is held until the turn that reported resumes.
VerdictLockFree == \A u \in Turns : pc[u] # "ruled"

\* await _record_failure
Reports(t) ==
    /\ pc[t] = "died"
    /\ VerdictLockFree
    /\ Br!RecordFailure(Claude, TRUE, FALSE)
    /\ said' = [said EXCEPT ![t] = open'[Claude]]
    /\ nap' = [nap EXCEPT ![t] = 0]
    /\ TurnGoes(t, "ruled")
    /\ UNCHANGED <<kind, holding, heldFor, resend, accepted, leased>>

\* A turn that goes on has done with its exception and its verdict.
Forget(t) ==
    /\ kind' = [kind EXCEPT ![t] = "undelivered"]
    /\ said' = [said EXCEPT ![t] = FALSE]
    /\ nap' = [nap EXCEPT ![t] = 0]
    /\ UNCHANGED accepted

Held(t) == IF holding[t] THEN heldFor[t] ELSE 0

\* The breaker rules while this turn hears of it: it is served locally (declined
\* if another process owns the GPU), or refused.
Ruling(t) ==
    \/ /\ said[t]
       /\ Returns(t, IF leased THEN "refused" ELSE "local")
    \/ /\ ~said[t] /\ ~Br!Deciding(Claude)
       /\ Returns(t, "refused")

\* The breaker is still deciding, and the hold is used up.
UsedUp(t) ==
    /\ ~said[t] /\ Br!Deciding(Claude)
    /\ Held(t) >= HoldBound
    /\ Returns(t, "refused")

\* The breaker is still deciding: the turn is held from its first failure on.
Pending(t) ==
    /\ ~said[t] /\ Br!Deciding(Claude)
    /\ Held(t) < HoldBound
    /\ holding' = [holding EXCEPT ![t] = TRUE]
    /\ heldFor' = [heldFor EXCEPT ![t] = Held(t)]
    /\ TurnGoes(t, "asleep")
    /\ Forget(t)

\* Mutant: a held turn forgets that its request may have been delivered.
MutForgetsDelivery(t) ==
    /\ pc[t] = "ruled"
    /\ publishing = {}
    /\ \/ Ruling(t) \/ UsedUp(t)
       \/ Pending(t) /\ UNCHANGED resend
    /\ UNCHANGED <<breaker, leased>>

\* Mutant: no hold, a pending verdict is answered like a delivered one.
MutNoHold(t) ==
    /\ pc[t] = "ruled"
    /\ publishing = {}
    /\ Returns(t, IF said[t] /\ ~leased THEN "local" ELSE "refused")
    /\ UNCHANGED <<breaker, leased>>

\* The turn resumes with its verdict, once an opening is published.
HearsVerdict(t) ==
    /\ pc[t] = "ruled"
    /\ publishing = {}
    /\ \/ Ruling(t) \/ UsedUp(t)
       \/ /\ Pending(t)
          /\ resend' = [resend EXCEPT ![t] = @ /\ kind[t] = "undelivered"]
    /\ UNCHANGED <<breaker, leased>>

\* The sleep is over: give up on a breaker that opened, else send again if that
\* is safe, else sleep again unless the hold is used up.
Wakes(t) ==
    /\ pc[t] = "asleep"
    /\ nap[t] = 1
    /\ \/ /\ ~Allowed
          /\ Returns(t, "local")
          /\ UNCHANGED breaker
       \/ /\ Allowed /\ ~resend[t] /\ heldFor[t] >= HoldBound
          /\ TakeSlot
          /\ Returns(t, "refused")
       \/ /\ Allowed
          /\ \/ resend[t] /\ TurnGoes(t, "again")
             \/ ~resend[t] /\ heldFor[t] < HoldBound /\ TurnGoes(t, "asleep")
          /\ TakeSlot
          /\ nap' = [nap EXCEPT ![t] = 0]
          /\ UNCHANGED <<kind, said, holding, heldFor, resend, accepted>>
    /\ UNCHANGED leased

\* A failover status is reported as a failure the upstream answered with; below
\* the threshold the client gets the status as it is.
ReportsStatus(t) ==
    /\ pc[t] = "failing"
    /\ VerdictLockFree
    /\ Br!RecordFailure(Claude, FALSE, FALSE)
    /\ Returns(t, IF open'[Claude] THEN "local" ELSE "relayed")
    /\ UNCHANGED leased

ReportsSuccess(t) ==
    /\ pc[t] = "answered"
    /\ VerdictLockFree
    /\ Br!RecordSuccess(Claude)
    /\ Returns(t, "relayed")
    /\ UNCHANGED leased

\* The client has its answer; a new request may take the turn's place.
Leaves(t) ==
    /\ pc[t] \in Outcomes
    /\ TurnGoes(t, "idle")
    /\ UNCHANGED <<breaker, kind, said, holding, heldFor, nap, resend, accepted, leased>>

-----------------------------------------------------------------------------
\* Mutant: a held attempt runs on the client's own timeout.
MutUnboundedAttempt(t) ==
    \/ pc[t] \in {"died", "failing", "answered"}
    \/ pc[t] \in {"asleep", "ruled"} /\ nap[t] = 1

\* Steps that cannot wait: the router's own, a sleep that is over, and a held
\* attempt whose time (what was left of the hold) is used up.
Overdue(t) ==
    \/ pc[t] \in {"died", "failing", "answered"}
    \/ pc[t] \in {"asleep", "ruled"} /\ nap[t] = 1
    \/ pc[t] = "again" /\ heldFor[t] >= HoldBound

Tick ==
    /\ \A t \in Turns : ~Overdue(t)
    /\ Br!Tick
    /\ heldFor' = [t \in Turns |->
           IF holding[t]
           THEN Br!Least(heldFor[t] + 1, HoldBound + 2) ELSE heldFor[t]]
    /\ nap' = [t \in Turns |-> IF pc[t] \in {"asleep", "ruled"} THEN 1 ELSE nap[t]]
    /\ UNCHANGED <<pc, kind, said, holding, resend, accepted, leased>>

Ticker == Br!Ticker /\ UNCHANGED <<turn, leased>>

\* The worker thread of a verdict has shown its popup.
Publishes == Br!Publish(Claude) /\ UNCHANGED <<turn, leased>>

NetworkChanges == Br!NetworkChanges(Claude) /\ UNCHANGED <<turn, leased>>

LeaseChanges == leased' = ~leased /\ UNCHANGED <<breaker, turn>>

Goes(t) ==
    \/ HearsVerdict(t) \/ Wakes(t) \/ Reports(t)
    \/ ReportsStatus(t) \/ ReportsSuccess(t)

Ends(t) ==
    \/ \E k \in {"undelivered", "uncertain"} : AttemptDies(t, k)
    \/ \E status \in {"failing", "answered"} : AttemptAnswers(t, status)

HoldNext ==
    \/ \E t \in Turns : Arrives(t) \/ Ends(t) \/ Goes(t) \/ Leaves(t)
    \/ Tick \/ Ticker \/ Publishes \/ NetworkChanges \/ LeaseChanges

HoldSpec == HoldInit /\ [][HoldNext]_holdVars

-----------------------------------------------------------------------------
(* Properties *)

\* The shape of the state; the breaker's own invariant holds under this driver.
HoldTypeOK ==
    /\ Br!BreakerTypeOK
    /\ pc \in [Turns -> {"idle", "asleep"} \union Attempting \union Verdict
                        \union Outcomes]
    /\ kind \in [Turns -> {"undelivered", "uncertain"}]
    /\ said \in [Turns -> BOOLEAN]
    /\ holding \in [Turns -> BOOLEAN]
    /\ heldFor \in [Turns -> 0..HoldBound + 2]
    /\ nap \in [Turns -> 0..1]
    /\ resend \in [Turns -> BOOLEAN]
    /\ accepted \in [Turns -> Nat]
    /\ leased \in BOOLEAN

\* A turn is not idempotent: once the cloud may have accepted it, however long
\* it is held and however often it wakes, it is never sent again.
AskedOnce == \A t \in Turns : accepted[t] <= 1

\* Holding is bounded: no turn is held longer than the breaker's own gate and
\* the grace, give or take one retry interval, whatever its attempts do.
HoldBounded == \A t \in Turns : heldFor[t] <= HoldBound + 1

Refused(t) == pc[t] # "refused" /\ pc'[t] = "refused"

\* Reasons to refuse a turn: its hold is used up, its failure came at least
\* MinOutage into the burst, or another process owns the GPU.
Exhausted(t) ==
    \/ heldFor[t] >= HoldBound
    \/ sinceFirst[Claude] >= MinOutage
    \/ said[t] /\ leased

\* "A blip shorter than `min_outage` never reaches the client": a turn is not
\* refused while the breaker decides, unless a recovery probe that outlived its
\* outage cleared the burst under it.
BlipIsAbsorbed ==
    [][\A t \in Turns : Refused(t) => Exhausted(t) \/ failures[Claude] = 0]_holdVars

\* A half-open slot goes to a turn that asks the cloud: a held turn that may not
\* send again never uses one up (it would cost the outage a probe interval).
SlotsAreUsed ==
    [][\A t \in Turns :
         pc[t] = "asleep" /\ ~resend[t] /\ (pc'[t] # pc[t] \/ nap'[t] # nap[t])
             => sinceProbe'[Claude] >= sinceProbe[Claude]]_holdVars
=============================================================================

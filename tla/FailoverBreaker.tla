--------------------------- MODULE FailoverBreaker ---------------------------
(***************************************************************************)
(* The circuit breakers of src/proxy/failover.py (class FailoverBreaker),  *)
(* with the two things that drive them concurrently: requests, which       *)
(* report failures and successes, and the recovery ticker                  *)
(* (failover_recovery_loop in src/proxy/routes.py), which probes open      *)
(* breakers from a worker thread.                                          *)
(*                                                                         *)
(* The code compares monotonic timestamps; only their distance to "now" is *)
(* ever used, so the model keeps each timestamp as an age that stops       *)
(* growing at the largest value a comparison can tell apart.  No run has   *)
(* to bound time.  A reason string is not modelled.                        *)
(*                                                                         *)
(* Grain: a call is one step, except where it blocks: on a socket probe    *)
(* (_online() in record_failure, _online()/_service() in maybe_recover),   *)
(* and on the process that shows the popup of an opening (_notify), which  *)
(* comes after the look at the peers and before the entry in the registry. *)
(* There the call is split, and everything else may happen in between.     *)
(* (_close shows its popup before it changes anything.)                    *)
(***************************************************************************)
EXTENDS Naturals, FiniteSets

CONSTANTS
    Breakers,        \* the breakers that share one state file
    OfflineGated,    \* those built with require_offline=True
    Probed,          \* those built with a service_fn
    Threshold,       \* failures before a breaker may open
    Window,          \* seconds after which a failure starts a new burst
    MinOutage,       \* seconds a burst must last before the breaker opens
    ProbeInterval,   \* seconds between half-open slots, and between probes
    NotifyCooldown   \* seconds between two popups of one breaker

ASSUME BreakerAssumption ==
    /\ OfflineGated \subseteq Breakers
    /\ Probed \subseteq Breakers

ASSUME TimingAssumption ==
    /\ Threshold \in Nat \ {0}
    /\ Window \in Nat
    /\ MinOutage \in Nat
    /\ ProbeInterval \in Nat
    /\ NotifyCooldown \in Nat

VARIABLES
    open,            \* is b failing over?
    onTransport,     \* did b open on a transport error (not on a status)?
    failures,        \* failures in the current burst, counted up to Threshold
    sinceFirst,      \* age of the burst's first failure
    sinceProbe,      \* age of b's last half-open slot
    sinceRecovery,   \* age of b's last recovery probe
    sinceNotice,     \* age of b's last popup
    announced,       \* was the current outage of b announced?
    active,          \* the registry behind the state file
    publishing,      \* breakers that opened and are not yet entered there
    unseen,          \* history: the peers that b, opening, could not see open
    verdict,         \* a record_failure call waiting for _online()
    todo,            \* breakers the ticker still has to visit in this pass
    probing,         \* the breaker whose recovery probe is running: {} or {b}
    reachable,       \* environment: what b's probe would answer now
    sinceSuccess     \* history: age of b's last upstream success

breakerVars == <<open, onTransport, failures, sinceFirst, sinceProbe,
                 sinceRecovery, sinceNotice, announced, active, publishing,
                 unseen>>
failoverVars == <<open, onTransport, failures, sinceFirst, sinceProbe, sinceRecovery,
          sinceNotice, announced, active, publishing, unseen, verdict, todo,
          probing, reachable, sinceSuccess>>

-----------------------------------------------------------------------------
(* Ages *)

Least(x, y) == IF x <= y THEN x ELSE y
Greatest(x, y) == IF x <= y THEN y ELSE x

\* The burst's age is compared with Window (strictly) and with MinOutage.
BurstHorizon == Greatest(Window + 1, MinOutage)

Older(age, horizon) == Least(age + 1, horizon)

\* A probe's age ends up in the timers of the breaker it opens.
ProbeHorizon == Greatest(ProbeInterval, NotifyCooldown)

NoVerdict == [busy |-> FALSE, transport |-> TRUE, quiet |-> FALSE, age |-> 0]

Verdicts == [busy : BOOLEAN, transport : BOOLEAN, quiet : BOOLEAN,
             age : 0..ProbeHorizon]

-----------------------------------------------------------------------------
BreakerInit ==
    /\ open = [b \in Breakers |-> FALSE]
    /\ onTransport = [b \in Breakers |-> TRUE]
    /\ failures = [b \in Breakers |-> 0]
    /\ sinceFirst = [b \in Breakers |-> BurstHorizon]
    /\ sinceProbe = [b \in Breakers |-> ProbeInterval]
    /\ sinceRecovery = [b \in Breakers |-> ProbeInterval]
    /\ sinceNotice = [b \in Breakers |-> NotifyCooldown]
    /\ announced = [b \in Breakers |-> FALSE]
    /\ active = {}
    /\ publishing = {}
    /\ unseen = [b \in Breakers |-> {}]
    /\ verdict = [b \in Breakers |-> NoVerdict]
    /\ todo = {}
    /\ probing = {}
    /\ reachable \in [Breakers -> BOOLEAN]
    /\ sinceSuccess = [b \in Breakers |-> BurstHorizon]

-----------------------------------------------------------------------------
(* Opening and closing *)

PeerOpen(b) == \E p \in active : p # b

\* Mutant: one outage is announced by every breaker it hits.
MutPeerUnchecked(b, quiet, age) ==
    IF quiet
    THEN /\ announced' = [announced EXCEPT ![b] = FALSE]
         /\ UNCHANGED sinceNotice
    ELSE /\ announced' = [announced EXCEPT ![b] = TRUE]
         /\ sinceNotice' = [sinceNotice EXCEPT ![b] = Least(age, NotifyCooldown)]

\* _announce: at most one popup per cooldown, none while a peer is open.  `age`
\* is the time that has passed since the call read its clock.
Announce(b, quiet, age) ==
    IF quiet \/ PeerOpen(b)
    THEN /\ announced' = [announced EXCEPT ![b] = FALSE]
         /\ UNCHANGED sinceNotice
    ELSE /\ announced' = [announced EXCEPT ![b] = TRUE]
         /\ sinceNotice' = [sinceNotice EXCEPT ![b] = Least(age, NotifyCooldown)]

\* Mutant: opening does not start the half-open timer.
MutOpenSlotDue(b, transport, quiet, age) ==
    /\ open' = [open EXCEPT ![b] = TRUE]
    /\ onTransport' = [onTransport EXCEPT ![b] = transport]
    /\ sinceRecovery' = [sinceRecovery EXCEPT ![b] = Least(age, ProbeInterval)]
    /\ Announce(b, quiet, age)
    /\ publishing' = publishing \union {b}
    /\ unseen' = [unseen EXCEPT ![b] = {p \in publishing : open[p]}]
    /\ UNCHANGED <<sinceProbe, active>>

\* The end of record_failure when it opens the breaker, as far as the popup; quiet
\* and age as above.
OpenBreaker(b, transport, quiet, age) ==
    /\ open' = [open EXCEPT ![b] = TRUE]
    /\ onTransport' = [onTransport EXCEPT ![b] = transport]
    /\ sinceProbe' = [sinceProbe EXCEPT ![b] = Least(age, ProbeInterval)]
    /\ sinceRecovery' = [sinceRecovery EXCEPT ![b] = Least(age, ProbeInterval)]
    /\ Announce(b, quiet, age)
    /\ publishing' = publishing \union {b}
    /\ unseen' = [unseen EXCEPT ![b] = {p \in publishing : open[p]}]
    /\ UNCHANGED active

\* _publish after the popup: it enters the breaker as it is by then.
Publish(b) ==
    /\ b \in publishing
    /\ publishing' = publishing \ {b}
    /\ active' = IF open[b] THEN active \union {b} ELSE active \ {b}
    /\ UNCHANGED <<open, onTransport, failures, sinceFirst, sinceProbe,
                   sinceRecovery, sinceNotice, announced, unseen, verdict, todo,
                   probing, reachable, sinceSuccess>>

\* A breaker that closes no longer counts among those opened unseen.
NoLongerUnseen(b) ==
    unseen' = [p \in Breakers |-> IF p = b THEN {} ELSE unseen[p] \ {b}]

\* Mutant: closing forgets to publish.
MutCloseUnpublished(b) ==
    /\ open' = [open EXCEPT ![b] = FALSE]
    /\ announced' = [announced EXCEPT ![b] = FALSE]
    /\ failures' = [failures EXCEPT ![b] = 0]
    /\ NoLongerUnseen(b)
    /\ UNCHANGED <<active, publishing>>

\* Mutant: closing leaves the announcement standing.
MutCloseStillAnnounced(b) ==
    /\ open' = [open EXCEPT ![b] = FALSE]
    /\ failures' = [failures EXCEPT ![b] = 0]
    /\ active' = active \ {b}
    /\ NoLongerUnseen(b)
    /\ UNCHANGED <<announced, publishing>>

\* _close.  Idempotent on a closed breaker, but it resets the count even then.
Close(b) ==
    /\ open' = [open EXCEPT ![b] = FALSE]
    /\ announced' = [announced EXCEPT ![b] = FALSE]
    /\ failures' = [failures EXCEPT ![b] = 0]
    /\ active' = active \ {b}
    /\ NoLongerUnseen(b)
    /\ UNCHANGED publishing

-----------------------------------------------------------------------------
(* Requests *)

InBurst(b) == failures[b] > 0 /\ sinceFirst[b] <= Window

Strikes(b) == IF InBurst(b) THEN Least(failures[b] + 1, Threshold) ELSE 1

BurstAge(b) == IF InBurst(b) THEN sinceFirst[b] ELSE 0

\* This failure is the one that may open the breaker.
Ripe(b) ==
    /\ ~open[b]
    /\ Strikes(b) >= Threshold
    /\ BurstAge(b) >= MinOutage

Quiet(b) == sinceNotice[b] < NotifyCooldown

\* The `deciding` property: a failure is recorded and the verdict is pending.
Deciding(b) ==
    /\ ~open[b]
    /\ InBurst(b)
    /\ sinceFirst[b] < MinOutage

CountFailure(b) ==
    /\ failures' = [failures EXCEPT ![b] = Strikes(b)]
    /\ sinceFirst' = [sinceFirst EXCEPT ![b] = BurstAge(b)]

\* record_failure and record_success of one breaker wait for the call in progress:
\* _breaker_failure_lock serialises Claude's, and Codex's hold up the event loop.
Serialised(b) == ~verdict[b].busy /\ b \notin publishing

openingVars == <<open, onTransport, sinceProbe, sinceRecovery, sinceNotice,
               announced, active, publishing, unseen>>

\* record_failure that asks nobody: not ripe, or opened at once because the breaker
\* is not offline-gated or the provider's own edge confirmed the failure.  A
\* confirmed failure is never a transport error.
RecordFailure(b, transport, confirmed) ==
    /\ Serialised(b)
    /\ confirmed => ~transport
    /\ CountFailure(b)
    /\ \/ /\ ~Ripe(b)
          /\ UNCHANGED <<openingVars, verdict>>
       \/ /\ Ripe(b)
          /\ confirmed \/ b \notin OfflineGated
          /\ OpenBreaker(b, transport, Quiet(b), 0)
          /\ UNCHANGED verdict
       \/ /\ Ripe(b)
          /\ ~confirmed /\ b \in OfflineGated
          /\ verdict' = [verdict EXCEPT ![b] =
                 [busy |-> TRUE, transport |-> transport,
                  quiet |-> Quiet(b), age |-> 0]]
          /\ UNCHANGED openingVars
    /\ UNCHANGED <<todo, probing, reachable, sinceSuccess>>

\* _online() answers a waiting record_failure: offline opens the breaker,
\* online relays the error and forgets the burst.
GateAnswers(b) ==
    /\ verdict[b].busy
    /\ verdict' = [verdict EXCEPT ![b] = NoVerdict]
    /\ \/ /\ ~reachable[b]
          /\ OpenBreaker(b, verdict[b].transport, verdict[b].quiet,
                         verdict[b].age)
          /\ UNCHANGED failures
       \/ /\ reachable[b]
          /\ failures' = [failures EXCEPT ![b] = 0]
          /\ UNCHANGED openingVars
    /\ UNCHANGED <<sinceFirst, todo, probing, reachable, sinceSuccess>>

\* Mutant: a success does not wait for the failure verdict in progress.
MutSuccessUnserialised(b) ==
    /\ Close(b)
    /\ sinceSuccess' = [sinceSuccess EXCEPT ![b] = 0]
    /\ UNCHANGED <<onTransport, sinceFirst, sinceProbe, sinceRecovery,
                   sinceNotice, verdict, todo, probing, reachable>>

\* record_success
RecordSuccess(b) ==
    /\ Serialised(b)
    /\ Close(b)
    /\ sinceSuccess' = [sinceSuccess EXCEPT ![b] = 0]
    /\ UNCHANGED <<onTransport, sinceFirst, sinceProbe, sinceRecovery,
                   sinceNotice, verdict, todo, probing, reachable>>

\* Mutant: one timer rations both half-open slots and recovery probes.
MutSharedTimer(b) ==
    /\ open[b]
    /\ sinceProbe[b] >= ProbeInterval
    /\ sinceProbe' = [sinceProbe EXCEPT ![b] = 0]
    /\ sinceRecovery' = [sinceRecovery EXCEPT ![b] = 0]
    /\ UNCHANGED <<open, onTransport, failures, sinceFirst, sinceNotice,
                   announced, active, publishing, unseen, verdict, todo,
                   probing, reachable, sinceSuccess>>

\* allow_upstream hands out a half-open slot.  (On a closed breaker, or between
\* slots, it changes nothing.)
AllowUpstream(b) ==
    /\ open[b]
    /\ sinceProbe[b] >= ProbeInterval
    /\ sinceProbe' = [sinceProbe EXCEPT ![b] = 0]
    /\ UNCHANGED <<open, onTransport, failures, sinceFirst, sinceRecovery,
                   sinceNotice, announced, active, publishing, unseen, verdict,
                   todo, probing, reachable, sinceSuccess>>

-----------------------------------------------------------------------------
(* The recovery ticker *)

\* Is there a probe whose answer can disprove the failure that opened b?
Measurable(b) == b \in OfflineGated \/ (b \in Probed /\ onTransport[b])

RecoveryDue(b) ==
    /\ open[b]
    /\ Measurable(b)
    /\ sinceRecovery[b] >= ProbeInterval

TickerPass ==
    /\ todo = {}
    /\ probing = {}
    /\ todo' = Breakers
    /\ UNCHANGED <<breakerVars, verdict, probing, reachable, sinceSuccess>>

TickerSkips(b) ==
    /\ b \in todo
    /\ probing = {}
    /\ ~RecoveryDue(b)
    /\ todo' = todo \ {b}
    /\ UNCHANGED <<breakerVars, verdict, probing, reachable, sinceSuccess>>

\* maybe_recover up to its probe.
StartProbe(b) ==
    /\ b \in todo
    /\ probing = {}
    /\ RecoveryDue(b)
    /\ todo' = todo \ {b}
    /\ probing' = {b}
    /\ sinceRecovery' = [sinceRecovery EXCEPT ![b] = 0]
    /\ UNCHANGED <<open, onTransport, failures, sinceFirst, sinceProbe,
                   sinceNotice, announced, active, publishing, unseen, verdict,
                   reachable, sinceSuccess>>

\* maybe_recover from its probe on: nothing read before the probe is re-read.
FinishProbe(b) ==
    /\ b \in probing
    /\ probing' = {}
    /\ \/ reachable[b] /\ Close(b)
       \/ /\ ~reachable[b]
          /\ UNCHANGED <<open, announced, failures, active, publishing, unseen>>
    /\ UNCHANGED <<onTransport, sinceFirst, sinceProbe, sinceRecovery,
                   sinceNotice, verdict, todo, reachable, sinceSuccess>>

-----------------------------------------------------------------------------
(* The environment *)

Tick ==
    /\ sinceFirst' = [b \in Breakers |-> Older(sinceFirst[b], BurstHorizon)]
    /\ sinceProbe' = [b \in Breakers |-> Older(sinceProbe[b], ProbeInterval)]
    /\ sinceRecovery' =
         [b \in Breakers |-> Older(sinceRecovery[b], ProbeInterval)]
    /\ sinceNotice' =
         [b \in Breakers |-> Older(sinceNotice[b], NotifyCooldown)]
    /\ sinceSuccess' = [b \in Breakers |-> Older(sinceSuccess[b], BurstHorizon)]
    /\ verdict' = [b \in Breakers |->
         IF verdict[b].busy
         THEN [verdict[b] EXCEPT !.age = Older(@, ProbeHorizon)]
         ELSE verdict[b]]
    /\ UNCHANGED <<open, onTransport, failures, announced, active, publishing,
                   unseen, todo, probing, reachable>>

NetworkChanges(b) ==
    /\ reachable' = [reachable EXCEPT ![b] = ~reachable[b]]
    /\ UNCHANGED <<breakerVars, verdict, todo, probing, sinceSuccess>>

Ticker == TickerPass \/ \E b \in Breakers :
              TickerSkips(b) \/ StartProbe(b) \/ FinishProbe(b)

BreakerNext ==
    \/ \E b \in Breakers :
         \/ \E transport, confirmed \in BOOLEAN :
                RecordFailure(b, transport, confirmed)
         \/ GateAnswers(b)
         \/ Publish(b)
         \/ RecordSuccess(b)
         \/ AllowUpstream(b)
         \/ TickerSkips(b)
         \/ StartProbe(b)
         \/ FinishProbe(b)
         \/ NetworkChanges(b)
    \/ TickerPass
    \/ Tick

\* Time passes, the ticker task keeps running and a socket probe answers in
\* bounded time.  Requests and the network owe nothing.
BreakerFairness ==
    /\ WF_failoverVars(Tick)
    /\ WF_failoverVars(Ticker)
    /\ \A b \in Breakers : WF_failoverVars(GateAnswers(b))

BreakerSpec == BreakerInit /\ [][BreakerNext]_failoverVars

BreakerFairSpec == BreakerSpec /\ BreakerFairness

-----------------------------------------------------------------------------
(* Properties *)

\* The shape of the state: every timer within the range its comparisons need.
BreakerTypeOK ==
    /\ open \in [Breakers -> BOOLEAN]
    /\ onTransport \in [Breakers -> BOOLEAN]
    /\ failures \in [Breakers -> 0..Threshold]
    /\ sinceFirst \in [Breakers -> 0..BurstHorizon]
    /\ sinceProbe \in [Breakers -> 0..ProbeInterval]
    /\ sinceRecovery \in [Breakers -> 0..ProbeInterval]
    /\ sinceNotice \in [Breakers -> 0..NotifyCooldown]
    /\ announced \in [Breakers -> BOOLEAN]
    /\ active \in SUBSET Breakers
    /\ publishing \in SUBSET Breakers
    /\ unseen \in [Breakers -> SUBSET Breakers]
    /\ verdict \in [Breakers -> Verdicts]
    /\ todo \in SUBSET Breakers
    /\ probing \in SUBSET Breakers
    /\ reachable \in [Breakers -> BOOLEAN]
    /\ sinceSuccess \in [Breakers -> 0..BurstHorizon]

\* The registry that other consumers of the GPU read names exactly the open
\* breakers, but for those on their way into it, whichever of the four ways in and
\* out each of them took: a breaker closed by a probe while it was being announced
\* is not entered any more.
RegistryExact == active = {b \in Breakers : open[b]} \ publishing

\* One dropped link takes several upstreams with it and is one fact about this
\* machine: two outages stand announced only if one of the breakers opened while
\* the other was between its own look at the peers and its entry in the registry,
\* and an announcement never outlives its outage (so no "back to cloud" is ever an
\* orphan).
OneVoice ==
    \A b \in Breakers : announced[b] =>
        /\ open[b]
        /\ \A p \in Breakers \ {b} :
              announced[p] => p \in unseen[b] \/ b \in unseen[p]

\* A breaker never opens within MinOutage of an upstream success: failures and
\* successes are serialised, so a slow connectivity probe cannot write its
\* verdict over a success that came after the failure it is judging.
OpensOnlyAfterOutage ==
    [][\A b \in Breakers :
         ~open[b] /\ open'[b] => sinceSuccess[b] >= MinOutage]_failoverVars

\* An outage ends without a rider: a breaker whose opening a probe can disprove
\* closes once its upstream stays reachable, however much or little traffic
\* there is (maybe_recover and the ticker exist for this).
RecoversWithoutRider ==
    \A b \in Breakers :
        []<>(open[b] /\ Measurable(b) => ~reachable[b])

\* The breakers implement the contract other components rely on.
Contract == INSTANCE BreakerContract
                WITH failing <- {b \in Breakers : open[b]},
                     serving <- active,
                     speakers <- {b \in Breakers : announced[b]}

ContractSpec == Contract!Spec

\* Stated by maybe_recover: "A breaker that opened on a status keeps the
\* half-open path as its only route back", so no recovery probe closes one.
StatusOutageOutlivesProbe ==
    [][\A b \in Breakers \ OfflineGated :
         (b \in probing /\ probing' = {} /\ open[b] /\ ~onTransport[b])
             => open'[b]]_failoverVars
=============================================================================

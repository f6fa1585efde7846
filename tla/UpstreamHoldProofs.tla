-------------------------- MODULE UpstreamHoldProofs --------------------------
(***************************************************************************)
(* Proofs about UpstreamHold, for any set of turns and any timing that     *)
(* SlotAssumption admits.                                                  *)
(*                                                                         *)
(* A turn keeps what it knows of its request in its own locals, so most of *)
(* the argument is about one turn at a time (Own).  What ties it to the    *)
(* breaker is little: a breaker that is open while a turn is held opened   *)
(* during the hold, so its half-open slot is not due before the hold is    *)
(* over; and it does not open between a turn's verdict and the moment the  *)
(* turn hears of it, because the turn holds the lock of the verdicts.      *)
(***************************************************************************)
EXTENDS UpstreamHold, TLAPS

Places == {"idle", "asleep"} \union Attempting \union Verdict \union Outcomes

Kinds == {"undelivered", "uncertain"}

TurnsTyped ==
    /\ pc \in [Turns -> Places]
    /\ kind \in [Turns -> Kinds]
    /\ said \in [Turns -> BOOLEAN]
    /\ holding \in [Turns -> BOOLEAN]
    /\ heldFor \in [Turns -> Nat]
    /\ nap \in [Turns -> {0, 1}]
    /\ resend \in [Turns -> BOOLEAN]
    /\ accepted \in [Turns -> Nat]

\* The parts of the breaker a held turn depends on.
BreakerTyped ==
    /\ open \in [ClaudeBreaker -> BOOLEAN]
    /\ failures \in [ClaudeBreaker -> Nat]
    /\ sinceFirst \in [ClaudeBreaker -> Nat]
    /\ sinceProbe \in [ClaudeBreaker -> 0..ProbeInterval]

\* A turn that may have been delivered has an answer, or remembers it.
Remembers(t) ==
    \/ pc[t] \in {"failing", "answered"}
    \/ pc[t] \in {"died", "ruled"} /\ kind[t] = "uncertain"
    \/ pc[t] = "asleep" /\ ~resend[t]

\* What a turn's own locals say.
Own(t) ==
    /\ accepted[t] <= 1
    /\ accepted[t] = 1 => Remembers(t)
    /\ holding[t] => pc[t] \in {"asleep", "again"} \union Verdict
    /\ pc[t] \in {"asleep", "again"} => holding[t]
    /\ ~holding[t] => heldFor[t] = 0
    /\ heldFor[t] <= IF pc[t] = "ruled" THEN HoldBound + nap[t] ELSE HoldBound
    /\ pc[t] = "asleep" /\ nap[t] = 0 => heldFor[t] < HoldBound

\* What a turn may count on of the breaker.
Tied(t) ==
    /\ holding[t] /\ open[Claude] => sinceProbe[Claude] <= heldFor[t]
    /\ pc[t] = "ruled" /\ ~said[t] => ~open[Claude]

HoldInv ==
    /\ TurnsTyped
    /\ BreakerTyped
    /\ \A t \in Turns : Own(t) /\ Tied(t)

\* A step that leaves a turn where it is leaves its locals alone.
Untouched(t) ==
    /\ pc'[t] = pc[t] /\ kind'[t] = kind[t] /\ said'[t] = said[t]
    /\ holding'[t] = holding[t] /\ heldFor'[t] = heldFor[t] /\ nap'[t] = nap[t]
    /\ resend'[t] = resend[t] /\ accepted'[t] = accepted[t]

\* What a step does to its turn, and what it leaves of the others.
TurnStep(t) ==
    /\ TurnsTyped'
    /\ Own(t)'
    /\ \A u \in Turns \ {t} : Untouched(u)

-----------------------------------------------------------------------------
(* A turn's own locals *)

\* The hold's bound is a number of ticks.
LEMMA BoundType ==
    ASSUME SlotAssumption
    PROVE  /\ HoldBound \in Nat /\ HoldBound > 0
           /\ {Window, MinOutage, ProbeInterval, NotifyCooldown, Threshold} \subseteq Nat
           /\ HoldBound < ProbeInterval
BY DEF SlotAssumption, HoldBound

\* Nothing has been sent, and nobody is held, to begin with or after an answer.
LEMMA ReturnsStep ==
    ASSUME SlotAssumption, HoldInv, NEW t \in Turns, NEW how \in Outcomes, Returns(t, how)
    PROVE  TurnStep(t)
<1>1. /\ pc' = [pc EXCEPT ![t] = how]
      /\ kind' = [kind EXCEPT ![t] = "undelivered"]
      /\ said' = [said EXCEPT ![t] = FALSE]
      /\ holding' = [holding EXCEPT ![t] = FALSE]
      /\ heldFor' = [heldFor EXCEPT ![t] = 0]
      /\ nap' = [nap EXCEPT ![t] = 0]
      /\ resend' = [resend EXCEPT ![t] = TRUE]
      /\ accepted' = [accepted EXCEPT ![t] = 0]
  BY DEF Returns, TurnGoes
<1>2. /\ how \in Places /\ how \notin {"asleep", "again", "ruled"}
      /\ "undelivered" \in Kinds
  BY DEF Places, Outcomes, Kinds
<1>3. TurnsTyped'
  BY <1>1, <1>2 DEF HoldInv, TurnsTyped
<1>4. Own(t)'
  <2>1. /\ pc'[t] = how /\ accepted'[t] = 0 /\ ~holding'[t] /\ heldFor'[t] = 0
        /\ nap'[t] = 0
    BY <1>1 DEF HoldInv, TurnsTyped
  <2>. QED  BY <1>2, <2>1, BoundType DEF Own
<1>5. \A u \in Turns \ {t} : Untouched(u)
  BY <1>1 DEF HoldInv, TurnsTyped, Untouched
<1>. QED  BY <1>3, <1>4, <1>5 DEF TurnStep

\* The attempt is begun, dies or is answered.
LEMMA AttemptStep ==
    ASSUME SlotAssumption, HoldInv, NEW t \in Turns,
           \/ pc[t] = "idle" /\ TurnGoes(t, "first")
              /\ UNCHANGED <<kind, said, holding, heldFor, nap, resend, accepted>>
           \/ Ends(t)
           \/ Leaves(t)
    PROVE  TurnStep(t)
<1>0. TurnsTyped /\ Own(t)
  BY DEF HoldInv
<1>1. CASE pc[t] = "idle" /\ TurnGoes(t, "first")
           /\ UNCHANGED <<kind, said, holding, heldFor, nap, resend, accepted>>
  <2>1. "first" \in Places
    BY DEF Places, Attempting
  <2>2. TurnsTyped' /\ \A u \in Turns \ {t} : Untouched(u)
    BY <1>0, <1>1, <2>1 DEF TurnGoes, TurnsTyped, Untouched
  <2>3. Own(t)'
    BY <1>0, <1>1, <2>1 DEF TurnGoes, TurnsTyped, Own, Remembers, Verdict
  <2>. QED  BY <2>2, <2>3 DEF TurnStep
<1>2. ASSUME NEW k \in Kinds, AttemptDies(t, k)
      PROVE  TurnStep(t)
  <2>1. "died" \in Places /\ "died" \in Verdict
    BY DEF Places, Verdict
  <2>2. TurnsTyped' /\ \A u \in Turns \ {t} : Untouched(u)
    BY <1>0, <1>2, <2>1 DEF AttemptDies, TurnGoes, TurnsTyped, Untouched
  <2>3. accepted[t] = 0
    BY <1>0, <1>2 DEF AttemptDies, Attempting, TurnsTyped, Own, Remembers
  <2>4. /\ pc'[t] = "died" /\ kind'[t] = k
        /\ accepted'[t] = IF k = "uncertain" THEN 1 ELSE 0
        /\ holding'[t] = holding[t] /\ heldFor'[t] = heldFor[t] /\ nap'[t] = nap[t]
    BY <1>0, <1>2, <2>3 DEF AttemptDies, TurnGoes, TurnsTyped
  <2>5. pc[t] # "ruled"
    BY <1>0, <1>2 DEF AttemptDies, Attempting
  <2>6. Own(t)'
    BY <1>0, <2>1, <2>4, <2>5 DEF TurnsTyped, Own, Remembers
  <2>. QED  BY <2>2, <2>6 DEF TurnStep
<1>3. ASSUME NEW status \in {"failing", "answered"}, AttemptAnswers(t, status)
      PROVE  TurnStep(t)
  <2>1. status \in Places /\ status \in Verdict
    BY DEF Places, Verdict
  <2>2. TurnsTyped' /\ \A u \in Turns \ {t} : Untouched(u)
    BY <1>0, <1>3, <2>1 DEF AttemptAnswers, TurnGoes, TurnsTyped, Untouched
  <2>3. accepted[t] = 0
    BY <1>0, <1>3 DEF AttemptAnswers, Attempting, TurnsTyped, Own, Remembers
  <2>4. /\ pc'[t] = status /\ accepted'[t] = 1
        /\ holding'[t] = holding[t] /\ heldFor'[t] = heldFor[t] /\ nap'[t] = nap[t]
    BY <1>0, <1>3, <2>3 DEF AttemptAnswers, TurnGoes, TurnsTyped
  <2>5. pc[t] # "ruled"
    BY <1>0, <1>3 DEF AttemptAnswers, Attempting
  <2>6. Own(t)'
    BY <1>0, <2>1, <2>4, <2>5 DEF TurnsTyped, Own, Remembers
  <2>. QED  BY <2>2, <2>6 DEF TurnStep
<1>4. CASE Leaves(t)
  <2>1. "idle" \in Places
    BY DEF Places
  <2>2. TurnsTyped' /\ \A u \in Turns \ {t} : Untouched(u)
    BY <1>0, <1>4, <2>1 DEF Leaves, TurnGoes, TurnsTyped, Untouched
  <2>3. Own(t)'
    BY <1>0, <1>4, <2>1 DEF Leaves, TurnGoes, TurnsTyped, Own, Remembers, Verdict, Outcomes
  <2>. QED  BY <2>2, <2>3 DEF TurnStep
<1>. QED  BY <1>1, <1>2, <1>3, <1>4 DEF Ends, Kinds

\* The attempt died: the turn waits for its verdict, which is what the breaker is now.
LEMMA ReportsStep ==
    ASSUME SlotAssumption, HoldInv, open' \in [ClaudeBreaker -> BOOLEAN],
           NEW t \in Turns, Reports(t)
    PROVE  /\ TurnStep(t)
           /\ pc'[t] = "ruled" /\ said'[t] = open'[Claude]
           /\ holding'[t] = holding[t] /\ heldFor'[t] = heldFor[t]
<1>0. TurnsTyped /\ Own(t)
  BY DEF HoldInv
<1>1. /\ pc[t] = "died" /\ "ruled" \in Places /\ "ruled" \in Verdict
      /\ open'[Claude] \in BOOLEAN
  BY DEF Reports, Places, Verdict, ClaudeBreaker
<1>2. /\ pc' = [pc EXCEPT ![t] = "ruled"]
      /\ said' = [said EXCEPT ![t] = open'[Claude]]
      /\ nap' = [nap EXCEPT ![t] = 0]
      /\ UNCHANGED <<kind, holding, heldFor, resend, accepted>>
  BY DEF Reports, TurnGoes
<1>3. TurnsTyped' /\ \A u \in Turns \ {t} : Untouched(u)
  BY <1>0, <1>1, <1>2 DEF TurnsTyped, Untouched
<1>4. /\ pc'[t] = "ruled" /\ said'[t] = open'[Claude] /\ nap'[t] = 0
      /\ kind'[t] = kind[t] /\ accepted'[t] = accepted[t]
      /\ holding'[t] = holding[t] /\ heldFor'[t] = heldFor[t]
  BY <1>0, <1>2 DEF TurnsTyped
<1>5. Own(t)'
  BY <1>0, <1>1, <1>4, BoundType DEF TurnsTyped, Own, Remembers
<1>. QED  BY <1>3, <1>4, <1>5 DEF TurnStep

\* A verdict that is pending puts the turn to sleep, and its request with it.
LEMMA PendingStep ==
    ASSUME SlotAssumption, HoldInv, NEW t \in Turns, pc[t] = "ruled", Pending(t),
           resend' = [resend EXCEPT ![t] = @ /\ kind[t] = "undelivered"]
    PROVE  TurnStep(t) /\ pc'[t] = "asleep"
<1>0. TurnsTyped /\ Own(t)
  BY DEF HoldInv
<1>1. "asleep" \in Places /\ "undelivered" \in Kinds
  BY DEF Places, Kinds
<1>2. Held(t) \in Nat /\ Held(t) < HoldBound
  BY <1>0 DEF Pending, Held, TurnsTyped
<1>3. /\ pc' = [pc EXCEPT ![t] = "asleep"]
      /\ holding' = [holding EXCEPT ![t] = TRUE]
      /\ heldFor' = [heldFor EXCEPT ![t] = Held(t)]
      /\ kind' = [kind EXCEPT ![t] = "undelivered"]
      /\ said' = [said EXCEPT ![t] = FALSE]
      /\ nap' = [nap EXCEPT ![t] = 0]
      /\ accepted' = accepted
  BY DEF Pending, TurnGoes, Forget
<1>4. TurnsTyped' /\ \A u \in Turns \ {t} : Untouched(u)
  BY <1>0, <1>1, <1>2, <1>3 DEF TurnsTyped, Untouched
<1>5. /\ pc'[t] = "asleep" /\ holding'[t] /\ heldFor'[t] = Held(t) /\ nap'[t] = 0
      /\ accepted'[t] = accepted[t]
      /\ resend'[t] = (resend[t] /\ kind[t] = "undelivered")
  BY <1>0, <1>3 DEF TurnsTyped
<1>6. accepted'[t] = 1 => ~resend'[t]
  BY <1>0, <1>5 DEF TurnsTyped, Kinds, Own, Remembers
<1>7. Own(t)'
  BY <1>0, <1>2, <1>5, <1>6, BoundType DEF TurnsTyped, Own, Remembers
<1>. QED  BY <1>4, <1>5, <1>7 DEF TurnStep

\* A turn that wakes and goes on sends only what cannot have been delivered.
LEMMA WakesOnStep ==
    ASSUME SlotAssumption, HoldInv, NEW t \in Turns, pc[t] = "asleep",
           \/ resend[t] /\ TurnGoes(t, "again")
           \/ ~resend[t] /\ heldFor[t] < HoldBound /\ TurnGoes(t, "asleep"),
           nap' = [nap EXCEPT ![t] = 0],
           UNCHANGED <<kind, said, holding, heldFor, resend, accepted>>
    PROVE  TurnStep(t) /\ pc'[t] \in {"again", "asleep"}
<1>0. TurnsTyped /\ Own(t)
  BY DEF HoldInv
<1>1. {"again", "asleep"} \subseteq Places
  BY DEF Places, Attempting
<1>2. TurnsTyped' /\ \A u \in Turns \ {t} : Untouched(u)
  BY <1>0, <1>1 DEF TurnsTyped, Untouched, TurnGoes
<1>3. /\ \/ pc'[t] = "again" /\ resend[t]
         \/ pc'[t] = "asleep" /\ ~resend[t] /\ heldFor[t] < HoldBound
      /\ nap'[t] = 0 /\ holding'[t] = holding[t] /\ heldFor'[t] = heldFor[t]
      /\ resend'[t] = resend[t] /\ accepted'[t] = accepted[t]
  BY <1>0 DEF TurnsTyped, TurnGoes
<1>4. accepted[t] = 1 => ~resend[t]
  BY <1>0 DEF Own, Remembers
<1>5. Own(t)'
  BY <1>0, <1>3, <1>4, BoundType DEF TurnsTyped, Own, Remembers
<1>. QED  BY <1>2, <1>3, <1>5 DEF TurnStep

-----------------------------------------------------------------------------
(* The breaker under this driver *)

\* A step that neither opens the breaker nor takes time: its slot is no nearer.
Calm ==
    /\ BreakerTyped'
    /\ open'[Claude] => open[Claude]
    /\ sinceProbe'[Claude] <= sinceProbe[Claude]

\* Everything but a failure and the clock is calm.
LEMMA CalmStep ==
    ASSUME SlotAssumption, BreakerTyped,
           \/ UNCHANGED breaker
           \/ TakeSlot
           \/ Br!RecordSuccess(Claude)
           \/ Br!Ticker
           \/ Br!Publish(Claude)
           \/ Br!NetworkChanges(Claude)
    PROVE  Calm
<1>1. ASSUME UNCHANGED <<open, failures, sinceFirst, sinceProbe>>
      PROVE  Calm
  BY <1>1 DEF Calm, BreakerTyped, ClaudeBreaker
<1>2. CASE UNCHANGED breaker
  BY <1>1, <1>2 DEF breaker
<1>3. ASSUME NEW b \in ClaudeBreaker, Br!Close(b), UNCHANGED <<sinceFirst, sinceProbe>>
      PROVE  Calm
  BY <1>3 DEF Calm, BreakerTyped, ClaudeBreaker, Br!Close
<1>4. CASE TakeSlot
  <2>1. CASE ~open[Claude]
    BY <1>2, <1>4, <2>1 DEF TakeSlot
  <2>2. CASE open[Claude]
    BY <1>4, <2>2, BoundType DEF TakeSlot, Br!AllowUpstream, Calm, BreakerTyped, ClaudeBreaker
  <2>. QED  BY <2>1, <2>2
<1>5. CASE Br!RecordSuccess(Claude)
  BY <1>3, <1>5 DEF Br!RecordSuccess, ClaudeBreaker
<1>6. CASE Br!Ticker
  <2>1. CASE Br!TickerPass
    BY <1>1, <2>1 DEF Br!TickerPass, Br!breakerVars
  <2>2. ASSUME NEW b \in ClaudeBreaker, Br!TickerSkips(b) \/ Br!StartProbe(b)
        PROVE  Calm
    BY <1>1, <2>2 DEF Br!TickerSkips, Br!StartProbe, Br!breakerVars
  <2>3. ASSUME NEW b \in ClaudeBreaker, Br!FinishProbe(b)
        PROVE  Calm
    BY <1>1, <1>3, <2>3 DEF Br!FinishProbe
  <2>. QED  BY <1>6, <2>1, <2>2, <2>3 DEF Br!Ticker
<1>7. CASE Br!NetworkChanges(Claude)
  BY <1>1, <1>7 DEF Br!NetworkChanges, Br!breakerVars
<1>8. CASE Br!Publish(Claude)
  BY <1>1, <1>8 DEF Br!Publish
<1>. QED  BY <1>2, <1>4, <1>5, <1>6, <1>7, <1>8

\* A failure leaves the breaker as open as it was, or opens it and starts its slot's
\* timer.
LEMMA FailureStep ==
    ASSUME SlotAssumption, BreakerTyped, NEW transport \in BOOLEAN,
           Br!RecordFailure(Claude, transport, FALSE)
    PROVE  /\ BreakerTyped'
           /\ \/ /\ open'[Claude] = open[Claude]
                 /\ sinceProbe'[Claude] = sinceProbe[Claude]
              \/ open'[Claude] /\ sinceProbe'[Claude] = 0
<1>1. Br!Strikes(Claude) \in Nat /\ Br!BurstAge(Claude) \in Nat
  BY BoundType DEF Br!Strikes, Br!BurstAge, Br!InBurst, Br!Least, BreakerTyped, ClaudeBreaker
<1>2. failures' \in [ClaudeBreaker -> Nat] /\ sinceFirst' \in [ClaudeBreaker -> Nat]
  BY <1>1 DEF Br!RecordFailure, Br!CountFailure, BreakerTyped
<1>3. CASE ~Br!Ripe(Claude)
  BY <1>2, <1>3 DEF Br!RecordFailure, Br!openingVars, BreakerTyped
<1>4. CASE Br!Ripe(Claude)
  <2>1. Br!OpenBreaker(Claude, transport, Br!Quiet(Claude), 0)
    BY <1>4 DEF Br!RecordFailure, OfflineGated
  <2>2. Br!Least(0, ProbeInterval) = 0 /\ 0 \in 0..ProbeInterval
    BY BoundType DEF Br!Least
  <2>3. /\ open' = [open EXCEPT ![Claude] = TRUE]
        /\ sinceProbe' = [sinceProbe EXCEPT ![Claude] = 0]
    BY <2>1, <2>2 DEF Br!OpenBreaker
  <2>. QED  BY <1>2, <2>2, <2>3 DEF BreakerTyped, ClaudeBreaker
<1>. QED  BY <1>3, <1>4

\* The clock opens nothing, and brings the slot one tick nearer at most.
LEMMA ClockStep ==
    ASSUME SlotAssumption, BreakerTyped, Br!Tick
    PROVE  /\ BreakerTyped'
           /\ open'[Claude] = open[Claude]
           /\ sinceProbe'[Claude] <= sinceProbe[Claude] + 1
           /\ sinceProbe'[Claude] >= sinceProbe[Claude]
<1>1. Br!BurstHorizon \in Nat
  BY BoundType DEF Br!BurstHorizon, Br!Greatest, SlotAssumption
<1>2. /\ \A b \in ClaudeBreaker : Br!Older(sinceFirst[b], Br!BurstHorizon) \in Nat
      /\ \A b \in ClaudeBreaker :
            /\ Br!Older(sinceProbe[b], ProbeInterval) \in 0..ProbeInterval
            /\ Br!Older(sinceProbe[b], ProbeInterval) >= sinceProbe[b]
            /\ Br!Older(sinceProbe[b], ProbeInterval) <= sinceProbe[b] + 1
  BY <1>1, BoundType DEF Br!Older, Br!Least, BreakerTyped
<1>3. /\ sinceFirst' = [b \in ClaudeBreaker |-> Br!Older(sinceFirst[b], Br!BurstHorizon)]
      /\ sinceProbe' = [b \in ClaudeBreaker |-> Br!Older(sinceProbe[b], ProbeInterval)]
      /\ UNCHANGED <<open, failures>>
  BY DEF Br!Tick
<1>4. sinceProbe'[Claude] = Br!Older(sinceProbe[Claude], ProbeInterval)
  BY <1>3 DEF ClaudeBreaker
<1>. QED  BY <1>2, <1>3, <1>4 DEF BreakerTyped, ClaudeBreaker

-----------------------------------------------------------------------------
(* The turn and the breaker *)

\* What a step must do to its own turn for the tie to hold.
KeepsTie(t) ==
    /\ holding'[t] => \/ ~open'[Claude]
                      \/ holding[t] /\ heldFor'[t] = heldFor[t]
    /\ pc'[t] # "ruled"

\* A calm step of one turn keeps every turn's tie to the breaker.
LEMMA CalmKeepsTies ==
    ASSUME HoldInv, NEW t \in Turns, TurnStep(t), KeepsTie(t), Calm
    PROVE  HoldInv'
<1>1. TurnsTyped /\ BreakerTyped /\ \A u \in Turns : Own(u) /\ Tied(u)
  BY DEF HoldInv
<1>2. /\ sinceProbe[Claude] \in Nat /\ sinceProbe'[Claude] \in Nat
      /\ \A u \in Turns : heldFor[u] \in Nat /\ heldFor'[u] \in Nat
  BY <1>1 DEF TurnStep, TurnsTyped, Calm, BreakerTyped, ClaudeBreaker
<1>3. Tied(t)'
  BY <1>1, <1>2 DEF KeepsTie, Calm, Tied
<1>4. ASSUME NEW u \in Turns \ {t}
      PROVE  Own(u)' /\ Tied(u)'
  <2>1. Untouched(u)
    BY DEF TurnStep
  <2>2. Own(u)'
    BY <1>1, <2>1 DEF Untouched, Own, Remembers
  <2>3. Tied(u)'
    BY <1>1, <1>2, <2>1 DEF Untouched, Calm, Tied
  <2>. QED  BY <2>2, <2>3
<1>. QED  BY <1>3, <1>4 DEF TurnStep, Calm, HoldInv

\* What the router does for one turn.
LEMMA TurnMoves ==
    ASSUME SlotAssumption, HoldInv, NEW t \in Turns,
           Arrives(t) \/ Ends(t) \/ HearsVerdict(t) \/ Wakes(t) \/ ReportsSuccess(t)
              \/ Leaves(t)
    PROVE  TurnStep(t) /\ KeepsTie(t) /\ Calm
<1>0. /\ TurnsTyped /\ BreakerTyped /\ Own(t)
      /\ {"local", "refused", "relayed"} = Outcomes /\ "ruled" \notin Outcomes
  BY DEF HoldInv, Outcomes
<1>1. ASSUME NEW how \in Outcomes, Returns(t, how)
      PROVE  TurnStep(t) /\ KeepsTie(t)
  <2>1. pc'[t] = how /\ ~holding'[t]
    BY <1>0, <1>1 DEF Returns, TurnGoes, TurnsTyped
  <2>. QED  BY <1>0, <1>1, <2>1, ReturnsStep DEF KeepsTie
<1>2. CASE Arrives(t)
  <2>1. CASE Returns(t, "local") /\ UNCHANGED breaker
    BY <1>0, <1>1, <2>1, CalmStep
  <2>2. CASE /\ TakeSlot /\ TurnGoes(t, "first") /\ pc[t] = "idle"
             /\ UNCHANGED <<kind, said, holding, heldFor, nap, resend, accepted>>
    <3>1. TurnStep(t)
      BY <2>2, AttemptStep
    <3>2. KeepsTie(t)
      BY <1>0, <2>2 DEF KeepsTie, TurnGoes, TurnsTyped
    <3>. QED  BY <1>0, <2>2, <3>1, <3>2, CalmStep
  <2>. QED  BY <1>2, <2>1, <2>2 DEF Arrives
<1>3. CASE Ends(t) \/ Leaves(t)
  <2>1. TurnStep(t)
    BY <1>3, AttemptStep
  <2>2. UNCHANGED breaker
    BY <1>3 DEF Ends, Leaves, AttemptDies, AttemptAnswers
  <2>3. KeepsTie(t)
    BY <1>0, <1>3 DEF Ends, Leaves, AttemptDies, AttemptAnswers, TurnGoes, TurnsTyped, KeepsTie
  <2>. QED  BY <1>0, <2>1, <2>2, <2>3, CalmStep
<1>4. CASE HearsVerdict(t)
  <2>1. UNCHANGED breaker /\ pc[t] = "ruled"
    BY <1>4 DEF HearsVerdict
  <2>2. CASE Ruling(t) \/ UsedUp(t)
    <3>1. Returns(t, "refused") \/ Returns(t, "local")
      BY <2>2 DEF Ruling, UsedUp
    <3>. QED  BY <1>0, <1>1, <2>1, <3>1, CalmStep
  <2>3. CASE Pending(t) /\ resend' = [resend EXCEPT ![t] = @ /\ kind[t] = "undelivered"]
    <3>1. TurnStep(t) /\ pc'[t] = "asleep"
      BY <2>1, <2>3, PendingStep
    <3>2. ~open'[Claude]
      BY <2>1, <2>3 DEF Pending, Br!Deciding, breaker
    <3>. QED  BY <1>0, <2>1, <3>1, <3>2, CalmStep DEF KeepsTie
  <2>. QED  BY <1>4, <2>2, <2>3 DEF HearsVerdict
<1>5. CASE Wakes(t)
  <2>1. TakeSlot \/ UNCHANGED breaker
    BY <1>5 DEF Wakes
  <2>2. CASE Returns(t, "local") \/ Returns(t, "refused")
    BY <1>0, <1>1, <2>1, <2>2, CalmStep
  <2>3. CASE /\ pc[t] = "asleep"
             /\ \/ resend[t] /\ TurnGoes(t, "again")
                \/ ~resend[t] /\ heldFor[t] < HoldBound /\ TurnGoes(t, "asleep")
             /\ nap' = [nap EXCEPT ![t] = 0]
             /\ UNCHANGED <<kind, said, holding, heldFor, resend, accepted>>
    <3>1. TurnStep(t) /\ pc'[t] \in {"again", "asleep"}
      BY <2>3, WakesOnStep
    <3>2. holding[t] /\ holding'[t] = holding[t] /\ heldFor'[t] = heldFor[t]
      BY <1>0, <2>3 DEF Own
    <3>. QED  BY <1>0, <2>1, <3>1, <3>2, CalmStep DEF KeepsTie
  <2>. QED  BY <1>5, <2>2, <2>3 DEF Wakes
<1>6. CASE ReportsSuccess(t)
  <2>1. Returns(t, "relayed") /\ Br!RecordSuccess(Claude)
    BY <1>6 DEF ReportsSuccess
  <2>. QED  BY <1>0, <1>1, <2>1, CalmStep
<1>. QED  BY <1>2, <1>3, <1>4, <1>5, <1>6

\* A failure may open the breaker.  No turn is waiting to hear of a verdict then, and
\* the slot's timer starts.
LEMMA FailureKeepsInv ==
    ASSUME SlotAssumption, HoldInv, NEW t \in Turns, Reports(t) \/ ReportsStatus(t)
    PROVE  HoldInv'
<1>0. TurnsTyped /\ BreakerTyped /\ \A u \in Turns : Own(u) /\ Tied(u)
  BY DEF HoldInv
<1>1. VerdictLockFree
  BY DEF Reports, ReportsStatus
<1>2. \/ Br!RecordFailure(Claude, TRUE, FALSE)
      \/ Br!RecordFailure(Claude, FALSE, FALSE)
  BY DEF Reports, ReportsStatus
<1>3. /\ BreakerTyped'
      /\ \/ open'[Claude] = open[Claude] /\ sinceProbe'[Claude] = sinceProbe[Claude]
         \/ open'[Claude] /\ sinceProbe'[Claude] = 0
  BY <1>0, <1>2, FailureStep
<1>4. /\ TurnStep(t)
      /\ holding'[t] => holding[t] /\ heldFor'[t] = heldFor[t]
      /\ pc'[t] = "ruled" => said'[t] = open'[Claude]
  <2>1. CASE Reports(t)
    BY <1>3, <2>1, ReportsStep DEF BreakerTyped
  <2>2. CASE ReportsStatus(t)
    <3>1. Returns(t, "local") \/ Returns(t, "relayed")
      BY <2>2 DEF ReportsStatus
    <3>2. TurnStep(t)
      BY <3>1, ReturnsStep DEF Outcomes
    <3>3. pc'[t] # "ruled" /\ ~holding'[t]
      BY <1>0, <3>1 DEF Returns, TurnGoes, TurnsTyped
    <3>. QED  BY <3>2, <3>3
  <2>. QED  BY <2>1, <2>2
<1>5. /\ sinceProbe[Claude] \in Nat
      /\ \A u \in Turns : heldFor[u] \in Nat /\ heldFor'[u] \in Nat
  BY <1>0, <1>4 DEF TurnStep, TurnsTyped, BreakerTyped, ClaudeBreaker
<1>6. Tied(t)'
  BY <1>0, <1>3, <1>4, <1>5 DEF Tied
<1>7. ASSUME NEW u \in Turns \ {t}
      PROVE  Own(u)' /\ Tied(u)'
  <2>1. Untouched(u)
    BY <1>4 DEF TurnStep
  <2>2. Own(u)'
    BY <1>0, <2>1 DEF Untouched, Own, Remembers
  <2>3. pc'[u] # "ruled"
    BY <1>1, <2>1 DEF Untouched, VerdictLockFree
  <2>4. Tied(u)'
    BY <1>0, <1>3, <1>5, <2>1, <2>3 DEF Untouched, Tied
  <2>. QED  BY <2>2, <2>4
<1>. QED  BY <1>3, <1>4, <1>6, <1>7 DEF TurnStep, HoldInv

\* The clock waits for whoever has something to do: a hold that goes on is not over.
LEMMA ClockKeepsInv ==
    ASSUME SlotAssumption, HoldInv, Tick
    PROVE  HoldInv'
<1>0. TurnsTyped /\ BreakerTyped /\ \A u \in Turns : Own(u) /\ Tied(u)
  BY DEF HoldInv
<1>1. /\ BreakerTyped' /\ open'[Claude] = open[Claude]
      /\ sinceProbe'[Claude] <= sinceProbe[Claude] + 1
  BY <1>0, ClockStep DEF Tick
<1>2. /\ \A u \in Turns : ~Overdue(u)
      /\ heldFor' = [u \in Turns |->
             IF holding[u] THEN Br!Least(heldFor[u] + 1, HoldBound + 2) ELSE heldFor[u]]
      /\ nap' = [u \in Turns |-> IF pc[u] \in {"asleep", "ruled"} THEN 1 ELSE nap[u]]
      /\ UNCHANGED <<pc, kind, said, holding, resend, accepted>>
  BY DEF Tick
<1>3. HoldBound \in Nat
  BY BoundType
<1>4. ASSUME NEW u \in Turns
      PROVE  heldFor'[u] = IF holding[u] THEN heldFor[u] + 1 ELSE heldFor[u]
  <2>1. heldFor[u] \in Nat /\ heldFor[u] <= HoldBound + 1
    BY <1>0, <1>3 DEF TurnsTyped, Own
  <2>. QED  BY <1>2, <1>3, <2>1 DEF Br!Least
<1>5. heldFor' \in [Turns -> Nat]
  BY <1>0, <1>2, <1>3 DEF TurnsTyped, Br!Least
<1>6. TurnsTyped'
  BY <1>0, <1>2, <1>5 DEF TurnsTyped
<1>7. ASSUME NEW u \in Turns
      PROVE  Own(u)' /\ Tied(u)'
  <2>1. /\ pc'[u] = pc[u] /\ kind'[u] = kind[u] /\ said'[u] = said[u]
        /\ holding'[u] = holding[u] /\ resend'[u] = resend[u]
        /\ accepted'[u] = accepted[u]
        /\ nap'[u] = IF pc[u] \in {"asleep", "ruled"} THEN 1 ELSE nap[u]
        /\ heldFor[u] \in Nat /\ sinceProbe[Claude] \in Nat /\ sinceProbe'[Claude] \in Nat
        /\ nap[u] \in {0, 1} /\ pc[u] \in Places
    BY <1>0, <1>1, <1>2 DEF TurnsTyped, BreakerTyped, ClaudeBreaker
  <2>2. ASSUME holding[u]
        PROVE  heldFor'[u] <= IF pc[u] = "ruled" THEN HoldBound + 1 ELSE HoldBound
    <3>1. /\ heldFor'[u] = heldFor[u] + 1
          /\ pc[u] \in {"asleep", "again"} \union Verdict
          /\ heldFor[u] <= IF pc[u] = "ruled" THEN HoldBound + nap[u] ELSE HoldBound
          /\ pc[u] = "asleep" /\ nap[u] = 0 => heldFor[u] < HoldBound
      BY <1>0, <1>4, <2>2 DEF Own
    <3>2. /\ pc[u] \notin {"died", "failing", "answered"}
          /\ pc[u] \in {"asleep", "ruled"} => nap[u] # 1
          /\ pc[u] = "again" => ~(heldFor[u] >= HoldBound)
      BY <1>2 DEF Overdue
    <3>. QED  BY <1>3, <2>1, <3>1, <3>2 DEF Verdict
  <2>3. Own(u)'
    BY <1>0, <1>3, <1>4, <2>1, <2>2 DEF Own, Remembers
  <2>4. Tied(u)'
    BY <1>0, <1>1, <1>4, <2>1 DEF Tied
  <2>. QED  BY <2>3, <2>4
<1>. QED  BY <1>1, <1>6, <1>7 DEF HoldInv

\* Nobody is held, and the breaker is closed, at the start.
LEMMA InitHolds ==
    ASSUME SlotAssumption, HoldInit
    PROVE  HoldInv
<1>1. TurnsTyped
  BY DEF HoldInit, TurnsTyped, Places, Kinds
<1>2. Br!BurstHorizon \in Nat
  BY BoundType DEF Br!BurstHorizon, Br!Greatest
<1>3. BreakerTyped
  BY <1>2, BoundType DEF HoldInit, Br!BreakerInit, BreakerTyped
<1>4. ASSUME NEW t \in Turns
      PROVE  Own(t) /\ Tied(t)
  BY BoundType DEF HoldInit, Own, Tied
<1>. QED  BY <1>1, <1>3, <1>4 DEF HoldInv

\* What the network and the other processes do is none of a turn's business.
LEMMA ElsewhereKeepsInv ==
    ASSUME HoldInv, UNCHANGED turn, Calm
    PROVE  HoldInv'
<1>1. TurnsTyped /\ BreakerTyped /\ \A u \in Turns : Own(u) /\ Tied(u)
  BY DEF HoldInv
<1>2. UNCHANGED <<pc, kind, said, holding, heldFor, nap, resend, accepted>>
  BY DEF turn
<1>3. TurnsTyped'
  BY <1>1, <1>2 DEF TurnsTyped
<1>4. ASSUME NEW u \in Turns
      PROVE  Own(u)' /\ Tied(u)'
  <2>1. /\ sinceProbe[Claude] \in Nat /\ sinceProbe'[Claude] \in Nat
        /\ heldFor[u] \in Nat
    BY <1>1 DEF TurnsTyped, Calm, BreakerTyped, ClaudeBreaker
  <2>2. Own(u)'
    BY <1>1, <1>2 DEF Own, Remembers
  <2>3. Tied(u)'
    BY <1>1, <1>2, <2>1 DEF Calm, Tied
  <2>. QED  BY <2>2, <2>3
<1>. QED  BY <1>3, <1>4 DEF Calm, HoldInv

\* Every step that is not a turn's own leaves the turns where they are, or is the clock.
LEMMA OutsideSteps ==
    ASSUME SlotAssumption, HoldInv, Ticker \/ Publishes \/ NetworkChanges \/ LeaseChanges \/ UNCHANGED holdVars
    PROVE  UNCHANGED turn /\ Calm
<1>1. BreakerTyped
  BY DEF HoldInv
<1>. QED  BY <1>1, CalmStep DEF Ticker, Publishes, NetworkChanges, LeaseChanges, holdVars

\* The invariant is inductive.
LEMMA StepHolds ==
    ASSUME SlotAssumption, HoldInv, [HoldNext]_holdVars
    PROVE  HoldInv'
<1>1. ASSUME NEW t \in Turns,
             Arrives(t) \/ Ends(t) \/ HearsVerdict(t) \/ Wakes(t) \/ ReportsSuccess(t)
                \/ Leaves(t)
      PROVE  HoldInv'
  BY <1>1, TurnMoves, CalmKeepsTies
<1>2. ASSUME NEW t \in Turns, Reports(t) \/ ReportsStatus(t)
      PROVE  HoldInv'
  BY <1>2, FailureKeepsInv
<1>3. CASE Tick
  BY <1>3, ClockKeepsInv
<1>4. CASE Ticker \/ Publishes \/ NetworkChanges \/ LeaseChanges \/ UNCHANGED holdVars
  BY <1>4, OutsideSteps, ElsewhereKeepsInv
<1>. QED  BY <1>1, <1>2, <1>3, <1>4 DEF HoldNext, Goes

\* The invariant: what a turn knows of its own request, and what it may count on of the
\* breaker while it is held (_try_upstream with FailoverBreaker).
THEOREM HoldCorrect == SlotAssumption => (HoldSpec => []HoldInv)
<1>. SUFFICES ASSUME SlotAssumption PROVE HoldSpec => []HoldInv
  OBVIOUS
<1>1. HoldInit => HoldInv
  BY InitHolds
<1>2. HoldInv /\ [HoldNext]_holdVars => HoldInv'
  BY StepHolds
<1>. QED  BY <1>1, <1>2, PTL DEF HoldSpec

-----------------------------------------------------------------------------
(* What a client may count on *)

\* A turn is not idempotent: whatever dies, however long the turn is held and however
\* often it wakes, what the cloud may have accepted is never sent again (resend_is_safe).
THEOREM AskedAtMostOnce == SlotAssumption => (HoldSpec => []AskedOnce)
<1>1. HoldInv => AskedOnce
  BY DEF HoldInv, Own, AskedOnce
<1>. QED  BY <1>1, HoldCorrect, PTL

\* No turn is held longer than MinOutage and the grace, but for the one retry interval
\* in which it hears its verdict (hold_deadline).
THEOREM HoldIsBounded == SlotAssumption => (HoldSpec => []HoldBounded)
<1>. SUFFICES ASSUME SlotAssumption PROVE HoldSpec => []HoldBounded
  OBVIOUS
<1>1. HoldInv => HoldBounded
  <2>1. ASSUME HoldInv, NEW t \in Turns
        PROVE  heldFor[t] <= HoldBound + 1
    <3>1. /\ heldFor[t] <= IF pc[t] = "ruled" THEN HoldBound + nap[t] ELSE HoldBound
          /\ heldFor[t] \in Nat /\ nap[t] \in {0, 1}
      BY <2>1 DEF HoldInv, Own, TurnsTyped
    <3>. QED  BY <3>1, BoundType
  <2>. QED  BY <2>1 DEF HoldBounded
<1>. QED  BY <1>1, HoldCorrect, PTL

\* A half-open slot goes to a turn that asks the cloud: when a held turn that may not
\* send again wakes, the breaker is closed or its slot is not due (allow_upstream in
\* the hold's loop).
THEOREM SlotsGoToAskers == SlotAssumption => (HoldSpec => SlotsAreUsed)
<1>. SUFFICES ASSUME SlotAssumption PROVE HoldSpec => SlotsAreUsed
  OBVIOUS
<1>1. ASSUME HoldInv, [HoldNext]_holdVars, NEW t \in Turns,
             pc[t] = "asleep", ~resend[t], pc'[t] # pc[t] \/ nap'[t] # nap[t]
      PROVE  sinceProbe'[Claude] >= sinceProbe[Claude]
  <2>0. /\ TurnsTyped /\ BreakerTyped /\ Own(t) /\ Tied(t)
        /\ sinceProbe[Claude] \in Nat /\ heldFor[t] \in Nat
    BY <1>1 DEF HoldInv, TurnsTyped, BreakerTyped, ClaudeBreaker
  <2>1. CASE UNCHANGED breaker
    BY <2>0, <2>1 DEF breaker
  <2>2. ASSUME NEW u \in Turns \ {t}, TurnStep(u)
        PROVE  FALSE
    BY <1>1, <2>2 DEF TurnStep, Untouched
  <2>3. CASE Wakes(t)
    <3>1. CASE TakeSlot /\ Allowed
      <4>1. ~open[Claude]
        <5>1. open[Claude] => sinceProbe[Claude] <= HoldBound
          BY <2>0, <1>1, BoundType DEF Own, Tied
        <5>2. open[Claude] => sinceProbe[Claude] >= ProbeInterval
          BY <3>1 DEF Allowed, SlotDue
        <5>. QED  BY <2>0, <5>1, <5>2, <1>1, BoundType
      <4>. QED  BY <2>1, <3>1, <4>1 DEF TakeSlot
    <3>. QED  BY <2>1, <2>3, <3>1 DEF Wakes
  <2>4. CASE Arrives(t) \/ Ends(t) \/ HearsVerdict(t) \/ ReportsSuccess(t) \/ Leaves(t)
             \/ Reports(t) \/ ReportsStatus(t)
    BY <1>1, <2>4 DEF Arrives, Ends, AttemptDies, AttemptAnswers, HearsVerdict,
                      ReportsSuccess, Leaves, Reports, ReportsStatus, Attempting, Outcomes
  <2>5. ASSUME NEW u \in Turns \ {t}, Arrives(u) \/ Ends(u) \/ Goes(u) \/ Leaves(u)
        PROVE  FALSE
    <3>1. CASE Arrives(u) \/ Ends(u) \/ HearsVerdict(u) \/ Wakes(u) \/ ReportsSuccess(u)
               \/ Leaves(u)
      BY <1>1, <2>2, <3>1, TurnMoves
    <3>2. CASE Reports(u)
      <4>1. open' \in [ClaudeBreaker -> BOOLEAN]
        BY <1>1, <2>0, <3>2, FailureStep DEF Reports, BreakerTyped
      <4>. QED  BY <1>1, <2>2, <3>2, <4>1, ReportsStep
    <3>3. CASE ReportsStatus(u)
      <4>1. Returns(u, "local") \/ Returns(u, "relayed")
        BY <3>3 DEF ReportsStatus
      <4>. QED  BY <1>1, <2>2, <4>1, ReturnsStep DEF Outcomes
    <3>. QED  BY <2>5, <3>1, <3>2, <3>3 DEF Goes
  <2>6. CASE Tick
    BY <1>1, <2>0, <2>6, ClockStep DEF Tick
  <2>7. CASE Ticker \/ Publishes \/ NetworkChanges \/ LeaseChanges \/ UNCHANGED holdVars
    BY <1>1, <2>7, OutsideSteps DEF turn
  <2>. QED  BY <1>1, <2>3, <2>4, <2>5, <2>6, <2>7 DEF HoldNext, Goes
<1>2. HoldInv /\ [HoldNext]_holdVars =>
      \A t \in Turns :
         pc[t] = "asleep" /\ ~resend[t] /\ (pc'[t] # pc[t] \/ nap'[t] # nap[t])
             => sinceProbe'[Claude] >= sinceProbe[Claude]
  BY <1>1
<1>. QED  BY <1>2, HoldCorrect, PTL DEF HoldSpec, SlotsAreUsed

\* A blip does not reach the client: a turn is refused only when its hold is used up,
\* when its failure came at least MinOutage into the burst, when the GPU is another
\* process's, or when a late recovery probe cleared the burst.
THEOREM BlipsAreAbsorbed == SlotAssumption => (HoldSpec => BlipIsAbsorbed)
<1>. SUFFICES ASSUME SlotAssumption PROVE HoldSpec => BlipIsAbsorbed
  OBVIOUS
<1>1. ASSUME HoldInv, [HoldNext]_holdVars, NEW t \in Turns, Refused(t)
      PROVE  Exhausted(t) \/ failures[Claude] = 0
  <2>0. /\ TurnsTyped /\ BreakerTyped /\ Own(t) /\ Tied(t)
        /\ sinceFirst[Claude] \in Nat /\ failures[Claude] \in Nat
    BY <1>1 DEF HoldInv, BreakerTyped, ClaudeBreaker
  <2>1. ASSUME Returns(t, "refused") \/ TurnGoes(t, "refused")
        PROVE  pc'[t] = "refused"
    BY <2>0, <2>1 DEF Returns, TurnGoes, TurnsTyped
  <2>2. ASSUME NEW how, Returns(t, how) \/ TurnGoes(t, how)
        PROVE  how = "refused"
    BY <1>1, <2>0, <2>2 DEF Returns, TurnGoes, TurnsTyped, Refused
  <2>3. CASE HearsVerdict(t)
    <3>1. CASE Ruling(t)
      <4>1. CASE said[t]
        <5>1. leased
          BY <2>2, <3>1, <4>1 DEF Ruling
        <5>. QED  BY <4>1, <5>1 DEF Exhausted
      <4>2. CASE ~said[t]
        <5>1. ~open[Claude] /\ ~Br!Deciding(Claude)
          BY <2>0, <2>3, <3>1, <4>2 DEF Ruling, Tied, HearsVerdict
        <5>2. failures[Claude] = 0 \/ sinceFirst[Claude] > Window
              \/ sinceFirst[Claude] >= MinOutage
          BY <2>0, <5>1, <1>1, BoundType DEF Br!Deciding, Br!InBurst
        <5>3. MinOutage <= Window /\ MinOutage \in Nat /\ Window \in Nat
          BY <1>1 DEF SlotAssumption
        <5>. QED  BY <2>0, <5>2, <5>3 DEF Exhausted
      <4>. QED  BY <4>1, <4>2
    <3>2. CASE UsedUp(t)
      <4>1. heldFor[t] >= HoldBound
        BY <1>1, <3>2, BoundType DEF UsedUp, Held
      <4>. QED  BY <4>1 DEF Exhausted
    <3>3. CASE Pending(t)
      BY <2>2, <3>3 DEF Pending
    <3>. QED  BY <2>3, <3>1, <3>2, <3>3 DEF HearsVerdict
  <2>4. CASE Wakes(t)
    <3>1. heldFor[t] >= HoldBound
      BY <2>2, <2>4 DEF Wakes
    <3>. QED  BY <3>1 DEF Exhausted
  <2>5. CASE Arrives(t) \/ Ends(t) \/ ReportsSuccess(t) \/ Leaves(t) \/ Reports(t)
             \/ ReportsStatus(t)
    BY <2>2, <2>5 DEF Arrives, Ends, AttemptDies, AttemptAnswers, ReportsSuccess, Leaves,
                      Reports, ReportsStatus
  <2>6. ASSUME pc'[t] = pc[t]
        PROVE  FALSE
    BY <1>1, <2>6 DEF Refused
  <2>7. ASSUME NEW u \in Turns \ {t}, Arrives(u) \/ Ends(u) \/ Goes(u) \/ Leaves(u)
        PROVE  FALSE
    BY <2>0, <2>6, <2>7 DEF Arrives, Ends, AttemptDies, AttemptAnswers, HearsVerdict,
         Ruling, UsedUp, Pending, Wakes, ReportsSuccess, Leaves, Reports, ReportsStatus,
         Goes, Returns, TurnGoes, TurnsTyped
  <2>8. CASE Tick \/ Ticker \/ Publishes \/ NetworkChanges \/ LeaseChanges \/ UNCHANGED holdVars
    BY <2>6, <2>8 DEF Tick, Ticker, Publishes, NetworkChanges, LeaseChanges, holdVars, turn
  <2>. QED  BY <1>1, <2>3, <2>4, <2>5, <2>7, <2>8 DEF HoldNext, Goes
<1>2. HoldInv /\ [HoldNext]_holdVars =>
      \A t \in Turns : Refused(t) => Exhausted(t) \/ failures[Claude] = 0
  BY <1>1
<1>. QED  BY <1>2, HoldCorrect, PTL DEF HoldSpec, BlipIsAbsorbed

-----------------------------------------------------------------------------
(* The breaker behind it *)

\* The breaker does what FailoverBreaker says it may, and nothing else: what is proved
\* of FailoverBreaker for every driver (one voice, an exact registry, no opening within
\* MinOutage of a success) holds of the breaker the held turns ask.
THEOREM HoldDrivesTheBreaker == HoldSpec => Br!BreakerSpec
<1>1. HoldInit => Br!BreakerInit
  BY DEF HoldInit
<1>2. ASSUME [HoldNext]_holdVars
      PROVE  [Br!BreakerNext]_(Br!failoverVars)
  <2>0. Claude \in ClaudeBreaker
    BY DEF ClaudeBreaker
  <2>1. CASE UNCHANGED breaker
    BY <2>1 DEF breaker, Br!failoverVars
  <2>2. CASE \E transport \in BOOLEAN : Br!RecordFailure(Claude, transport, FALSE)
    BY <2>0, <2>2 DEF Br!BreakerNext
  <2>3. CASE TakeSlot
    BY <2>0, <2>1, <2>3 DEF TakeSlot, Br!BreakerNext
  <2>4. CASE Br!RecordSuccess(Claude) \/ Br!Publish(Claude) \/ Br!NetworkChanges(Claude)
    BY <2>0, <2>4 DEF Br!BreakerNext
  <2>5. CASE Br!Tick
    BY <2>5 DEF Br!BreakerNext
  <2>6. CASE Br!Ticker
    BY <2>6 DEF Br!BreakerNext, Br!Ticker
  <2>7. ASSUME NEW t \in Turns, Arrives(t) \/ Ends(t) \/ Goes(t) \/ Leaves(t)
        PROVE  [Br!BreakerNext]_(Br!failoverVars)
    <3>1. CASE Arrives(t) \/ Wakes(t)
      BY <2>1, <2>3, <3>1 DEF Arrives, Wakes
    <3>2. CASE Ends(t) \/ Leaves(t) \/ HearsVerdict(t)
      BY <2>1, <3>2 DEF Ends, Leaves, AttemptDies, AttemptAnswers, HearsVerdict
    <3>3. CASE Reports(t) \/ ReportsStatus(t)
      BY <2>2, <3>3 DEF Reports, ReportsStatus
    <3>4. CASE ReportsSuccess(t)
      BY <2>4, <3>4 DEF ReportsSuccess
    <3>. QED  BY <2>7, <3>1, <3>2, <3>3, <3>4 DEF Goes
  <2>8. CASE Tick \/ Ticker \/ Publishes \/ NetworkChanges
    BY <2>4, <2>5, <2>6, <2>8 DEF Tick, Ticker, Publishes, NetworkChanges
  <2>9. CASE LeaseChanges \/ UNCHANGED holdVars
    BY <2>1, <2>9 DEF LeaseChanges, holdVars
  <2>. QED  BY <1>2, <2>7, <2>8, <2>9 DEF HoldNext
<1>. QED  BY <1>1, <1>2, PTL DEF HoldSpec, Br!BreakerSpec
=============================================================================

------------------------ MODULE FailoverBreakerProofs ------------------------
(***************************************************************************)
(* Proofs about FailoverBreaker, for any set of breakers and any timing.   *)
(***************************************************************************)
EXTENDS FailoverBreaker, TLAPS

USE BreakerAssumption, TimingAssumption

-----------------------------------------------------------------------------
(* Ages *)

\* The horizons at which timers stop growing are large enough for every
\* comparison made with them.
LEMMA HorizonTypes ==
    /\ BurstHorizon \in Nat
    /\ MinOutage <= BurstHorizon
    /\ ProbeHorizon \in Nat
BY DEF BurstHorizon, ProbeHorizon, Greatest

\* Growing older keeps a timer within its horizon and never makes it younger.
LEMMA OlderType ==
    ASSUME NEW h \in Nat, NEW a \in 0..h
    PROVE  /\ Older(a, h) \in 0..h
           /\ Older(a, h) >= a
BY DEF Older, Least

\* A capped age is within its cap.
LEMMA LeastType ==
    ASSUME NEW h \in Nat, NEW a \in Nat
    PROVE  Least(a, h) \in 0..h
BY DEF Least

\* What record_failure computes before it decides is in range.
LEMMA BurstTypes ==
    ASSUME BreakerTypeOK, NEW b \in Breakers
    PROVE  /\ Strikes(b) \in 1..Threshold
           /\ BurstAge(b) \in 0..BurstHorizon
           /\ Quiet(b) \in BOOLEAN
BY HorizonTypes DEF BreakerTypeOK, Strikes, BurstAge, InBurst, Quiet, Least

\* Opening a breaker keeps its timers within their ranges.
LEMMA OpenBreakerType ==
    ASSUME BreakerTypeOK, NEW b \in Breakers, NEW transport \in BOOLEAN,
           NEW quiet \in BOOLEAN, NEW age \in Nat,
           OpenBreaker(b, transport, quiet, age)
    PROVE  /\ open' \in [Breakers -> BOOLEAN]
           /\ onTransport' \in [Breakers -> BOOLEAN]
           /\ sinceProbe' \in [Breakers -> 0..ProbeInterval]
           /\ sinceRecovery' \in [Breakers -> 0..ProbeInterval]
           /\ sinceNotice' \in [Breakers -> 0..NotifyCooldown]
           /\ announced' \in [Breakers -> BOOLEAN]
           /\ active' \in SUBSET Breakers
           /\ publishing' \in SUBSET Breakers
           /\ unseen' \in [Breakers -> SUBSET Breakers]
<1>1. /\ Least(age, ProbeInterval) \in 0..ProbeInterval
      /\ Least(age, NotifyCooldown) \in 0..NotifyCooldown
  BY LeastType
<1>2. /\ open' \in [Breakers -> BOOLEAN]
      /\ onTransport' \in [Breakers -> BOOLEAN]
  BY DEF BreakerTypeOK, OpenBreaker
<1>3. /\ sinceProbe' \in [Breakers -> 0..ProbeInterval]
      /\ sinceRecovery' \in [Breakers -> 0..ProbeInterval]
  BY <1>1 DEF BreakerTypeOK, OpenBreaker
<1>4. sinceNotice' \in [Breakers -> 0..NotifyCooldown]
  BY <1>1 DEF BreakerTypeOK, OpenBreaker, Announce
<1>5. announced' \in [Breakers -> BOOLEAN]
  BY DEF BreakerTypeOK, OpenBreaker, Announce
<1>6. /\ active' \in SUBSET Breakers
      /\ publishing' \in SUBSET Breakers
      /\ unseen' \in [Breakers -> SUBSET Breakers]
  BY DEF BreakerTypeOK, OpenBreaker
<1>. QED  BY <1>2, <1>3, <1>4, <1>5, <1>6

\* Closing a breaker keeps the types of what it resets.
LEMMA CloseType ==
    ASSUME BreakerTypeOK, NEW b \in Breakers, Close(b)
    PROVE  /\ open' \in [Breakers -> BOOLEAN]
           /\ announced' \in [Breakers -> BOOLEAN]
           /\ failures' \in [Breakers -> 0..Threshold]
           /\ active' \in SUBSET Breakers
           /\ publishing' \in SUBSET Breakers
           /\ unseen' \in [Breakers -> SUBSET Breakers]
BY DEF BreakerTypeOK, Close, NoLongerUnseen

-----------------------------------------------------------------------------
(* Type correctness *)

\* The initial state is well typed.
LEMMA TypeInit == BreakerInit => BreakerTypeOK
BY HorizonTypes DEF BreakerInit, BreakerTypeOK, NoVerdict, Verdicts

\* Every step of requests, ticker and clock keeps the types.
LEMMA TypeStep == BreakerTypeOK /\ [BreakerNext]_failoverVars => BreakerTypeOK'
<1> SUFFICES ASSUME BreakerTypeOK, [BreakerNext]_failoverVars PROVE BreakerTypeOK'
  OBVIOUS
<1>1. ASSUME NEW b \in Breakers, NEW transport \in BOOLEAN,
             NEW confirmed \in BOOLEAN, RecordFailure(b, transport, confirmed)
      PROVE  BreakerTypeOK'
  <2>1. /\ failures' \in [Breakers -> 0..Threshold]
        /\ sinceFirst' \in [Breakers -> 0..BurstHorizon]
    BY <1>1, BurstTypes DEF BreakerTypeOK, RecordFailure, CountFailure
  <2>2. UNCHANGED <<todo, probing, reachable, sinceSuccess>>
    BY <1>1 DEF RecordFailure
  <2>3. CASE UNCHANGED <<openingVars, verdict>>
    BY <2>1, <2>2, <2>3 DEF BreakerTypeOK, openingVars
  <2>4. CASE OpenBreaker(b, transport, Quiet(b), 0) /\ UNCHANGED verdict
    BY <2>1, <2>2, <2>4, OpenBreakerType, BurstTypes DEF BreakerTypeOK
  <2>5. CASE /\ verdict' = [verdict EXCEPT ![b] =
                 [busy |-> TRUE, transport |-> transport,
                  quiet |-> Quiet(b), age |-> 0]]
             /\ UNCHANGED openingVars
    <3>1. [busy |-> TRUE, transport |-> transport, quiet |-> Quiet(b),
           age |-> 0] \in Verdicts
      BY BurstTypes, HorizonTypes DEF Verdicts
    <3>. QED  BY <2>1, <2>2, <2>5, <3>1 DEF BreakerTypeOK, openingVars
  <2>. QED  BY <1>1, <2>3, <2>4, <2>5 DEF RecordFailure
<1>2. ASSUME NEW b \in Breakers, GateAnswers(b)
      PROVE  BreakerTypeOK'
  <2>1. /\ verdict[b].transport \in BOOLEAN
        /\ verdict[b].quiet \in BOOLEAN
        /\ verdict[b].age \in Nat
    BY HorizonTypes DEF BreakerTypeOK, Verdicts
  <2>2. verdict' \in [Breakers -> Verdicts]
    BY <1>2, HorizonTypes DEF BreakerTypeOK, GateAnswers, NoVerdict, Verdicts
  <2>3. CASE /\ OpenBreaker(b, verdict[b].transport, verdict[b].quiet,
                            verdict[b].age)
             /\ UNCHANGED failures
    <3>1. /\ open' \in [Breakers -> BOOLEAN]
          /\ onTransport' \in [Breakers -> BOOLEAN]
          /\ sinceProbe' \in [Breakers -> 0..ProbeInterval]
          /\ sinceRecovery' \in [Breakers -> 0..ProbeInterval]
          /\ sinceNotice' \in [Breakers -> 0..NotifyCooldown]
          /\ announced' \in [Breakers -> BOOLEAN]
          /\ active' \in SUBSET Breakers
          /\ publishing' \in SUBSET Breakers
          /\ unseen' \in [Breakers -> SUBSET Breakers]
      BY <2>1, <2>3, OpenBreakerType
    <3>. QED  BY <1>2, <2>2, <2>3, <3>1 DEF BreakerTypeOK, GateAnswers
  <2>4. CASE /\ failures' = [failures EXCEPT ![b] = 0]
             /\ UNCHANGED openingVars
    BY <1>2, <2>2, <2>4 DEF BreakerTypeOK, GateAnswers, openingVars
  <2>. QED  BY <1>2, <2>3, <2>4 DEF GateAnswers
<1>3. ASSUME NEW b \in Breakers, RecordSuccess(b)
      PROVE  BreakerTypeOK'
  BY <1>3, CloseType, HorizonTypes DEF BreakerTypeOK, RecordSuccess
<1>4. ASSUME NEW b \in Breakers, AllowUpstream(b)
      PROVE  BreakerTypeOK'
  BY <1>4 DEF BreakerTypeOK, AllowUpstream
<1>5. ASSUME TickerPass PROVE BreakerTypeOK'
  BY <1>5 DEF BreakerTypeOK, TickerPass, breakerVars
<1>6. ASSUME NEW b \in Breakers, TickerSkips(b)
      PROVE  BreakerTypeOK'
  BY <1>6 DEF BreakerTypeOK, TickerSkips, breakerVars
<1>7. ASSUME NEW b \in Breakers, StartProbe(b)
      PROVE  BreakerTypeOK'
  BY <1>7 DEF BreakerTypeOK, StartProbe
<1>8. ASSUME NEW b \in Breakers, FinishProbe(b)
      PROVE  BreakerTypeOK'
  BY <1>8, CloseType DEF BreakerTypeOK, FinishProbe
<1>9. ASSUME Tick PROVE BreakerTypeOK'
  <2>1. ASSUME NEW b \in Breakers
        PROVE  (IF verdict[b].busy
                THEN [verdict[b] EXCEPT !.age = Older(@, ProbeHorizon)]
                ELSE verdict[b]) \in Verdicts
    <3>1. verdict[b] \in Verdicts
      BY DEF BreakerTypeOK
    <3>2. Older(verdict[b].age, ProbeHorizon) \in 0..ProbeHorizon
      BY <3>1, OlderType, HorizonTypes DEF Verdicts
    <3>. QED  BY <3>1, <3>2 DEF Verdicts
  <2>2. verdict' \in [Breakers -> Verdicts]
    BY <1>9, <2>1 DEF Tick
  <2>3. \A b \in Breakers :
          /\ Older(sinceFirst[b], BurstHorizon) \in 0..BurstHorizon
          /\ Older(sinceSuccess[b], BurstHorizon) \in 0..BurstHorizon
          /\ Older(sinceProbe[b], ProbeInterval) \in 0..ProbeInterval
          /\ Older(sinceRecovery[b], ProbeInterval) \in 0..ProbeInterval
          /\ Older(sinceNotice[b], NotifyCooldown) \in 0..NotifyCooldown
    BY OlderType, HorizonTypes DEF BreakerTypeOK
  <2>. QED  BY <1>9, <2>2, <2>3 DEF BreakerTypeOK, Tick
<1>10. ASSUME NEW b \in Breakers, NetworkChanges(b)
       PROVE  BreakerTypeOK'
  BY <1>10 DEF BreakerTypeOK, NetworkChanges, breakerVars
<1>11. ASSUME NEW b \in Breakers, Publish(b)
       PROVE  BreakerTypeOK'
  BY <1>11 DEF BreakerTypeOK, Publish
<1>12. CASE UNCHANGED failoverVars
  BY <1>12 DEF BreakerTypeOK, failoverVars
<1>. QED
  BY <1>1, <1>2, <1>3, <1>4, <1>5, <1>6, <1>7, <1>8, <1>9, <1>10, <1>11, <1>12
     DEF BreakerNext

\* Every timer, counter and flag stays in its range, whatever the interleaving
\* of requests, ticker and clock.
THEOREM TypeCorrect == BreakerSpec => []BreakerTypeOK
BY TypeInit, TypeStep, PTL DEF BreakerSpec

-----------------------------------------------------------------------------
(* The registry and the announcements *)

\* By RegistryExact the peer check of _announce misses only breakers that are being
\* published, so the two notice properties are proved together.
NoticeInv == BreakerTypeOK /\ RegistryExact /\ OneVoice

\* No breaker is open or announced in the initial state.
LEMMA NoticeInit == BreakerInit => NoticeInv
BY TypeInit DEF BreakerInit, NoticeInv, RegistryExact, OneVoice

\* What a breaker that opens may say, and past whom.
Speaks(b) ==
    /\ publishing' = publishing \union {b}
    /\ open' = [open EXCEPT ![b] = TRUE]
    /\ unseen' = [unseen EXCEPT ![b] = {p \in publishing : open[p]}]
    /\ \/ announced' = [announced EXCEPT ![b] = FALSE]
       \/ ~PeerOpen(b) /\ announced' = [announced EXCEPT ![b] = TRUE]
    /\ UNCHANGED active

\* Opening a breaker is speaking, or keeping silent.
LEMMA OpenBreakerSpeaks ==
    ASSUME NEW b \in Breakers, NEW transport, NEW quiet, NEW age,
           OpenBreaker(b, transport, quiet, age)
    PROVE  Speaks(b)
BY DEF OpenBreaker, Announce, Speaks

\* A breaker that opens speaks only if it sees nobody, and then only past breakers
\* that are being published.
LEMMA SpeaksNotice ==
    ASSUME NoticeInv, NEW b \in Breakers, ~open[b], Speaks(b)
    PROVE  RegistryExact' /\ OneVoice'
<1>1. RegistryExact'
  BY DEF NoticeInv, BreakerTypeOK, RegistryExact, Speaks
<1>2. ~announced[b]
  BY DEF NoticeInv, OneVoice
<1>3. SUFFICES ASSUME NEW c \in Breakers, announced'[c]
               PROVE  /\ open'[c]
                      /\ \A p \in Breakers \ {c} :
                            announced'[p] => p \in unseen'[c] \/ c \in unseen'[p]
  BY <1>1 DEF OneVoice
<1>4. open'[c]
  BY <1>3 DEF NoticeInv, BreakerTypeOK, OneVoice, Speaks
<1>5. ASSUME NEW p \in Breakers \ {b}, announced[p], announced'[b]
      PROVE  p \in unseen'[b]
  <2>1. open[p] /\ ~PeerOpen(b)
    BY <1>5 DEF NoticeInv, BreakerTypeOK, OneVoice, Speaks
  <2>2. p \in publishing
    BY <2>1 DEF PeerOpen, NoticeInv, RegistryExact
  <2>. QED  BY <2>1, <2>2 DEF NoticeInv, BreakerTypeOK, Speaks
<1>6. ASSUME NEW p \in Breakers \ {c}, announced'[p]
      PROVE  p \in unseen'[c] \/ c \in unseen'[p]
  <2>1. CASE c = b
    BY <1>3, <1>5, <1>6, <2>1 DEF NoticeInv, BreakerTypeOK, Speaks
  <2>2. CASE p = b
    BY <1>3, <1>5, <1>6, <2>2 DEF NoticeInv, BreakerTypeOK, Speaks
  <2>3. CASE c # b /\ p # b
    BY <1>3, <1>6, <2>3 DEF NoticeInv, BreakerTypeOK, OneVoice, Speaks
  <2>. QED  BY <2>1, <2>2, <2>3
<1>. QED  BY <1>4, <1>6

\* Opening keeps the registry exact and the voices apart.
LEMMA OpenBreakerNotice ==
    ASSUME NoticeInv, NEW b \in Breakers, NEW transport, NEW quiet, NEW age,
           ~open[b], OpenBreaker(b, transport, quiet, age)
    PROVE  RegistryExact' /\ OneVoice'
BY OpenBreakerSpeaks, SpeaksNotice

\* Closing removes a breaker from the registry together with its announcement.
LEMMA CloseNotice ==
    ASSUME NoticeInv, NEW b \in Breakers, Close(b)
    PROVE  RegistryExact' /\ OneVoice'
<1>1. RegistryExact'
  BY DEF NoticeInv, BreakerTypeOK, RegistryExact, Close
<1>2. SUFFICES ASSUME NEW c \in Breakers, announced'[c]
               PROVE  /\ open'[c]
                      /\ \A p \in Breakers \ {c} :
                            announced'[p] => p \in unseen'[c] \/ c \in unseen'[p]
  BY <1>1 DEF OneVoice
<1>3. c # b /\ announced[c] /\ open[c]
  BY <1>2 DEF NoticeInv, BreakerTypeOK, OneVoice, Close
<1>4. open'[c]
  BY <1>3 DEF NoticeInv, BreakerTypeOK, Close
<1>5. ASSUME NEW p \in Breakers \ {c}, announced'[p]
      PROVE  p \in unseen'[c] \/ c \in unseen'[p]
  <2>1. p # b /\ announced[p]
    BY <1>5 DEF NoticeInv, BreakerTypeOK, Close
  <2>2. p \in unseen[c] \/ c \in unseen[p]
    BY <1>3, <1>5, <2>1 DEF NoticeInv, OneVoice
  <2>. QED  BY <1>3, <2>1, <2>2 DEF Close, NoLongerUnseen
<1>. QED  BY <1>4, <1>5

\* What is published after the popup is the breaker as it is by then.
LEMMA PublishNotice ==
    ASSUME NoticeInv, NEW b \in Breakers, Publish(b)
    PROVE  RegistryExact' /\ OneVoice'
BY DEF NoticeInv, BreakerTypeOK, RegistryExact, OneVoice, Publish

\* A step that opens, closes and publishes nothing leaves registry and voice as they are.
LEMMA QuietStepNotice ==
    ASSUME NoticeInv, UNCHANGED <<open, announced, active, publishing, unseen>>
    PROVE  RegistryExact' /\ OneVoice'
BY DEF NoticeInv, RegistryExact, OneVoice

\* What a waiting verdict relies on: its breaker is still closed (GateAnswers
\* opens without looking again) and the outage it judges was sustained.
WaitingVerdict(b) ==
    verdict[b].busy => ~open[b] /\ sinceSuccess[b] >= MinOutage

\* A burst starts after the last success: successes forget the burst.
BurstAfterSuccess(b) == failures[b] > 0 => sinceFirst[b] <= sinceSuccess[b]

OutageInv == \A b \in Breakers : WaitingVerdict(b) /\ BurstAfterSuccess(b)

\* A failure that is ripe was preceded by an outage of MinOutage.
LEMMA RipeMeansSustained ==
    ASSUME BreakerTypeOK, OutageInv, NEW b \in Breakers
    PROVE  /\ BurstAge(b) <= sinceSuccess[b]
           /\ Ripe(b) => sinceSuccess[b] >= MinOutage
BY HorizonTypes DEF BreakerTypeOK, OutageInv, BurstAfterSuccess, Ripe, BurstAge, InBurst

\* No step makes a burst older than the last success: a success forgets the
\* burst, and it cannot come while a verdict on that burst is waiting.
LEMMA OutageStep ==
    ASSUME BreakerTypeOK, OutageInv, [BreakerNext]_failoverVars
    PROVE  OutageInv'
<1> SUFFICES ASSUME NEW p \in Breakers
             PROVE  WaitingVerdict(p)' /\ BurstAfterSuccess(p)'
  BY DEF OutageInv
<1>0. WaitingVerdict(p) /\ BurstAfterSuccess(p)
  BY DEF OutageInv
<1>a. /\ verdict[p] \in Verdicts
      /\ failures[p] \in 0..Threshold
      /\ sinceFirst[p] \in 0..BurstHorizon
      /\ sinceSuccess[p] \in 0..BurstHorizon
      /\ BurstHorizon \in Nat
      /\ MinOutage <= BurstHorizon
  BY HorizonTypes DEF BreakerTypeOK
<1> USE DEF WaitingVerdict, BurstAfterSuccess
<1>1. ASSUME NEW b \in Breakers, NEW transport \in BOOLEAN,
             NEW confirmed \in BOOLEAN, RecordFailure(b, transport, confirmed)
      PROVE  WaitingVerdict(p)' /\ BurstAfterSuccess(p)'
  <2>1. /\ failures' = [failures EXCEPT ![b] = Strikes(b)]
        /\ sinceFirst' = [sinceFirst EXCEPT ![b] = BurstAge(b)]
        /\ UNCHANGED sinceSuccess
        /\ ~verdict[b].busy
    BY <1>1 DEF RecordFailure, CountFailure, Serialised
  <2>2. BurstAfterSuccess(p)'
    BY <1>0, <1>a, <2>1, RipeMeansSustained DEF BreakerTypeOK
  <2>3. CASE UNCHANGED <<open, verdict>>
    BY <1>0, <2>1, <2>2, <2>3
  <2>4. CASE OpenBreaker(b, transport, Quiet(b), 0) /\ UNCHANGED verdict
    BY <1>0, <2>1, <2>2, <2>4 DEF BreakerTypeOK, OpenBreaker
  <2>5. CASE /\ Ripe(b)
             /\ verdict' = [verdict EXCEPT ![b] =
                  [busy |-> TRUE, transport |-> transport,
                   quiet |-> Quiet(b), age |-> 0]]
             /\ UNCHANGED open
    <3>1. CASE p = b
      BY <2>1, <2>2, <2>5, <3>1, RipeMeansSustained DEF BreakerTypeOK, Ripe
    <3>2. CASE p # b
      BY <1>0, <2>1, <2>2, <2>5, <3>2 DEF BreakerTypeOK
    <3>. QED  BY <3>1, <3>2
  <2>. QED  BY <1>1, <2>3, <2>4, <2>5 DEF RecordFailure, openingVars
<1>2. ASSUME NEW b \in Breakers, GateAnswers(b)
      PROVE  WaitingVerdict(p)' /\ BurstAfterSuccess(p)'
  <2>1. /\ UNCHANGED <<sinceFirst, sinceSuccess>>
        /\ verdict' = [verdict EXCEPT ![b] = NoVerdict]
        /\ \/ UNCHANGED failures
           \/ failures' = [failures EXCEPT ![b] = 0]
        /\ p # b => open'[p] = open[p]
    BY <1>2 DEF GateAnswers, OpenBreaker, BreakerTypeOK, openingVars
  <2>2. BurstAfterSuccess(p)'
    BY <1>0, <1>a, <2>1 DEF BreakerTypeOK
  <2>3. CASE p = b
    BY <2>1, <2>2, <2>3 DEF BreakerTypeOK, NoVerdict
  <2>4. CASE p # b
    BY <1>0, <2>1, <2>2, <2>4 DEF BreakerTypeOK
  <2>. QED  BY <2>3, <2>4
<1>3. ASSUME NEW b \in Breakers, RecordSuccess(b)
      PROVE  WaitingVerdict(p)' /\ BurstAfterSuccess(p)'
  BY <1>0, <1>a, <1>3 DEF BreakerTypeOK, RecordSuccess, Serialised, Close
<1>4. ASSUME NEW b \in Breakers, FinishProbe(b)
      PROVE  WaitingVerdict(p)' /\ BurstAfterSuccess(p)'
  BY <1>0, <1>a, <1>4 DEF BreakerTypeOK, FinishProbe, Close
<1>5. ASSUME Tick
      PROVE  WaitingVerdict(p)' /\ BurstAfterSuccess(p)'
  <2>1. /\ sinceFirst'[p] = Older(sinceFirst[p], BurstHorizon)
        /\ sinceSuccess'[p] = Older(sinceSuccess[p], BurstHorizon)
        /\ UNCHANGED <<open, failures>>
    BY <1>5 DEF Tick
  <2>2. verdict'[p].busy = verdict[p].busy
    <3>1. CASE verdict[p].busy
      <4>1. verdict'[p] = [verdict[p] EXCEPT !.age = Older(@, ProbeHorizon)]
        BY <1>5, <3>1 DEF Tick
      <4>. QED  BY <1>a, <4>1 DEF Verdicts
    <3>2. CASE ~verdict[p].busy
      BY <1>5, <3>2 DEF Tick
    <3>. QED  BY <3>1, <3>2
  <2>. QED  BY <1>0, <1>a, <2>1, <2>2 DEF Older, Least
<1>6. CASE UNCHANGED <<open, verdict, failures, sinceFirst, sinceSuccess>>
  BY <1>0, <1>6
<1>. QED
  BY <1>1, <1>2, <1>3, <1>4, <1>5, <1>6
     DEF BreakerNext, failoverVars, breakerVars, AllowUpstream, TickerPass, TickerSkips,
         StartProbe, NetworkChanges, Publish

\* The inductive invariant of the breakers.
BreakerInv == NoticeInv /\ OutageInv

\* The inductive invariant holds initially.
LEMMA BreakerStart == BreakerInit => BreakerInv
BY NoticeInit, HorizonTypes
   DEF BreakerInit, BreakerInv, OutageInv, WaitingVerdict, BurstAfterSuccess, NoVerdict

\* Whatever opens or closes a breaker keeps the registry exact and one voice.
LEMMA NoticeStep ==
    ASSUME BreakerInv, [BreakerNext]_failoverVars
    PROVE  RegistryExact' /\ OneVoice'
<1>1. ASSUME NEW b \in Breakers, NEW transport \in BOOLEAN,
             NEW confirmed \in BOOLEAN, RecordFailure(b, transport, confirmed)
      PROVE  RegistryExact' /\ OneVoice'
  <2>1. CASE UNCHANGED openingVars
    BY <2>1, QuietStepNotice DEF BreakerInv, openingVars
  <2>2. CASE Ripe(b) /\ OpenBreaker(b, transport, Quiet(b), 0)
    BY <2>2, OpenBreakerNotice DEF BreakerInv, Ripe
  <2>. QED  BY <1>1, <2>1, <2>2 DEF RecordFailure
<1>2. ASSUME NEW b \in Breakers, GateAnswers(b)
      PROVE  RegistryExact' /\ OneVoice'
  <2>1. ~open[b]
    BY <1>2 DEF BreakerInv, OutageInv, WaitingVerdict, GateAnswers
  <2>2. CASE UNCHANGED openingVars
    BY <2>2, QuietStepNotice DEF BreakerInv, openingVars
  <2>3. CASE OpenBreaker(b, verdict[b].transport, verdict[b].quiet,
                         verdict[b].age)
    BY <2>1, <2>3, OpenBreakerNotice DEF BreakerInv
  <2>. QED  BY <1>2, <2>2, <2>3 DEF GateAnswers
<1>3. ASSUME NEW b \in Breakers, Close(b)
      PROVE  RegistryExact' /\ OneVoice'
  BY <1>3, CloseNotice DEF BreakerInv
<1>4. ASSUME NEW b \in Breakers, Publish(b)
      PROVE  RegistryExact' /\ OneVoice'
  BY <1>4, PublishNotice DEF BreakerInv
<1>5. CASE UNCHANGED <<open, announced, active, publishing, unseen>>
  BY <1>5, QuietStepNotice DEF BreakerInv
<1>. QED
  BY <1>1, <1>2, <1>3, <1>4, <1>5
     DEF BreakerNext, failoverVars, breakerVars, RecordSuccess, FinishProbe, AllowUpstream,
         TickerPass, TickerSkips, StartProbe, NetworkChanges, Tick

\* The inductive invariant is preserved by every step.
LEMMA BreakerStep == BreakerInv /\ [BreakerNext]_failoverVars => BreakerInv'
BY TypeStep, OutageStep, NoticeStep DEF BreakerInv, NoticeInv

\* The inductive invariant of the breakers: types, exact registry, one voice, and
\* bursts and waiting verdicts that never predate the last upstream success.
THEOREM BreakerInvariant == BreakerSpec => []BreakerInv
BY BreakerStart, BreakerStep, PTL DEF BreakerSpec

\* The registry names exactly the open breakers that are not on their way into it.
THEOREM RegistryIsExact == BreakerSpec => []RegistryExact
<1>1. BreakerInv => RegistryExact
  BY DEF BreakerInv, NoticeInv
<1>. QED  BY <1>1, BreakerInvariant, PTL

\* Two outages stand announced only if one breaker opened while the other, open, was not
\* yet in the registry; never an announcement without its outage.
THEOREM OneVoiceAlways == BreakerSpec => []OneVoice
<1>1. BreakerInv => OneVoice
  BY DEF BreakerInv, NoticeInv
<1>. QED  BY <1>1, BreakerInvariant, PTL

\* The code behaviour: no interleaving of requests, slow connectivity probes
\* and recovery probes opens a breaker within MinOutage of a success.
LEMMA OpeningStep ==
    ASSUME BreakerInv, [BreakerNext]_failoverVars, NEW p \in Breakers, ~open[p], open'[p]
    PROVE  sinceSuccess[p] >= MinOutage
<1>1. ASSUME NEW b \in Breakers, NEW transport \in BOOLEAN,
             NEW confirmed \in BOOLEAN, RecordFailure(b, transport, confirmed)
      PROVE  sinceSuccess[p] >= MinOutage
  <2>1. p = b /\ Ripe(b)
    BY <1>1 DEF BreakerInv, NoticeInv, BreakerTypeOK, RecordFailure, OpenBreaker, openingVars
  <2>. QED  BY <2>1, RipeMeansSustained DEF BreakerInv, NoticeInv
<1>2. ASSUME NEW b \in Breakers, GateAnswers(b)
      PROVE  sinceSuccess[p] >= MinOutage
  <2>1. p = b
    BY <1>2 DEF BreakerInv, NoticeInv, BreakerTypeOK, GateAnswers, OpenBreaker, openingVars
  <2>. QED  BY <1>2, <2>1 DEF BreakerInv, OutageInv, WaitingVerdict, GateAnswers
<1>3. ASSUME NEW b \in Breakers, Close(b)
      PROVE  FALSE
  BY <1>3 DEF BreakerInv, NoticeInv, BreakerTypeOK, Close
<1>4. CASE UNCHANGED open
  BY <1>4
<1>. QED
  BY <1>1, <1>2, <1>3, <1>4
     DEF BreakerNext, failoverVars, breakerVars, RecordSuccess, FinishProbe, AllowUpstream,
         TickerPass, TickerSkips, StartProbe, NetworkChanges, Tick, Publish

\* No interleaving of failures, slow connectivity probes, successes and recovery
\* probes opens a breaker within MinOutage of an upstream success.
THEOREM NoEarlyOpening == BreakerSpec => OpensOnlyAfterOutage
<1>1. BreakerInv /\ [BreakerNext]_failoverVars =>
        [\A b \in Breakers :
           ~open[b] /\ open'[b] => sinceSuccess[b] >= MinOutage]_failoverVars
  BY OpeningStep
<1>. QED  BY <1>1, BreakerInvariant, PTL DEF BreakerSpec, OpensOnlyAfterOutage

-----------------------------------------------------------------------------
(* The contract *)

\* The initial state maps to the contract's initial state.
LEMMA ContractInit == BreakerInit => Contract!Init
BY DEF BreakerInit, Contract!Init

\* Opening a closed breaker is a fail-over of the contract.
LEMMA ContractOpen ==
    ASSUME BreakerInv, NEW b \in Breakers, NEW transport, NEW quiet, NEW age,
           ~open[b], OpenBreaker(b, transport, quiet, age)
    PROVE  Contract!FailsOver(b)
<1>1. Speaks(b)
  BY OpenBreakerSpeaks
<1>2. /\ open \in [Breakers -> BOOLEAN]
      /\ announced \in [Breakers -> BOOLEAN]
      /\ active \subseteq Breakers
      /\ b \notin active
      /\ ~announced[b]
  BY DEF BreakerInv, NoticeInv, BreakerTypeOK, RegistryExact, OneVoice
<1>3. {p \in Breakers : open'[p]} = {p \in Breakers : open[p]} \union {b}
  BY <1>1, <1>2 DEF Speaks
<1>4. CASE announced' = [announced EXCEPT ![b] = FALSE]
  <2>1. {p \in Breakers : announced'[p]} = {p \in Breakers : announced[p]}
    BY <1>2, <1>4
  <2>. QED  BY <1>1, <1>2, <1>3, <2>1 DEF Contract!FailsOver, Speaks
<1>5. CASE ~PeerOpen(b) /\ announced' = [announced EXCEPT ![b] = TRUE]
  <2>1. active = {}
    BY <1>2, <1>5 DEF PeerOpen
  <2>2. {p \in Breakers : announced'[p]} = {p \in Breakers : announced[p]} \union {b}
    BY <1>2, <1>5
  <2>. QED  BY <1>1, <1>2, <1>3, <2>1, <2>2 DEF Contract!FailsOver, Speaks
<1>. QED  BY <1>1, <1>4, <1>5 DEF Speaks

\* Closing an open breaker is a recovery of the contract; closing a closed one is
\* a stutter.
LEMMA ContractClose ==
    ASSUME BreakerInv, NEW b \in Breakers, Close(b)
    PROVE  Contract!Recovers(b) \/ UNCHANGED Contract!contractVars
<1>1. /\ active' = active \ {b}
      /\ announced' = [announced EXCEPT ![b] = FALSE]
      /\ announced \in [Breakers -> BOOLEAN]
      /\ open' = [open EXCEPT ![b] = FALSE]
      /\ open \in [Breakers -> BOOLEAN]
  BY DEF Close, BreakerInv, NoticeInv, BreakerTypeOK
<1>2. /\ {p \in Breakers : announced'[p]} = {p \in Breakers : announced[p]} \ {b}
      /\ {p \in Breakers : open'[p]} = {p \in Breakers : open[p]} \ {b}
  BY <1>1
<1>3. CASE open[b]
  BY <1>1, <1>2, <1>3 DEF Contract!Recovers
<1>4. CASE ~open[b]
  <2>1. ~announced[b] /\ b \notin active
    BY <1>4 DEF BreakerInv, NoticeInv, RegistryExact, OneVoice
  <2>. QED  BY <1>1, <1>2, <1>4, <2>1 DEF Contract!contractVars
<1>. QED  BY <1>3, <1>4

\* Publishing an open breaker is a step of the contract; a closed one, a stutter.
LEMMA ContractPublish ==
    ASSUME BreakerInv, NEW b \in Breakers, Publish(b)
    PROVE  Contract!IsPublished(b) \/ UNCHANGED Contract!contractVars
<1>1. UNCHANGED <<open, announced>>
  BY DEF Publish
<1>2. CASE open[b]
  BY <1>1, <1>2 DEF Publish, Contract!IsPublished
<1>3. CASE ~open[b]
  BY <1>1, <1>3 DEF Publish, Contract!contractVars, BreakerInv, NoticeInv, RegistryExact
<1>. QED  BY <1>2, <1>3

\* Every step of the detailed breakers is a step of the contract or a stutter.
LEMMA ContractStep ==
    ASSUME BreakerInv, [BreakerNext]_failoverVars
    PROVE  [Contract!Next]_(Contract!contractVars)
<1>1. ASSUME NEW b \in Breakers, NEW transport \in BOOLEAN,
             NEW confirmed \in BOOLEAN, RecordFailure(b, transport, confirmed)
      PROVE  [Contract!Next]_(Contract!contractVars)
  <2>1. CASE UNCHANGED openingVars
    BY <2>1 DEF Contract!contractVars, openingVars
  <2>2. CASE Ripe(b) /\ OpenBreaker(b, transport, Quiet(b), 0)
    BY <2>2, ContractOpen DEF Ripe, Contract!Next
  <2>. QED  BY <1>1, <2>1, <2>2 DEF RecordFailure
<1>2. ASSUME NEW b \in Breakers, GateAnswers(b)
      PROVE  [Contract!Next]_(Contract!contractVars)
  <2>1. ~open[b]
    BY <1>2 DEF BreakerInv, OutageInv, WaitingVerdict, GateAnswers
  <2>2. CASE UNCHANGED openingVars
    BY <2>2 DEF Contract!contractVars, openingVars
  <2>3. CASE OpenBreaker(b, verdict[b].transport, verdict[b].quiet,
                         verdict[b].age)
    BY <2>1, <2>3, ContractOpen DEF Contract!Next
  <2>. QED  BY <1>2, <2>2, <2>3 DEF GateAnswers
<1>3. ASSUME NEW b \in Breakers, Close(b)
      PROVE  [Contract!Next]_(Contract!contractVars)
  BY <1>3, ContractClose DEF Contract!Next
<1>4. ASSUME NEW b \in Breakers, Publish(b)
      PROVE  [Contract!Next]_(Contract!contractVars)
  BY <1>4, ContractPublish DEF Contract!Next
<1>5. CASE UNCHANGED <<open, announced, active>>
  BY <1>5 DEF Contract!contractVars
<1>. QED
  BY <1>1, <1>2, <1>3, <1>4, <1>5
     DEF BreakerNext, failoverVars, breakerVars, RecordSuccess, FinishProbe, AllowUpstream,
         TickerPass, TickerSkips, StartProbe, NetworkChanges, Tick

\* The detailed breakers implement the contract the rest of the machine sees.
THEOREM ImplementsContract == BreakerSpec => ContractSpec
BY ContractInit, ContractStep, BreakerInvariant, PTL
   DEF BreakerSpec, ContractSpec, Contract!Spec
=============================================================================

----------------------------- MODULE TierRelease -----------------------------
(***************************************************************************)
(* Who frees the GPU, and when: the claims a failover leaves on local      *)
(* tiers, the count of local responses in flight, and the unloads both     *)
(* decide.  Claude side: src/proxy/routes.py.  Codex side:                 *)
(* src/proxy/codex_routes.py, with a count, a deferral set and a lock of   *)
(* its own.  The recovery ticker serves both.                              *)
(*                                                                         *)
(* Everything runs on one event loop: a step is what a coroutine does      *)
(* between two suspension points.  An unload is a request to the local     *)
(* Ollama (external): it is sent in the step that decides it, takes effect *)
(* at any moment until it is answered, and is answered before the next one *)
(* is sent.                                                                *)
(*                                                                         *)
(* A breaker is reduced to open or closed (FailoverBreaker.tla has the     *)
(* rest), and the tier lock is left to TierLock.tla.  Tiers are a small    *)
(* and a wide one: a turn that outgrows the first escalates to the other.  *)
(***************************************************************************)
EXTENDS Naturals, Sequences, FiniteSets, SequencesExt

CONSTANTS
    ClaudeTurns,   \* concurrent requests to /v1/messages
    CodexTurns,    \* concurrent requests to /responses
    Narrow, Wide,  \* the two local tiers
    CodexTier      \* the tier that serves Codex turns

Tiers == {Narrow, Wide}
Sides == {"claude", "codex"}
Turns == ClaudeTurns \union CodexTurns

ASSUME SideAssumption ==
    /\ ClaudeTurns \intersect CodexTurns = {}
    /\ Turns \intersect Sides = {}
    /\ CodexTier \in Tiers
    /\ Narrow # Wide
    /\ IsFiniteSet(Turns)

\* The coroutines: the turns, and the ticker's work for either breaker.
Procs == Turns \union Sides

SideOf(p) == IF p \in ClaudeTurns \union {"claude"} THEN "claude" ELSE "codex"

VARIABLES
    tripped,        \* is this side's breaker open?
    claims,      \* breaker._claims: tiers this side's outage loaded
    inflight,    \* _local_inflight
    deferred,    \* _deferred_unloads / _deferred_claims
    evictions,   \* routes._deferred_evictions
    pc,          \* where each coroutine is suspended
    job,         \* what each turn is: failover or route, stream or not, tier
    rest,        \* unloads of this coroutine's loop not yet answered, in order
    struck       \* history: <<by, victim>> when an unload hit a tier in use

vars == <<tripped, claims, inflight, deferred, evictions, pc, job, rest, struck>>
books == <<tripped, claims, inflight, deferred, evictions>>

Jobs == [failover : BOOLEAN, stream : BOOLEAN, tier : Tiers]

NoJob == [failover |-> FALSE, stream |-> FALSE, tier |-> CodexTier]

Init ==
    /\ tripped = [s \in Sides |-> FALSE]
    /\ claims = [s \in Sides |-> {}]
    /\ inflight = [s \in Sides |-> 0]
    /\ deferred = [s \in Sides |-> {}]
    /\ evictions = {}
    /\ pc = [p \in Procs |-> "idle"]
    /\ job = [p \in Procs |-> NoJob]
    /\ rest = [p \in Procs |-> <<>>]
    /\ struck = {}

-----------------------------------------------------------------------------
(* Unloading *)

Goto(p, where) == pc' = [pc EXCEPT ![p] = where]

\* Ollama carries out the unload that p awaits, whatever the model is doing.
OllamaUnloads(p) ==
    /\ rest[p] # <<>>
    /\ struck' = struck \union
           {<<SideOf(p), SideOf(t)>> : t \in
               {u \in Turns : pc[u] = "serving" /\ job[u].tier = Head(rest[p])}}
    /\ UNCHANGED <<books, pc, job, rest>>

\* for base_url, model in tiers: await unload(base_url, model)
Unload(p, tiers, phase) ==
    \E order \in SetToSeqs(tiers) :
        /\ rest' = [rest EXCEPT ![p] = order]
        /\ Goto(p, phase)
        /\ UNCHANGED struck

Begin(p, tiers, phase) == Unload(p, tiers, phase) /\ UNCHANGED job

\* The coroutine ends, and what it knew of its turn with it.
Done(p) ==
    /\ Goto(p, "idle")
    /\ rest' = [rest EXCEPT ![p] = <<>>]
    /\ job' = [job EXCEPT ![p] = NoJob]
    /\ UNCHANGED struck

\* Codex holds _local_state_lock for as long as its unloads take.
CodexStateLocked ==
    \E p \in CodexTurns \union {"codex"} : pc[p] \in {"handing", "releasing"}

Less(n) == IF n > 0 THEN n - 1 ELSE 0

-----------------------------------------------------------------------------
(* Handing back the claims of a closed breaker *)

\* Mutant: what is in flight at the close is left to the idle timer.
MutDropsInFlight(p) ==
    /\ claims' = [claims EXCEPT !["claude"] = {}]
    /\ IF claims["claude"] = {} \/ inflight["claude"] > 0
       THEN Done(p)
       ELSE Begin(p, claims["claude"], "handing")
    /\ UNCHANGED deferred

\* routes._release_claims
ClaudeHandsBack(p) ==
    /\ claims' = [claims EXCEPT !["claude"] = {}]
    /\ \/ /\ claims["claude"] = {}
          /\ Done(p)
          /\ UNCHANGED deferred
       \/ /\ claims["claude"] # {}
          /\ inflight["claude"] > 0
          /\ deferred' = [deferred EXCEPT !["claude"] =
                              @ \union claims["claude"]]
          /\ Done(p)
       \/ /\ claims["claude"] # {}
          /\ inflight["claude"] = 0
          /\ Begin(p, claims["claude"], "handing")
          /\ UNCHANGED deferred

\* codex_routes._release_claims, under the state lock.
CodexHandsBack(p) ==
    LET old == IF tripped["codex"] THEN {} ELSE deferred["codex"]
        due == claims["codex"] \union old
    IN  /\ ~CodexStateLocked
        /\ claims' = [claims EXCEPT !["codex"] = {}]
        /\ \/ /\ inflight["codex"] > 0
              /\ deferred' = [deferred EXCEPT !["codex"] =
                                  @ \union claims["codex"]]
              /\ Done(p)
           \/ /\ inflight["codex"] = 0
              /\ deferred' = [deferred EXCEPT !["codex"] = @ \ old]
              /\ IF due = {} THEN Done(p) ELSE Begin(p, due, "handing")

-----------------------------------------------------------------------------
(* The ticker probes on a worker thread, closes, and releases on the loop *)

TickerProbes(s) ==
    /\ \A r \in Sides : pc[r] = "idle"
    /\ tripped[s]
    /\ Goto(s, "probing")
    /\ UNCHANGED <<books, job, rest, struck>>

\* A successful probe closes the breaker, whatever became of it meanwhile.
TickerCloses(s) ==
    /\ pc[s] = "probing"
    /\ \/ /\ tripped' = [tripped EXCEPT ![s] = FALSE]
          /\ Goto(s, "owed")
       \/ /\ Goto(s, "idle")
          /\ UNCHANGED tripped
    /\ UNCHANGED <<claims, inflight, deferred, evictions, job, rest, struck>>

TickerReleases(s) ==
    /\ pc[s] = "owed"
    /\ IF s = "claude" THEN ClaudeHandsBack(s) ELSE CodexHandsBack(s)
    /\ UNCHANGED <<tripped, inflight, evictions>>

-----------------------------------------------------------------------------
(* Claude turns *)

\* _try_upstream got an answer; was_open is read before the verdict's lock.
UpstreamAnswers(t) ==
    /\ pc[t] = "idle"
    /\ Goto(t, IF tripped["claude"] THEN "answered while open" ELSE "answered")
    /\ UNCHANGED <<books, job, rest, struck>>

RecordsSuccess(t) ==
    /\ tripped' = [tripped EXCEPT !["claude"] = FALSE]
    /\ \/ /\ pc[t] = "answered while open"
          /\ ClaudeHandsBack(t)
       \/ /\ pc[t] = "answered"
          /\ Done(t)
          /\ UNCHANGED <<claims, deferred>>
    /\ UNCHANGED <<inflight, evictions>>

\* _try_upstream returned None: the breaker was open, or this failure opened it.
FailsOver(t) ==
    /\ pc[t] = "idle"
    /\ tripped' = [tripped EXCEPT !["claude"] = TRUE]
    /\ \E stream \in BOOLEAN, tier \in Tiers :
          job' = [job EXCEPT ![t] =
              [failover |-> TRUE, stream |-> stream, tier |-> tier]]
    /\ Goto(t, "preparing")
    /\ UNCHANGED <<claims, inflight, deferred, evictions, rest, struck>>

\* A deliberate `/model qwen` route.
Routes(t) ==
    /\ pc[t] = "idle"
    /\ \E stream \in BOOLEAN, tier \in Tiers :
          job' = [job EXCEPT ![t] =
              [failover |-> FALSE, stream |-> stream, tier |-> tier]]
    /\ Goto(t, "preparing")
    /\ UNCHANGED <<books, rest, struck>>

\* TIER ESCALATE, with _evict_outgoing_tier.
Escalates(t) ==
    /\ pc[t] = "preparing"
    /\ job[t].tier = Narrow
    /\ job' = [job EXCEPT ![t].tier = Wide]
    /\ \/ /\ inflight["claude"] > 0
          /\ evictions' = evictions \union {Narrow}
          /\ UNCHANGED <<pc, rest, struck>>
       \/ /\ inflight["claude"] = 0
          /\ Unload(t, {Narrow}, "evicting")
          /\ UNCHANGED evictions
    /\ UNCHANGED <<tripped, claims, inflight, deferred>>

Claim(s, tier) == claims' = [claims EXCEPT ![s] = @ \union {tier}]

Started(s) == inflight' = [inflight EXCEPT ![s] = @ + 1]

\* The turn is dispatched: note_claim, then either a StreamingResponse whose
\* generator has not started or a completion that counts at once.
Dispatches(t) ==
    /\ t \in ClaudeTurns
    /\ pc[t] = "preparing"
    /\ IF job[t].failover THEN Claim("claude", job[t].tier) ELSE UNCHANGED claims
    /\ \/ /\ job[t].stream
          /\ Goto(t, "committed")
          /\ UNCHANGED inflight
       \/ /\ ~job[t].stream
          /\ Goto(t, "serving")
          /\ Started("claude")
    /\ UNCHANGED <<tripped, deferred, evictions, job, rest, struck>>

\* Mutant: only completions are counted.
MutStreamUncounted(t) ==
    /\ pc[t] = "committed"
    /\ Goto(t, "serving")
    /\ UNCHANGED <<books, job, rest, struck>>

StreamStarts(t) ==
    /\ pc[t] = "committed"
    /\ Goto(t, "serving")
    /\ Started("claude")
    /\ UNCHANGED <<tripped, claims, deferred, evictions, job, rest, struck>>

\* The turn fails or is answered before dispatch, or its client hangs up before
\* the first chunk, so that the generator never starts.
TurnVanishes(t) ==
    /\ pc[t] \in {"preparing", "committed"}
    /\ Done(t)
    /\ UNCHANGED books

\* _drain_deferred_evictions, entered with n responses in flight.
DrainEvictions(t, n) ==
    IF n > 0 \/ evictions = {}
    THEN Done(t) /\ UNCHANGED evictions
    ELSE Begin(t, evictions, "draining") /\ evictions' = {}

\* Mutant: the deferred set is inspected before this response is taken off.
MutLateDecrement(t) ==
    LET due == IF inflight["claude"] > 0 THEN {} ELSE deferred["claude"]
    IN  /\ t \in ClaudeTurns
        /\ pc[t] = "serving"
        /\ inflight' = [inflight EXCEPT !["claude"] = Less(@)]
        /\ deferred' = [deferred EXCEPT !["claude"] = @ \ due]
        /\ Done(t)
        /\ UNCHANGED <<tripped, claims, evictions>>

\* The finally of _tracked_local_stream, or of a completion: count down, then
\* release what waited for the last response, then drain the evictions.
TurnEnds(t) ==
    LET n == Less(inflight["claude"])
        due == IF n > 0 THEN {} ELSE deferred["claude"]
    IN  /\ t \in ClaudeTurns
        /\ pc[t] = "serving"
        /\ inflight' = [inflight EXCEPT !["claude"] = n]
        /\ deferred' = [deferred EXCEPT !["claude"] = @ \ due]
        /\ IF due # {} /\ ~tripped["claude"]
           THEN Begin(t, due, "releasing") /\ UNCHANGED evictions
           ELSE DrainEvictions(t, n)
        /\ UNCHANGED <<tripped, claims>>

-----------------------------------------------------------------------------
(* Codex turns *)

\* Response headers credit reachability; the body follows, unless the answer is
\* a structured 404, which is returned whole.
CodexAnswers(t) ==
    /\ t \in CodexTurns
    /\ pc[t] = "idle"
    /\ tripped' = [tripped EXCEPT !["codex"] = FALSE]
    /\ \/ Goto(t, "relaying")
       \/ UNCHANGED pc
    /\ UNCHANGED <<claims, inflight, deferred, evictions, job, rest, struck>>

\* _cloud_body runs to its end.
CodexBodyEnds(t) ==
    /\ pc[t] = "relaying"
    /\ IF tripped["codex"]
       THEN Done(t) /\ UNCHANGED <<claims, deferred>>
       ELSE CodexHandsBack(t)
    /\ UNCHANGED <<tripped, inflight, evictions>>

\* The body breaks off (which is a failure, and may open the breaker), or the
\* client hangs up (which is not).
CodexBodyDies(t) ==
    /\ pc[t] = "relaying"
    /\ \/ tripped' = [tripped EXCEPT !["codex"] = TRUE]
       \/ UNCHANGED tripped
    /\ Done(t)
    /\ UNCHANGED <<claims, inflight, deferred, evictions>>

CodexFailsOver(t) ==
    /\ t \in CodexTurns
    /\ pc[t] = "idle"
    /\ tripped' = [tripped EXCEPT !["codex"] = TRUE]
    /\ Goto(t, "wanting")
    /\ UNCHANGED <<claims, inflight, deferred, evictions, job, rest, struck>>

\* Mutant: the slot is counted without the state lock.
MutReserveUnlocked(t) ==
    /\ pc[t] = "wanting"
    /\ Started("codex")
    /\ Goto(t, "reserved")
    /\ UNCHANGED <<tripped, claims, deferred, evictions, job, rest, struck>>

\* _reserve_local_slot
ReservesSlot(t) ==
    /\ pc[t] = "wanting"
    /\ ~CodexStateLocked
    /\ Started("codex")
    /\ Goto(t, "reserved")
    /\ UNCHANGED <<tripped, claims, deferred, evictions, job, rest, struck>>

\* Mutant: the body counts the slot that was counted on reservation.
MutCountsTwice(t) ==
    /\ pc[t] = "reserved"
    /\ Claim("codex", CodexTier)
    /\ Started("codex")
    /\ Goto(t, "serving")
    /\ UNCHANGED <<tripped, deferred, evictions, job, rest, struck>>

\* The tier is held and the runtime ready: note_claim.  If the breaker closed
\* meanwhile, the claim is drained at once into the deferral.
CodexServes(t) ==
    /\ pc[t] = "reserved"
    /\ IF tripped["codex"]
       THEN Claim("codex", CodexTier) /\ UNCHANGED deferred
       ELSE /\ claims' = [claims EXCEPT !["codex"] = {}]
            /\ deferred' = [deferred EXCEPT !["codex"] =
                               @ \union claims["codex"] \union {CodexTier}]
    /\ Goto(t, "serving")
    /\ UNCHANGED <<tripped, inflight, evictions, job, rest, struck>>

\* Mutant: the slot's release ignores a breaker that opened again.
MutReleaseDrops(t) ==
    LET n == Less(inflight["codex"])
    IN  /\ t \in CodexTurns
        /\ pc[t] \in {"reserved", "serving"}
        /\ ~CodexStateLocked
        /\ inflight' = [inflight EXCEPT !["codex"] = n]
        /\ deferred' = [deferred EXCEPT !["codex"] = IF n > 0 THEN @ ELSE {}]
        /\ IF n = 0 /\ deferred["codex"] # {} /\ ~tripped["codex"]
           THEN Begin(t, deferred["codex"], "releasing")
           ELSE Done(t)
        /\ UNCHANGED <<tripped, claims, evictions>>

\* _release_local_slot: every way out of a local Codex turn.
CodexEnds(t) ==
    LET n == Less(inflight["codex"])
        due == IF n > 0 \/ tripped["codex"] THEN {} ELSE deferred["codex"]
    IN  /\ t \in CodexTurns
        /\ pc[t] \in {"reserved", "serving"}
        /\ ~CodexStateLocked
        /\ inflight' = [inflight EXCEPT !["codex"] = n]
        /\ deferred' = [deferred EXCEPT !["codex"] = @ \ due]
        /\ IF due # {} THEN Begin(t, due, "releasing") ELSE Done(t)
        /\ UNCHANGED <<tripped, claims, evictions>>

-----------------------------------------------------------------------------
(* A running unload loop *)

\* Ollama answers and the loop sends its next unload.  The loop was entered on a
\* count of zero; nobody asks again.
UnloadNext(p) ==
    /\ Len(rest[p]) > 1
    /\ rest' = [rest EXCEPT ![p] = Tail(@)]
    /\ UNCHANGED <<books, pc, job, struck>>

\* Ollama answers the last unload, and the coroutine goes on.
UnloadLast(p) ==
    /\ Len(rest[p]) = 1
    /\ \/ /\ pc[p] = "evicting"
          /\ Goto(p, "preparing")
          /\ rest' = [rest EXCEPT ![p] = <<>>]
          /\ UNCHANGED <<struck, evictions, job>>
       \/ /\ pc[p] = "releasing" /\ p \in ClaudeTurns
          /\ DrainEvictions(p, inflight["claude"])
       \/ /\ pc[p] \in {"handing", "draining"} \/ p \in CodexTurns
          /\ Done(p)
          /\ UNCHANGED evictions
    /\ UNCHANGED <<tripped, claims, inflight, deferred>>

\* The client of a stream disconnects: the server cancels the coroutine at every
\* await from then on, so the loop ends wherever it is.  (A completion, a ticker
\* and a handler run outside that cancel scope.)
CutShort(t) ==
    /\ rest[t] # <<>>
    /\ \/ t \in ClaudeTurns /\ job[t].stream /\ pc[t] \in {"releasing", "draining"}
       \/ t \in CodexTurns
    /\ Done(t)
    /\ UNCHANGED books

Next ==
    \/ \E t \in ClaudeTurns :
         \/ UpstreamAnswers(t) \/ RecordsSuccess(t)
         \/ FailsOver(t) \/ Routes(t) \/ Escalates(t)
         \/ Dispatches(t) \/ StreamStarts(t) \/ TurnVanishes(t) \/ TurnEnds(t)
    \/ \E t \in CodexTurns :
         \/ CodexAnswers(t) \/ CodexBodyEnds(t) \/ CodexBodyDies(t)
         \/ CodexFailsOver(t) \/ ReservesSlot(t) \/ CodexServes(t) \/ CodexEnds(t)
    \/ \E s \in Sides : TickerProbes(s) \/ TickerCloses(s) \/ TickerReleases(s)
    \/ \E p \in Procs : UnloadNext(p) \/ UnloadLast(p) \/ OllamaUnloads(p)
    \/ \E t \in Turns : CutShort(t)

Spec == Init /\ [][Next]_vars

-----------------------------------------------------------------------------
(* Properties *)

\* Where a coroutine can be suspended.
Places == {"idle", "probing", "owed", "answered", "answered while open",
           "preparing", "evicting", "committed", "serving", "releasing",
           "draining", "handing", "relaying", "wanting", "reserved"}

\* The shape of the state.
TypeOK ==
    /\ tripped \in [Sides -> BOOLEAN]
    /\ claims \in [Sides -> SUBSET Tiers]
    /\ inflight \in [Sides -> Nat]
    /\ deferred \in [Sides -> SUBSET Tiers]
    /\ evictions \in SUBSET {Narrow}
    /\ pc \in [Procs -> Places]
    /\ job \in [Procs -> Jobs]
    /\ rest \in [Procs -> Seq(Tiers)]
    /\ struck \in SUBSET (Sides \X Sides)

InFlight(s) == {t \in Turns : SideOf(t) = s /\ pc[t] \in {"reserved", "serving"}}

\* Each path counts exactly the responses it serves, through every exit: a count
\* that is too high defers every later unload for ever, one that is too low
\* unloads a tier under a response.
CountsExact == \A s \in Sides : inflight[s] = Cardinality(InFlight(s))

\* What a Claude release put off has a response in flight whose end delivers it.
DeferralHasHeir == deferred["claude"] # {} => inflight["claude"] > 0

\* A coroutine starts a loop of unloads, possibly where another loop ends.
BeginsLoop(p) == rest'[p] # <<>> /\ pc'[p] # pc[p]

\* "So the unload waits for the last in-flight LOCAL response": no loop of unloads
\* is started under a response of its own path, whoever starts it.  (A response
\* that starts while the loop runs is another matter: nobody asks again.)
LoopsStartIdle ==
    [][\A p \in Procs : BeginsLoop(p) =>
         \A t \in Turns \ {p} :
             SideOf(t) = SideOf(p) => pc[t] \notin {"reserved", "serving"}]_vars

\* The tiers a side has claimed and not yet released.
Books(s) == claims[s] \union deferred[s] \union
            UNION {Range(rest[p]) : p \in {q \in Procs : SideOf(q) = s}}

LeavesBooks(s, m) == m \in Books(s) /\ m \notin Books(s)'

Released(m) == \E p \in Procs : m \in Range(rest[p])

\* A tier the Codex path has claimed leaves its books only through a release
\* loop that was unloading it: no claim is forgotten between the outage that
\* loaded the tier and the release, whatever opens and closes in between.
CodexForgetsNothing ==
    [][\A m \in Tiers : LeavesBooks("codex", m) => Released(m)]_vars

\* The Claude path forgets a claim without releasing it in one case only: the
\* release was put off and the breaker is open again when it falls due.
ClaudeForgetsOnlyReopened ==
    [][\A m \in Tiers :
         LeavesBooks("claude", m) => Released(m) \/ tripped["claude"]]_vars

\* The Codex path never unloads a tier under a Codex turn in flight: count,
\* verdict and unloads share one lock with the reservation of a slot.
CodexSparesCodex == <<"codex", "codex">> \notin struck

\* Stated where _local_inflight is declared: "The count covers EVERY response
\* this router serves from a local tier".  So a release by either path waits for
\* the other path's responses too.
PathsSpareEachOther == struck \subseteq {<<s, s>> : s \in Sides}

\* Stated by _close: "the caller must drain_claims() and unload them".  So once
\* the side of a closed breaker has come to rest, no claim is left on it.
SettlesClean ==
    \A s \in Sides :
        ~tripped[s] /\ (\A p \in Procs : SideOf(p) = s => pc[p] = "idle")
            => claims[s] = {}
=============================================================================

------------------------------- MODULE TierLock -------------------------------
(***************************************************************************)
(* The serialisation of local inference on one tier: src/proxy/tier_lock.py *)
(* and its two callers, the Claude path (hold, an async context manager)   *)
(* and the Codex path (acquire and release in different functions of       *)
(* src/proxy/codex_routes.py, linked by one module-level _held_tier that   *)
(* all Codex turns share: whichever of them ends hands the tier back).     *)
(*                                                                         *)
(* Everything runs on one event loop, so a step is what happens between    *)
(* two suspension points.  The asyncio.Lock underneath is external; what   *)
(* matters of it is modelled: release() frees the lock at once but only    *)
(* schedules the first waiter, which takes the lock when it next runs, and *)
(* a newcomer takes a free lock only if nobody waits.  The timeout is      *)
(* positive (the setting's default is 900 seconds).                        *)
(***************************************************************************)
EXTENDS Naturals, Sequences, SequencesExt

CONSTANTS
    ClaudeTurns,   \* concurrent turns served through hold
    CodexTurns     \* concurrent turns served through acquire/release

ASSUME TurnAssumption == ClaudeTurns \intersect CodexTurns = {}

Turns == ClaudeTurns \union CodexTurns

VARIABLES
    stage,      \* idle, queued for the lock, held, or bare: serving without it
    locked,     \* asyncio.Lock._locked
    waiters,    \* asyncio.Lock._waiters, oldest first
    woken,      \* the waiter that release() has scheduled: {} or {head}
    timed,      \* does this turn's wait have a timeout?
    keyHeld,    \* the tier's key is in tier_lock._held
    heldTier,   \* codex_routes._held_tier is set
    robbed      \* history: Codex turns whose lock another's end has handed back

lockVars == <<stage, locked, waiters, woken, timed, keyHeld, heldTier, robbed>>

LockInit ==
    /\ stage = [t \in Turns |-> "idle"]
    /\ locked = FALSE
    /\ waiters = <<>>
    /\ woken = {}
    /\ timed = [t \in Turns |-> TRUE]
    /\ keyHeld = FALSE
    /\ heldTier = FALSE
    /\ robbed = {}

-----------------------------------------------------------------------------
(* asyncio.Lock *)

\* acquire() returns without suspending.
Immediate == ~locked /\ waiters = <<>>

\* _wake_up_first on the waiters q, those of w being scheduled already.
Woken(q, w) == IF w = {} /\ q # <<>> THEN {Head(q)} ELSE w

Unlock ==
    /\ locked' = FALSE
    /\ woken' = Woken(waiters, woken)

Place(t) == CHOOSE i \in 1..Len(waiters) : waiters[i] = t

\* A waiter is cancelled; if the lock is free the wake-up is passed on.
Leave(t) ==
    /\ waiters' = RemoveAt(waiters, Place(t))
    /\ woken' = IF locked THEN woken \ {t} ELSE Woken(waiters', woken \ {t})

Enqueue(t, withTimeout) ==
    /\ stage' = [stage EXCEPT ![t] = "queued"]
    /\ waiters' = Append(waiters, t)
    /\ timed' = [timed EXCEPT ![t] = withTimeout]
    /\ UNCHANGED <<locked, woken, keyHeld, heldTier, robbed>>

-----------------------------------------------------------------------------
(* Taking the tier *)

\* hold, fast path: the lock looked free, so acquire() is awaited bare.
HoldFree(t) ==
    /\ t \in ClaudeTurns
    /\ stage[t] = "idle"
    /\ ~locked
    /\ \/ /\ Immediate
          /\ stage' = [stage EXCEPT ![t] = "held"]
          /\ locked' = TRUE
          /\ UNCHANGED <<waiters, woken, timed, keyHeld, heldTier, robbed>>
       \/ /\ ~Immediate
          /\ Enqueue(t, FALSE)

\* hold, slow path: the tier is busy, so the wait is bounded.
HoldBusy(t) ==
    /\ t \in ClaudeTurns
    /\ stage[t] = "idle"
    /\ locked
    /\ Enqueue(t, TRUE)

\* _hold_tier: acquire, then remember the tier.
CodexTakes(t) ==
    /\ t \in CodexTurns
    /\ stage[t] = "idle"
    /\ \/ /\ Immediate
          /\ stage' = [stage EXCEPT ![t] = "held"]
          /\ locked' = TRUE
          /\ keyHeld' = TRUE
          /\ heldTier' = TRUE
          /\ UNCHANGED <<waiters, woken, timed, robbed>>
       \/ /\ ~Immediate
          /\ Enqueue(t, TRUE)

\* The scheduled waiter runs: acquire() returns and the caller serves.
Resume(t) ==
    /\ t \in woken
    /\ stage' = [stage EXCEPT ![t] = "held"]
    /\ waiters' = Tail(waiters)
    /\ woken' = {}
    /\ locked' = TRUE
    /\ keyHeld' = (keyHeld \/ t \in CodexTurns)
    /\ heldTier' = (heldTier \/ t \in CodexTurns)
    /\ UNCHANGED <<timed, robbed>>

\* The timeout fires: the turn proceeds without the lock.
GiveUp(t) ==
    /\ stage[t] = "queued"
    /\ timed[t]
    /\ Leave(t)
    /\ stage' = [stage EXCEPT ![t] = "bare"]
    /\ UNCHANGED <<locked, timed, keyHeld, heldTier, robbed>>

\* The client of a Claude stream hangs up while its turn waits.  (A Codex turn
\* waits in its request handler, which a hang-up does not cancel.)
HangUp(t) ==
    /\ t \in ClaudeTurns
    /\ stage[t] = "queued"
    /\ Leave(t)
    /\ stage' = [stage EXCEPT ![t] = "idle"]
    /\ UNCHANGED <<locked, timed, keyHeld, heldTier, robbed>>

-----------------------------------------------------------------------------
(* Handing the tier back: normal end, error and hang-up take the same exit *)

\* Mutant: the finally covers the turn that timed out as well.
MutReleaseUntaken(t) ==
    /\ t \in ClaudeTurns
    /\ stage[t] \in {"held", "bare"}
    /\ IF locked THEN Unlock ELSE UNCHANGED <<locked, woken>>
    /\ stage' = [stage EXCEPT ![t] = "idle"]
    /\ UNCHANGED <<waiters, timed, keyHeld, heldTier, robbed>>

\* Mutant: no finally, so a turn that is interrupted keeps the lock.
MutNoFinally(t) ==
    /\ t \in ClaudeTurns
    /\ stage[t] \in {"held", "bare"}
    /\ \/ stage[t] = "held" /\ Unlock
       \/ UNCHANGED <<locked, woken>>
    /\ stage' = [stage EXCEPT ![t] = "idle"]
    /\ UNCHANGED <<waiters, timed, keyHeld, heldTier, robbed>>

\* hold's exit.
ClaudeEnds(t) ==
    /\ t \in ClaudeTurns
    /\ stage[t] \in {"held", "bare"}
    /\ IF stage[t] = "held" THEN Unlock ELSE UNCHANGED <<locked, woken>>
    /\ stage' = [stage EXCEPT ![t] = "idle"]
    /\ UNCHANGED <<waiters, timed, keyHeld, heldTier, robbed>>

\* The turns that took the lock and have not ended.
Holders == {t \in Turns : stage[t] = "held"}

\* tier_lock.release.
Release ==
    /\ keyHeld' = FALSE
    /\ IF keyHeld /\ locked THEN Unlock ELSE UNCHANGED <<locked, woken>>

\* Mutant: release forgets the key, but the lock is never handed back.
MutCodexKeepsLock(t) ==
    /\ t \in CodexTurns
    /\ stage[t] \in {"held", "bare"}
    /\ keyHeld' = FALSE
    /\ heldTier' = FALSE
    /\ stage' = [stage EXCEPT ![t] = "idle"]
    /\ UNCHANGED <<locked, woken, waiters, timed, robbed>>

\* _release_local_slot: whatever turn ends, it hands back the tier that the
\* Codex path holds, if it holds one.
CodexEnds(t) ==
    /\ t \in CodexTurns
    /\ stage[t] \in {"held", "bare"}
    /\ IF heldTier THEN Release ELSE UNCHANGED <<locked, woken, keyHeld>>
    /\ heldTier' = FALSE
    /\ robbed' = (robbed \union IF heldTier THEN Holders \intersect CodexTurns ELSE {}) \ {t}
    /\ stage' = [stage EXCEPT ![t] = "idle"]
    /\ UNCHANGED <<waiters, timed>>

LockNext ==
    \E t \in Turns :
        \/ HoldFree(t)
        \/ HoldBusy(t)
        \/ CodexTakes(t)
        \/ Resume(t)
        \/ GiveUp(t)
        \/ HangUp(t)
        \/ ClaudeEnds(t)
        \/ CodexEnds(t)

\* The event loop runs a scheduled waiter, and a generation ends: the client
\* to the local provider has a read timeout.  Clients owe nothing.
LockFairness ==
    \A t \in Turns :
        /\ WF_lockVars(Resume(t))
        /\ WF_lockVars(ClaudeEnds(t))
        /\ WF_lockVars(CodexEnds(t))

LockSpec == LockInit /\ [][LockNext]_lockVars

LockFairSpec == LockSpec /\ LockFairness

-----------------------------------------------------------------------------
(* Properties *)

\* The shape of the state.
LockTypeOK ==
    /\ stage \in [Turns -> {"idle", "queued", "held", "bare"}]
    /\ locked \in BOOLEAN
    /\ waiters \in Seq(Turns)
    /\ woken \in SUBSET Turns
    /\ timed \in [Turns -> BOOLEAN]
    /\ keyHeld \in BOOLEAN
    /\ heldTier \in BOOLEAN
    /\ robbed \in SUBSET CodexTurns

\* Two turns that both took the tier generate together, each evicting the other's KV
\* cache, only if one of them is a Codex turn whose lock went back when another Codex
\* turn ended: no timeout, hang-up or wake-up of any turn brings them together, and a
\* Claude turn's lock is never taken from it.
MutualExclusion ==
    \A s, t \in Holders : s = t \/ {s, t} \intersect robbed # {}

\* The lock is taken exactly while a turn holds it that has not been robbed of it: a
\* lock nobody will release would make every later turn sit out its timeout.
LockOwned == locked <=> Holders \ robbed # {}

\* A queued turn is served in the end even if no timeout ever fires.
QueuedIsServed == \A t \in Turns : []<>(stage[t] # "queued")

\* Stated by _hold_tier: "Serialize this Codex turn against every other local turn on
\* the tier".  So no two turns hold it together.
Serialized == \A s, t \in Holders : s = t

\* Stated by the module's docstring: "waiting past the timeout logs and
\* proceeds".  So every turn that waits has a timeout.
EveryWaitIsTimed == \A t \in Turns : stage[t] = "queued" => timed[t]
=============================================================================

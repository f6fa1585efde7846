# Backdoor: a formal model of the failover router

Backdoor is a local router between coding agents (Claude Code on
`/v1/messages`, Codex on `/responses`) and their clouds. While a cloud is
unreachable it serves their turns from models on this machine, and it hands the
GPU back when the outage is over. The hard part of the program is not any one
request: it is the protocol between concurrent turns, two circuit breakers, a
recovery ticker, worker threads, a GPU that holds few models, and other programs
that share the machine. These modules model that protocol, TLC checks it on small
instances, and TLAPS proves its safety for all of them.

Around it stand programs and stores with protocols of their own: an archive of
transcripts, a forward proxy with its certificates, an authorization server, a
deployer, a weekly mail, a patcher of another application. Each is modelled where
it has a protocol to get wrong.

Paths below are relative to the repository root (`src/proxy/...`).

## 1. The system

| component | state | operations | interacts with |
|---|---|---|---|
| Failover breakers (`failover.py`) | open, kind of outage, burst timers, announcement, claims; the process-wide registry | `record_failure`, `record_success`, `allow_upstream`, `deciding`, `maybe_recover`, `note_claim`, `drain_claims` | called by both paths (from worker threads too) and by the ticker; publishes the state file; probes sockets |
| State file (`failover.py`, `_publish`) | the file, one temporary name | publish, from three threads | read by other GPU users |
| Recovery ticker (`routes.py`, `failover_recovery_loop`) | its place in a pass | probe, close, release | breakers, releases of both paths |
| Claude path (`routes.py`) | `_local_inflight`, `_deferred_unloads`, `_deferred_evictions`; per turn: the attempt and the hold | attempt, hold and re-send, fail over, escalate, serve, release | breaker, tier lock, lease, Ollama |
| Codex path (`codex_routes.py`) | a count, a deferral set and a lock of its own, `_held_tier` | reserve, serve locally, relay, release | breaker, tier lock, lease, Ollama |
| Tier lock (`tier_lock.py`) | one `asyncio.Lock` per tier, `_held` | `hold`, `acquire`, `release` | both paths |
| MLX and Ollama administration (`mlx_admin.py`, `ollama_admin.py`) | two runtimes' processes and resident models | start, stop, evict before a turn | Claude path, launchd |
| Context runtime (`context_runtime.py`) | shared flights, subscribers, archive queue | `stream_once`, `run_complete_once`, `archive_cloud`, `prepare_local`, `close` | Claude path, SQLite store on worker threads |
| Context store (`context_store.py`) | lineages, snapshots, bodies, cached responses | archive, search, prune | context runtime |
| Context windows, segments, tokens (`context_*.py`) | none | choose what fits | context runtime, adapters |
| Working set, bare mode (`working_set.py`, `bare.py`) | the sticky start of each conversation's window | strip, bound | Claude path |
| Translation (`translate.py`) | the open blocks of a stream | convert a request; convert a reply event by event | local turns |
| Forward proxy (`forward.py`) | connections | accept, dial, upgrade, splice, time out, stop | clients, upstreams, certificates |
| Certificates (`ca.py`) | four kinds of files, cached contexts | ensure CA, ensure leaf, load | forward proxy |
| Hermes authorization server (`hermes_mcp/oauth.py`) | clients, logins, codes, tokens, one file | register, approve, exchange, refresh, revoke | browser, agents |
| QA deployer (`scripts/qa_deploy.py`), deployment by hand (`deploy-router.sh`) | a journal; checkout, dependencies, LaunchAgent, process | deploy, verify, roll back, report | launchd, git, GitHub |
| Weekly savings (`scripts/weekly-savings-delivery.py`) | snapshots and a delivery record on two hosts | collect, copy, send once | mail |
| Desktop patch (`codex_desktop_offline_patch.py`) | an application bundle, originals, staging | patch, exchange, restore | the application's updater |
| Codex context (`codex_context.py`) | the sticky start of each conversation's window (`working_set.py`) | trim the active turn, choose the history, fit all to the budgets | Codex path, recall |
| External context, DNS cache, Products MCP, Telegram, launchers, reports | none that is shared, or a plain cache | | |

What is hard in it:

* a failure's verdict waits on a socket probe in a worker thread while successes,
  failures of other turns and the ticker go on;
* a turn is held, sleeps, and must decide from a breaker that has moved on whether
  it may be sent again (`/v1/messages` is not idempotent);
* a claim on the GPU is noted, counted, deferred and released by different
  coroutines, each of which suspends between reading a book and acting on it;
* two paths with separate books share the tiers; clients hang up at any await;
* a lock wakes a waiter that runs later, and waits time out;
* a store call whose deadline passed runs on in its thread, and keeps the thread;
* an opening blocks on its popup between the look at the other breaker and the entry
  in the registry that the other one looks at;
* two breakers publish one file through one temporary name, and processes may
  die between any two file operations: of a certificate and its key, of a mail and
  its record, of an exchange of bundles, of a deployment and its rollback;
* a reply is generated once and handed to clients that join late, read slowly or
  leave; cut into chunks anywhere, it must say what it says in one piece;
* a window over a transcript that grows, is rewound and is rewritten must stay
  within a limit, keep calls with their results, and stay where it is.

What makes each component correct is stated with its module in section 2;
`PROJECT.json` lists each hazard at its line with the properties aimed at it.

## 2. The modules

    BreakerContract  <---refines---  FailoverBreaker  <---INSTANCE---  UpstreamHold
                                       ^ FailoverBreakerProofs           ^ UpstreamHoldProofs
    TierRelease      StatePublish     MemoryInterlock
     ^ TierReleaseProofs  ^ DurableProofs

    MCParts      = LocalCertificates + UpstreamHold + StatePublish + WeeklyDelivery
                   + DesktopPatch + OAuthProvider + ContextWindow + LocalPrompt
                   + CodexPrompt + LocalReply
    MCDeadlines  = TierLock + ContextArchive + RouterDeploy + StreamFlights
                   + ForwardProxy + FailoverBreaker

    DeadlineProofs   of RouterDeploy, TierLock, ContextArchive
    DurableProofs    of StatePublish, WeeklyDelivery, LocalCertificates, DesktopPatch
    ConnectionProofs of StreamFlights, OAuthProvider, ForwardProxy
    ContextProofs    of ContextWindow, CodexPrompt
    TranslateProofs  of LocalPrompt, LocalReply

`MCParts` and `MCDeadlines` bring together models that share no variables:
`live` says which one moves, and the others rest in an initial state. TLC explores
one after the other in a single run; a property of one is about the behaviours in
which that one moves. They are EXTENDED, so that a run and a theorem speak of the same
definition, and all but `LocalCertificates` name their formulas after themselves
(`MailInit`, `LockSpec`, `FlightsNext`, `BreakerTypeOK`). The other `MC...` modules hold the model values of
their module's instances.

Most specifications also hold mutants of their actions and operators, named
`Mut...`: what a plausible bug in that code would do. No specification uses them;
replacing the definition by its mutant violates the property named in
`PROJECT.json`, which shows that the property has something to say.

### FailoverBreaker (`failover.py`, and `failover_recovery_loop` of `routes.py`)

State: the fields of every `FailoverBreaker`, the registry `_ACTIVE_BREAKERS`,
calls that wait for `_online()` (`verdict`), breakers that opened and are still showing
their popup (`publishing`), and the ticker's place in its pass (`todo`, `probing`). Timestamps are kept as *ages* that stop growing at the
largest value the code's comparisons can tell apart (`BurstHorizon`,
`ProbeInterval`, `NotifyCooldown`): the state is finite without a bound on time.

| action | code |
|---|---|
| `RecordFailure`, `GateAnswers`, `Publish` | `record_failure`, split at `_online()` and between `_announce` and `_publish` |
| `RecordSuccess` | `record_success`, `_close` |
| `AllowUpstream` | `allow_upstream` of an open breaker: the half-open slot |
| `TickerPass`, `TickerSkips`, `StartProbe`, `FinishProbe` | one pass of the loop; `maybe_recover`, split at its probe |
| `Tick`, `NetworkChanges` | the environment |

`_announce` and `_close` are operators that the actions apply, since the code calls
them inside the handlers. A popup is a process that the opening thread waits for: Claude's
verdicts run on worker threads and Codex's on the event loop, and no lock is common to
both, so a second breaker may open while a first one has looked at its peers and is not
in the registry yet. `unseen[b]` remembers the breakers that were on that way when `b`
opened. Claude's own verdicts are serialised by a lock, Codex's by the event loop they
hold up (`Serialised`). `BreakerContract` is what the rest of the system relies
on: who is failing over, who of them is published, and that an outage is announced by
nobody who sees another one published, and taken back only by the breaker that announced
it. `FailoverBreaker` implements it under `failing <- {open breakers}`,
`serving <- active`, `speakers <- {announced breakers}`.

Properties: `RegistryExact` (but for the breakers on their way), `OneVoice` (two announced
outages only if one of the breakers was `unseen` by the other), `OpensOnlyAfterOutage`,
`RecoversWithoutRider`, `ContractSpec`.

### UpstreamHold (`_try_upstream`, `_record_failure`, `_record_success` of `routes.py`)

The Claude turns, composed with the whole breaker by `INSTANCE`: an attempt, its
replay, the verdict on a worker thread behind `_breaker_failure_lock`, its popup (`Publishes`), the sleep of
`_HOLD_RETRY_SECONDS` (one tick), the re-send, and the exits (relayed, local,
refused). Whether an attempt can have been delivered is a choice of the
environment. Properties: `AskedOnce`, `HoldBounded`, `BlipIsAbsorbed`,
`SlotsAreUsed`.

### TierRelease (`routes.py`, `codex_routes.py`, `ollama_admin.unload`)

Who frees the GPU. State: both sides' claims, in-flight counts and deferral sets,
the deferred evictions, and the place of every coroutine. A release loop unloads
one tier per await (`rest` holds what is left); an unload takes effect at any moment
until it is answered (`OllamaUnloads`), and a client may hang up in between
(`CutShort`). An unload whose coroutine was cancelled is taken not to be carried out. A breaker is open or closed here; its own protocol is above.
Properties: `CountsExact`, `DeferralHasHeir`, `LoopsStartIdle`,
`CodexSparesCodex`, `CodexForgetsNothing`, `ClaudeForgetsOnlyReopened`.

### TierLock (`tier_lock.py`, `_hold_tier` and `_release_local_slot`)

`asyncio.Lock` is external, and modelled by what matters of it: a release frees the
lock at once but only *schedules* the first waiter. Turns of either kind are any number;
the Codex ones share `_held_tier`, and whichever of them ends hands back what it names:
`robbed` remembers the turns that lost their lock so. Properties: `MutualExclusion`,
`LockOwned`, both exact about robbed turns, and `QueuedIsServed`; `Serialized` says what
the code means, and is violated.

### StatePublish (`_publish`)

The registry is updated, the payload computed, the temporary file opened,
written and renamed, by threads that interleave, with file errors, crashes and
restarts. Property: `StateFileIsSound`, which is `WholeUnlessOverlapped` (the file is whole unless
two publications met) and `FileSettles` (right after one that met no other it says what
the registry says).

### StreamFlights (`stream_once` of `context_runtime.py`)

One key: clients that enter, replay, subscribe, read and leave; the flight's task;
the cache on its worker thread; `close()`. An event is its number.
Properties: `NothingSkipped`, `CompleteIsWhole`, `OneGeneration`, `ClientsAreTold`.

### LocalCertificates (`ca.py`)

Worker threads ask for a TLS context of a host; the CA's and the leaf's key and
certificate are four files, each replaced whole, with a death possible between any
two, and files lost by hand. A key pair is a number, a certificate a pair and its
signer. Property: `BuiltVerifies`, a context that was just built shows a certificate
for its own key that the CA's certificate on disk verifies.

### ForwardProxy (`forward.py`)

A connection from accept to close: the limit, the dial, minting a certificate on a
thread, the pause of the reader around the TLS upgrade, two pipes, half-closes, the
idle timer, cancellation. Data is counted in chunks. Properties: `ServedWhole` (the
limit holds, the client's hello meets a server that listens, and whatever is not cut
off arrives whole in both directions), `TunnelsEnd`.

### ContextArchive (`context_store.py`; `prepare_local` and `archive_cloud` of `context_runtime.py`)

Store calls run in threads of one executor and are awaited under deadlines; a call
that has begun is not stopped. State: lineages, bodies, the calls that wait and run,
each turn's phase, the bounded queue of the cloud archive and its worker, days. A call
carries the day on which it began, so that a late one may touch or prune with a clock
that is a day old. Properties: `SnapshotsWhole`, `TurnsEnd`.

### ContextWindow (`context_window.py`, `context_segments.py`; `_newest_tail`, what the adapters rebuild)

The selection, step by step: current instruction, calls since, recent units,
references, search results, what is dropped to the target, and the fallback without
the archive. A transcript is any member of `Contexts`; its segments have costs, messages
and pairs. The units still to be looked at are a set of sets of positions, and `NextCall`,
`NextRecent`, `NextReference` and `NextSegment` say in which order the code's lists bring
them. A segment's tokens are elements of a set, so that the cost of what is rebuilt is how
many there are: each segment counts once, however many units name it. Property:
`SelectionIsSound`.

### LocalPrompt (`working_set.py`, `bare.py`, `translate.py`)

A turn's prompt: the transcript stripped, cut at the sticky boundary, converted, with
stray system messages folded and recalled memories in front. Transcripts grow by
messages of eight kinds and are rewound. What a turn may add is a parameter (`FirstTurns`,
`LaterTurns`), of which `TurnsAssumption` says what Claude Code keeps to: a turn adds at
least one message and fewer than ten, and a result answers the call right before it, which begins
what is new. Properties: `PromptIsSound` (everything of
the window once and in order, `PromptIsWhole`; no result without its call but for the two
cases of section 5, `NoOrphanResult`), `AppendsWhileItFits` (a turn only adds to what the
model has processed).

### CodexPrompt (`codex_context.py`, `sticky_start` of `working_set.py`)

What a local model is sent for a Codex request: the active turn (from the last user
message, or the last outputs of a tool loop, whatever came after them), its trimming by halving, first outputs and
then answers and pairs, the history that fits what the turn left, whose start is kept from
request to request, and what goes when all is still too long: memories, tools, the
request. Transcripts grow by items of Codex, some served by the cloud and some here, and
are taken back. What a request may add is a parameter (`FirstItems`, `LaterItems`), of which
`RequestsAssumption` says what Codex keeps to: it adds at least one item, ids of calls are its
own, every call has its one output in the same request, and calls made in parallel stand
together before their outputs. Properties: `CodexRequestsSound` (the current instruction and
everything else once and in order, calls with their outputs, outputs with their calls but for
the one way to lose a call that `CutFrom` describes, nothing dropped or refused for room the
budgets had allotted; and the history a request replays extends the last one's while it
fits). `NoOrphanOutput`, which a test of the repository states, is violated.

### LocalReply (`translate.py`; `_stream` of `routes.py`)

The streaming translator over symbols: words, white space, JSON that is or is not a
call, think tags that chunks may cut, structured calls, reasoning, the end or an
error. What a chunk may hold is a parameter (`Deltas`, any set of `Pieces`). `dict` is
the translator's dict; the wire is a sequence of block events, read by a reference client
(`ClientOf`); the unstreamed conversion is stated as an operator on the same output. The
provider's stream may end at any chunk, as `_stream` takes any end of it, with or without a
`finish_reason` before.
Property: `ReplyIsFaithful`, which is `BlocksKeepApart` (the client can follow, and is told
the end exactly when the model has finished), `CutShortMissesTheHeld` (a reply that ended
without that misses the text held back as a possible call, and nothing else that could be
shown) and `StreamedLikeWhole` (a reply that was ended has what it would have had in one
piece, but for the differences of section 5). One of these is a `<think>` with text in front of it: the translator does not
look for it there (`inner`).

### OAuthProvider (`hermes_mcp/oauth.py`)

Registration at the limit, authorization, login, code exchange, rotation of refresh
tokens, revocation of either token of a pair, expiry, saves that fail after memory has
changed, answers that are lost, restarts. `held` is the refresh token a client was given
last, which it keeps when a request fails. Property: `ConnectionsHold` (a client with an
unexpired refresh token can use it, now and after a restart, unless a refresh of its own
with that token went unanswered: it is then `stranded`, see section 5; an approval is worth
one pair of tokens).

### RouterDeploy (`scripts/qa_deploy.py`, `scripts/deploy-router.sh`)

A poll of the controller: recover, choose, announce, journal, check out, sync,
configure, restart, verify, or undo all of it, then report; with commands that fail,
statuses that get lost either way, deaths between any two steps, and a person's script
that shares no lock with it. Properties: `ReleaseIsWhole`, `SuccessIsTrue`,
`TransactionsEnd`, of deployments the script does not disturb. Whole means that what is
checked out, what is installed and what the router was started with agree.

### WeeklyDelivery (`scripts/weekly-savings-delivery.py`)

Snapshots built, copied in two moves and mailed by hourly dispatches that overlap, die
and meet a mailer whose answer is in doubt. Property: `MailIsRight` (at most once,
within the days of grace, with its own week's numbers).

### DesktopPatch (`codex_desktop_offline_patch.py`)

Patch and restore of an application bundle by exchange of two names, beside the
application's own updater, which may act between any two steps. `history` remembers, version
by version, the two ways in which the patcher itself puts an older bundle over an update
("torn", "ousted", see section 5). Properties: `AppStaysWhole`; `NothingIsLost`, which is
`CanBeRestored` (the original of a patched application is kept) and `UpdateSurvives` (the newest
update is in place or preserved when no patcher runs, killed or not), each but for those
versions.

### MemoryInterlock (`mlx_admin.py`, `evict_all` of `ollama_admin.py`)

Turns prepared at the same time, each making the other runtime give way: looks and
commands one await at a time, timeouts, failures, an unmanaged server, keep-alive.
Its one property is violated: see section 5.

## 3. The runs

| run | instance | what it shows |
|---|---|---|
| `breaker` | two breakers, one gated on being offline; every interval 1 | the four safety properties of the breakers, with popups and probes that take their time |
| `release` | two Claude turns, two Codex turns, or one of each, with the ticker; two tiers | counts, deferrals and releases |
| `parts` | ten models, one after the other (bounds below) | safety: certificates, hold, state file, mail, patch, authorization server, selection, prompt, Codex request, translated reply |
| `deadlines` | tier lock, archive, deployer, shared stream, forward proxy, an outage of either breaker, one after the other | safety, and that each comes to its end |

Runs that end in a violation; each states what a comment of the code or the README
says:

| run | property | what happens |
|---|---|---|
| `breaker_status_probe` | `StatusOutageOutlivesProbe` | a recovery probe started for a transport outage closes the status outage that replaced it |
| `tier_lock_timed` | `EveryWaitIsTimed` | a turn that arrives between a release and the waiter it woke waits without a timeout |
| `tier_lock_codex` | `Serialized` | a Codex turn that gave up waiting ends, and frees the lock of another one that still generates |
| `release_cross` | `PathsSpareEachOther` | a release on one path unloads a tier under a response of the other |
| `release_settles` | `SettlesClean` | a claim is left on a closed breaker (a turn that claims late; a Codex body that breaks off, or a 404) |
| `codex_orphan` | `NoOrphanOutput` | a window that opens on the second of two parallel calls replays the output of the first |
| `publish_torn` | `ReadersSeeWhole` | one thread renames the file another has just truncated |
| `interlock` | `RuntimesApart` | MLX is started while a turn is being served by the 27B of the other runtime |

### Bounds, and why they are enough

* Breaker intervals of 1 already give every order of the thresholds that the code
  compares (younger, exactly at, older): ages saturate one past the larger of the
  two. Two breakers make one peer; the proofs cover any number and any interval. In
  `deadlines` one breaker has its outage while the other rests: recovery concerns one.
* Hold: `ProbeInterval > MinOutage + Grace`, as with the defaults (60 s against
  20 s + 5 s; `SlotAssumption`). Two turns suffice for one to change the breaker
  while the other sleeps. The turns are symmetric.
* Release: `live` in `MCTierRelease` chooses which turns take part. The two paths
  keep separate books, so interference inside a path needs two of its turns and
  interference across paths one of each; all four at once would only be slower.
  Turns return to idle and start again, so no history is bounded.
* Tier lock: three Claude turns and two Codex turns: the queue goes beyond its head, and two
  turns share `_held_tier` while others wait. In `tier_lock_codex` one and two suffice.
* State file: a fresh file per open would be unbounded; one file more than there are
  threads is enough, since a file no name and no writer refers to is reused. One
  reason a breaker may be open for, as the payload differs from the closed one.
* Stream: `MaxEvents` exceeds `QueueSize`, so that a queue overflows both while
  reading and during a replay; two flights (`MaxFlights`) give a retry after an
  expiry, a failure or a close. `close()` happens once.
* Proxy: two connections against a limit of one; a chunk per direction.
* Certificates: two workers on one host meet at its files; ten key pairs are more than
  files, contexts and workers can name at a time, so a fresh one is always there.
* Archive: one turn, the worker and two threads, all of which late calls may occupy; a
  transcript and its continuation, so that bodies are shared and a lineage has a parent;
  two days against `InactiveDays` of one make a prune drop a lineage.
* Selection: up to three rounds of the past (text, a reference, a call) and a current one
  (small, large, with a call, with a call too large), with costs on both sides of `Target`
  and `Hard`.
* Prompt: up to four turns, in which the boundary moves, is overtaken and is rewound.
  Codex: up to four requests (without `hosted` items and oversized turns, and with a history
  budget of 5, in `codex_orphan`), with instructions and outputs on both sides of the budget of
  the active turn (6) and of history (4), parallel calls, requests taken back and
  transcripts that begin in a tool loop, with the outputs last or something after them; one token each for memories, tools and the
  router's own lines, so that the budgets exactly fill the input (9).
  Reply: up to three chunks of the seventeen in `MCDeltas` (one kind of delta in most, two in
  some); `</think>` has two parts so that a chunk may cut it. The proof covers any chunks and
  any number of them.
* Authorization: three registrations against a limit of two, so that a newcomer drops
  somebody; two logins and two token pairs in all, so that a refresh may follow the first
  exchange and fail.
* Deployer: three releases, the later ones good or bad, and three faults: a failed step, a
  failed undo and a death, or a lost report besides.
* Mail: two weeks and two dispatches; a day is a unit of the clock.
* Patcher: two updates and two runs, so that a restore meets what an earlier patch left.
* Interlock: two turns.

### Fairness

* Breaker: time passes; the ticker task runs its passes, and its probes have
  socket timeouts. Nothing is assumed of requests, nor of the network:
  `RecoversWithoutRider` must hold without them.
* Tier lock: the event loop runs a waiter that was woken, and a turn that holds the
  tier ends (its client has a read timeout). No timeout has to fire.
* Streams: the event loop runs its tasks, the store answers, a provider's stream
  ends or fails. Strong fairness for the finish, which takes a per-key lock that
  serves its waiters in order.
* Proxy: a handler goes on and its deadlines pass; nothing is assumed of the peers.
* Archive: a free thread takes the next call, and a call returns some day (SQLite's
  busy timeout ends it). No deadline has to pass: `TurnsEnd` holds with slow calls.
* Deployer: launchd polls every minute and a poll goes on while it lives. Faults are
  bounded: with a death in every poll nothing could end.
* The other modules are checked for safety only.
* What rests in a composed run has no fair action enabled, so its fairness asks
  nothing (the breakers' clock and ticker, which are always enabled, are fair only while a
  breaker moves); the mutants of every liveness property are found in those runs.
* That whoever waits is served is stated as `[]<>` (again and again it does not wait), which
  is the same as `waiting ~> ~waiting`, and cheaper for TLC.

## 4. What is proved

`FailoverBreakerProofs`, from `BreakerAssumption` (the gated and the probed
breakers are breakers) and `TimingAssumption` (a positive threshold, intervals in
Nat):

* `TypeCorrect`, `RegistryIsExact`, `OneVoiceAlways`, `NoEarlyOpening`,
  `ImplementsContract`.

The inductive invariant `BreakerInv` has two parts. `NoticeInv` is
`BreakerTypeOK /\ RegistryExact /\ OneVoice`: `OneVoice` is not inductive alone, because
`_announce` looks for a peer in the registry, so silence is only guaranteed if the
registry names every open breaker but those on their way there, which are the ones
`unseen` records. `OutageInv` carries what a verdict in flight
relies on: its breaker is still closed and the outage it judges was sustained
(`WaitingVerdict`), and a burst is never older than the last success
(`BurstAfterSuccess`). `OpensOnlyAfterOutage` follows for each step that opens, and
the refinement from `NoticeInv` step by step.

`UpstreamHoldProofs`, from `SlotAssumption` (positive `Threshold` and `Grace`, intervals
in Nat, `ProbeInterval > HoldBound`, `MinOutage <= Window`, as with the defaults):

* `AskedAtMostOnce`, `HoldIsBounded`, `SlotsGoToAskers`, `BlipsAreAbsorbed`, for any
  turns and timing;
* `HoldDrivesTheBreaker`: every behaviour of the turns over their breaker is one of
  `FailoverBreaker`, so what is proved of that module for every driver holds here.

`AskedOnce` is not inductive: that a turn may have been delivered is known only from its
place, from the kind of its failure, or from `resend`, one after the other
(`Remembers`). `HoldBounded` needs to know that a sleeping turn has time left, and that only
a ruling may come after it (`Own`). `SlotsAreUsed` relates the turn to the breaker: an open
breaker that a turn meets in its hold opened after the hold began, so its slot is no older
than the hold (`Tied`), and `ProbeInterval > HoldBound` makes it never due.
`BlipIsAbsorbed` needs that a breaker does not open between a turn's verdict and the moment
the turn hears of it, which is what `_breaker_failure_lock` is for.

`TierReleaseProofs`, from `SideAssumption` (the kinds of turns are disjoint and finite, and
no turn is named like a side):

* `CountsAreExact`, `DeferralsHaveHeirs`, `CodexIsSpared`, `LoopsBeginIdle`,
  `CodexForgetsNoClaim`, `ClaudeForgetsReopenedOnly`, for any turns and tiers.

The invariant `ReleaseInv` adds to the counts where loops of unloads may be (`LoopPlaced`:
else a turn might land in the middle of one) and that no Codex slot is taken while Codex's
state lock is held for a loop (`LockExcludes`: this, and not the count, keeps
`CodexSparesCodex` after the loop has started; the Claude path has nothing like it).
`DeferralHasHeir` is inductive only together with exact counts: a count that is not zero
must mean a response. What every step does to the coroutine it moves and to the books is
stated once (`StepOf`), proved action by action, and the three action properties follow
from it.

`DurableProofs`, about files that outlive a process, a section each:

* `ConsumersReadTruth`: `StateFileIsSound`, for any breakers, threads and file errors, from
  `OwnerAssumption` (finitely many threads, each of one breaker). `PublishInv` follows a publication that meets no other (`SolitaryProgress`): its payload is
  what the registry says until it ends, the temporary name stands for the file it has open,
  which is never the published one (`NamesDiffer`). That there is always a file nothing refers
  to is an argument by pigeonholes (`UnusedIsFresh`).
* `MailStaysRight`: `MailIsRight` for any dispatches, weeks and copies. `MailInv` adds that
  the lock admits one sender (`OneSender`), who has put the attempt on record and found the
  week without a letter (`SenderIsReady`), that a dispatch runs within the hour it began in,
  and that a letter settles its week for good (`LettersSettle`). `MailedOnce` alone is not
  inductive: between the record and the answer nothing but the sender's place says that no
  letter is out yet.
* `PatchLosesNothing`, `PatchKeepsAppWhole`, for any versions and updates. `PatchInv` tells
  bundles apart by their inodes, as the code does: an update's is new (`InodesGiven`), a
  bundle with the inode the patcher saw is the one it looked at (`WorkStands`), so that what
  an exchange displaced is known (`DisplacedIsKnown`), that the version a run read is that of
  the bundle it looks at unless an update came in between (`VersionKnown`), and where the
  newest update is at each step (`NewestIsThere`). `NothingIsLost` speaks of the patcher at
  rest only. The exceptions are of the versions they happened to: a later update is covered
  again.
* `BuiltAlwaysVerifies`, from `WorkerAssumption` (no worker is called nobody):
  `BuiltVerifies` for any workers and hosts. `BuiltVerifies`
  speaks of one step of a worker only; `CertificateInv` says what a worker knows of the
  files at each earlier step (the CA's key goes with its certificate from "leaf" on, the
  leaf's key is the one that is being written, the CA signed what is loaded), and that
  whoever is past the lock is alone there (`Alone`), without which another worker or a
  lost file could spoil it. A death sends all workers back to where nothing is claimed,
  so nothing needs to be known of the files it leaves.

`DeadlineProofs`, about the deployer, the tier lock and the archive:

* `DeployCorrect`, `ReleasesStayWhole`, `SuccessesAreTrue`, from `DeployBounds` (there is a
  commit on main): for any number of releases, failures and deaths. `ReleaseIsWhole` speaks of
  the times between transactions; after a death the next poll knows only the journal and the
  machine. The part of `ReleaseInv` that carries this is the last conjunct of `GoesForward`:
  if the checkout is the new commit and the running router has it with the new routes, then
  that router was started by this transaction, after the dependencies were synced, so
  taking the deployment for done is right. It holds because the old commit is strictly behind
  (`Ordered`), and that rests on the statuses: a commit that still waits is ahead of the
  checkout. `GoesBack` says what an interrupted rollback has already undone. A report
  that is repeated after a death is true because nothing changes the machine between a
  transaction's end and the next one (`LeftWhole`). `DeployInv` holds beside the script;
  `ReleaseInv` and the two properties only while nobody deploys by hand (`Alone`).
* `LockTypeCorrect`, `LockIsExclusive`, `LockIsOwned`, for any number of turns of either
  kind, from `TurnAssumption` (the two kinds of turns are disjoint). Their invariant joins
  `QueueInv` (the queue holds exactly the queued turns, each once; whoever was woken is its
  head) and `OwnerInv` (the lock, `_held_tier` and the turns that hold the tier agree, robbed
  turns aside). That `_held_tier` is set exactly while a Codex turn that was not robbed holds
  the tier is what keeps a Claude turn's lock from ever being handed back by a Codex turn.
* `ArchiveCorrect`, `SnapshotsStayWhole`, from `DaysAssumption` (`InactiveDays` is positive,
  as the settings demand): `SnapshotsWhole` for any turns, transcripts, threads and days. That the
  lineage a turn selects from is there does not follow from its having just been stored: a late
  call can touch it with yesterday's clock, and another prune it with today's. `ArchiveInv`
  says that calls that run began yesterday at the earliest (`CallsAreRecent`) and that what
  is selected from was used yesterday at the earliest (`SelectionLasts`); a day of grace
  is exactly enough. What one call does to the store is stated once (`StoreMoves`) and
  proved of archiving and of pruning.

`ConnectionProofs`, about what keeps a connection. Of the stream clients share, from
`SizeAssumption`:

* `NeverTwice`: `OneGeneration` for any clients and replies. The invariant
  `FlightInv` is the argument of the per-key lock: a flight with work left is the
  one in the table (`TableNamesAlive`), and the look into the cache is made by one
  client at a time on an empty table (`LookIsAlone`). Without the second part the
  flight that a missed look starts could meet another.
* `NothingIsSkipped`, `CompleteRepliesAreWhole`: what a client was sent, live, replayed or
  cached, is a beginning of the reply, and all of it if it was told so. `ServiceInv` adds
  what a queue holds: up to date with its flight, closing with an ending that is true, or
  beginning with the poison (`ServedRight`); and that the events of a flight are final once its
  stream has ended by itself (`FlightsKnown`). Without that, a client that was told "done"
  could still miss an event, and so could the cache.

A replay is a loop that offers the past events one by one. `Replays(n)` states its result
in closed form; `ReplayIsOffered` proves that offering one more event leads from a replay of n to one of
n + 1, starting from the empty queue, which is what the loop does.

Of the authorization server and the forward proxy:

* `ConnectionsStay`, from `OAuthBounds` (the counts of clients and tokens are in Nat):
  `ConnectionsHold` for any of them. `OAuthInv` adds that what is numbered has
  been given (`NumbersGiven`: else a newcomer could take the place of a client), that a
  token a client holds has not expired, that whoever has a token is registered, in memory and
  in the file (`TokensHaveClients`), and that each approval is still a login, became a
  code or was spent (`ApprovalsCounted`). A full server drops its oldest client that is not
  active; that there is an oldest is `LeastNumber`.
* `ProxyServesWhole`, from `ProxyBounds` (`MaxConnections` in Nat): `ServedWhole` for any
  connections. `ProxyInv` counts the seats (`SeatsCounted`) and says what a direction that
  was copied to its end has delivered (`Delivered`); a TLS client's closing may cut the
  other direction short, but only when the answer is already delivered (`ToldInTime`).

`ContextProofs`, about what a local turn is given, a section each:

* `SelectionsAreSound`, from `ContextsAssumption` (transcripts are sequences of segments,
  their instruction is one of them, and the target is within the hard limit, or
  `select_working_set` raises): `SelectionIsSound` for any transcripts, limits and number of
  recent units. `WindowInv` adds that the selection is closed under pairs (`Closed`), that a
  call is selected or still to be looked at (`MustTaken`), and that a recent unit that was
  taken is neither the instruction's nor a call since (`SpareTaken`): dropping to the target
  takes only such units, which is why the current turn survives it. The limit holds after a
  drop because what is rebuilt of less costs no more (`CostGrows`).
* `CodexStaysSound`: `CodexRequestsSound`, for any budgets and requests, from
  `AllocationAssumption` and `RequestsAssumption`. `CodexInvariant` is `ThreadInv` (every
  call of the transcript has its one output, after it, and parallel calls stand together,
  also after requests were taken back) and `HistoryInv` (what was replayed
  last is of a beginning of the transcript, before its active turn, and from where the next
  window is tried to start). The sums behind the budgets are folds, and the facts about
  folds of `TranslateProofs` are used for them (`CostIsThere`, `SelectionCosts`);
  `BisectFits` says that halving ends on what fits, `TurnTrimmed` that trimming takes calls
  only with their outputs, `ReplayedKept` that a window loses a call only by `CutFrom`, and
  `WindowOpens` that it opens as the last one did.

`TranslateProofs`, about the prompt a model gets and the reply its client gets. These models
compute with folds over transcripts, texts and events. The induction theorems of the library
take an operator, which the installed provers cannot instantiate; so the module starts from
the least element of a set of numbers (`LeastNumber`, from the library's well-foundedness
of `<`). With it, "a fold is a function of the prefix that obeys its recursion" is proved
once (`StepsAreThere`, `FoldIsThere`, `UpTo`, `FlattenIsThere`), and a fact about a fold is
then a fact about the first prefix that breaks it.

* `PromptKeepsPairs`: `PromptSpec => []NoOrphanResult`, from `LimitsAssumption` (the ceiling
  and the limit of results are in Nat) and `TurnsAssumption`. `PromptInv` says that, while
  nothing was taken back, the remembered boundary and the window's beginning are places where
  a window may begin (`MayBegin`), so that a boundary used again is still one; and that a call
  is the message before its result (`Paired`). What a rebuild's search finds is stated in
  `RebuildBegins` and `SafeBegins`.
* `PromptStaysSound`: `PromptIsSound`, for any limits, turns and rewinds. `SentInv` adds that
  ids grow along the transcript and the window, also after a rewind, and that what was sent is the
  payload of the window. What conversion and hoisting make of a window is followed message
  by message (`WindowGathers`, `Placed`): every id in front of a position is placed exactly as
  often as its message says, or still carried; nothing else is; what is placed is in order.
* `PromptOnlyGrows`: the action property `AppendsWhileItFits`. `FitsInv` says that, while
  nothing is taken back, the window begins at the remembered boundary, and that a boundary
  beyond the beginning shows that the whole did not fit: so a turn cannot fall back on the
  whole transcript. That hoisting what begins with a window begins with what the window's
  hoisting gave is `GatheringAdds`.
* `ReplyStaysFaithful`: `ReplyIsFaithful`, from `DeltasAssumption` (the chunks are
  `Pieces`), for any number of chunks. While the reply is open, `ReplyInv` says that what the
  client was shown and what is held back are together the visible text of all that the
  model wrote (`Says`), that only text that may still be a call is held back (`HeldBack`), that
  the carry is the beginning of a closer (`Carries`), and that the client's open blocks are the
  dict's, or reasoning came after text (`InStep`, `Apart`). `StreamedLikeWhole` speaks of the end
  only and says nothing of what is held back before: it is not inductive. The proof goes
  through the translator section by section: each (`ThinkingDeltaIs`, `EmitTextIs`, `CallIs`,
  `ThinksIs`, `ShowsIs`, the end) has a lemma that says what it adds to the text and that it
  keeps the blocks apart. That the closer is found wherever chunks cut it, and found first, is
  `CloserFollows`; `WholeVisible` says that the unstreamed conversion takes the same text, and
  `EndsRight` puts the two together. TLC checked `ReplyInv` on replies of up to four
  chunks before it was proved.

Every safety property that a passing run checks is stated by a theorem. Only model-checked
are the liveness properties: `RecoversWithoutRider`, `QueuedIsServed`, `TurnsEnd`,
`TransactionsEnd`, `ClientsAreTold`, `TunnelsEnd`. Liveness under fairness and `ENABLED` are
outside what the installed provers can do.

The runs that end in a violation state what is false of the code, so there is nothing to
prove of them.

## 5. What the modelling turned up

The eight violated runs above, and these, which are built into the models and limit
what the other properties claim:

* **Two breakers that open together may both announce.** `_announce` looks for an open peer
  in the registry (`failover.py:525`), then waits for the process that shows the popup, and
  only then does `_publish` enter the breaker (`failover.py:551`). Claude's verdict runs on a
  worker thread and Codex's on the event loop, so a link that takes both down can be
  announced twice, though it is to be "said once" (`failover.py:512`). `OneVoice` names
  exactly these openings; a breaker that opens after another one's entry is silent.
* **Codex turns share one `_held_tier`.** `acquire` and `release` are paired through a
  module-level variable. A Codex turn's end hands back the lock of whichever Codex turn has
  it: `tier_lock_codex` shows a turn that had given up waiting free the lock of one that
  still generates. `MutualExclusion` and `LockOwned` say what is left: nothing else brings
  two turns together, no lock is stranded, and a Claude turn is never robbed.
* **The exclusive lease** is consulted on one of several ways into local serving, after a
  failed attempt that opened the breaker on a transport error (`routes.py:1031-1052`). A turn
  that finds the breaker open, on arrival (line 985) or on waking, or that opened it with a
  status, goes local whoever owns the GPU. `UpstreamHold` has all of these ways; no run
  states a property that forbids them.
* **A release loop reads its count once.** A response that starts while the loop
  unloads the next tier is not seen; `LoopsStartIdle` therefore speaks of the start
  of a loop. The Codex path has a lock around both and is free of it
  (`CodexSparesCodex`).
* **A re-opened breaker drops deferred unloads.** When a deferral falls due and the
  breaker is open again, it is dropped on the assumption that the new outage has
  claimed the tier; nothing checks that it did. `ClaudeForgetsOnlyReopened` states
  the exception.
* **A cancelled release loses the rest of its list** (`CutShort`): the deferral
  set is emptied before the unloads are awaited.
* **A recovery probe may outlive its outage** and clear the burst of a newer one;
  this is the exception in `BlipIsAbsorbed`. For the same reason the turn's second
  look at `deciding` can differ from what the verdict said.
* **The later of two overlapping publications may carry the older payload**;
  `FileSettles` asks for a publication that met no other.
* **A retry that joins late may be refused**: it is replayed into a queue of fixed
  size before it can read (`StreamFlights`, `Joins`).
* **A task cancelled before it first ran never tells its subscribers**: the
  exception in `ClientsAreTold`.
* **A shared generation outlives the tier it runs on**: the tier is held and counted
  around a client's subscription, not around the flight's task.
* **MLX starts before Ollama is evicted**, even for a single turn, and a failed eviction
  is accepted (`MemoryInterlock`, `excused`); README.md:52 says "first".
* **The desktop patch may put an older bundle over an update**, without being killed. A run
  reads the version before it reads the identity it compares later (`restore_desktop_app`
  line 743 against `_restore_full_bundle` line 422, with a codesign of the whole backup in
  between), so an update between the two is replaced by the version before ("torn"). And
  when two updates come within one exchange, the first is put back over the second
  ("ousted"). `NothingIsLost` excepts these versions, and no others.
* **A refresh that is not answered strands its client.** `exchange_refresh_token` drops the
  old token (`oauth.py:531`) before `_save` (`oauth.py:494`) may raise, or before the answer
  is lost. The client still holds an unexpired token, and the server does not know it: it
  must be approved again, unless a restart finds the token in the file, which the failed
  save has left as it was. `StaysConnected` excepts the clients this happened to
  (`stranded`) until they are given a new token. A revoked access token leaves the refresh
  token of its pair, and the other way round (`oauth.py:552`).
* **The deployer** posts `in_progress` before it has a journal; an unconfirmed success is
  followed by a failure; its rollback ignores a restart that fails. It shares no lock with
  `deploy-router.sh`, which is why `ReleaseIsWhole` is stated where the script stays away.
  That script's `bounce || die` (line 152) comes after the fast-forward: the checkout has
  advanced while old code serves, though its lines 11 and 65 rule a half-run out.
* **A stream that ends without a finish reason** ends the client's as well: `_stream`
  (`routes.py:1752`) goes on from any end of the provider's, which `client.py:69-79` makes of
  `[DONE]` or of the end of the body, and chunks that do not parse are skipped. Then blocks
  stay open, there is no `message_stop`, and text held back as a possible call, or as the
  beginning of a `</think>`, is lost; `CutShortMissesTheHeld` says that no more is.
* **The reply translator.** Reasoning that follows text reuses the open text block's index
  (`Relapsed`). Content with the end, or with calls, in one chunk during inline thoughts is
  dropped with them (`Swallowed`), `message_stop` included. A reply of inline thoughts only
  streams no text, and its carry is lost at the end. A fenced JSON call is converted only
  unstreamed; JSON beside structured calls becomes a call only when streamed.
* **The working set.** A boundary that survives a rewind, or is shared by another session
  with the same first message, may open the window on a result without its call. So may one
  that does not: `_first_safe_start` never passes over the last message (`working_set.py:107`,
  `while start < len(messages) - 1`), so when a call is as long as the rebuild's target the
  window is the result alone; and the boundary is remembered, and used on later turns without
  a look at what it opens on (`working_set.py:150`) while the rest fits, so the orphan stays
  first of several messages. Its docstring (lines 99-106) calls that shape one Anthropic
  rejects and nonsense to a local model. `NoOrphanResult` states both exceptions, and
  `PromptKeepsPairs` proves that there is no third. Notes that
  close a turn move with the next. Text beside a result is sent before the result.
  `_inject_memory` (`translate.py:363`) puts recall that depends on the query into the
  system block in front of everything, which changes the prefix the other code keeps still;
  `AppendsWhileItFits` leaves the system message out.
* **The Codex request.** The window over history may start between two parallel calls; it
  then opens on the second call and replays the first one's output without its call, though
  `test_history_never_opens_on_a_call_output_whose_call_was_dropped`
  (`tests/test_codex_context.py:731-753`) says none is: only outputs the window *opens* on are
  passed over (`codex_orphan`; `CutFrom` is the exception in `CodexRequestsSound`, and the proof
  shows that there is no other). A turn that grows leaves history less, so the window moves; one
  that is trimmed may leave so much that all of the history fits, and the window goes back to
  the beginning of the transcript. So "Turn N's payload must OPEN with turn N-1's payload"
  (`tests/test_codex_context.py:695`) is stated here only while what was chosen and what is
  new fit, and not all of it.
* **The selection** takes recent units oldest first up to the hard limit, so the newest are
  the ones left out. Claude's adapter keeps the current message whole, so a result in it
  can be sent without its call (the exception in `SelectionIsSound`). References among the
  recent turns are dropped for the target.
* **The archive** reads its clock before it has the database's lock: a late call moves
  `last_active` backwards. Within 30 days this is harmless.
* **Certificates.** A cached context outlives the CA that signed it ("shown" in
  `LocalCertificates`); a leaf's expiry is not looked at.

## 6. What is not modelled, and the plan

Left out for good: text (prompts, logs, popups), HTTP headers, the Telegram bot, launchers
and the wizard, the arithmetic of the reports, Products MCP (stateless calls), the DNS
cache (one lookup, one write). Sockets, TLS, the clock, Ollama, launchd, `asyncio`, SQLite
and POSIX files are external and modelled by what the code relies on.

Not modelled yet, or in part:

* `run_complete_once`, the unstreamed twin of `stream_once`;
* of a Codex request: its decoding, the normalisation and choice of tools, ids of calls
  that are used twice, attachments beside text; and the conversion of payloads in the
  adapters (`codex_context_adapter.py`, `claude_context_adapter.py`,
  `external_context.py`): pure functions of a request;
* the life of the lease file; the lease on the Codex path, which is read before the state
  lock and the tier are awaited;
* the tier under a shared flight: a composition of `StreamFlights` with `TierRelease`;
* profile selection in `create_message`, and what `strip_message` does to system prompts.

Next, in this order:

1. `MemoryInterlock`, its property restated as what the code does keep, and proved.
2. `ComputeLease`, with both paths; the composition of flights and tiers.
3. An abstract specification of a grant that `OAuthProvider` implements, and of a single
   flight that `StreamFlights` implements.
4. The choice of tools of a Codex request, which may refuse what the trimming allowed.

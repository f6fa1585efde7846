----------------------------- MODULE ContextArchive -----------------------------
(***************************************************************************)
(* The archive of transcripts (context_store.py) and the preparation of a  *)
(* local turn over it (ContextRuntime.prepare_local): each call of the     *)
(* store runs in a thread of asyncio's executor and is waited for under a  *)
(* deadline.  A call that has begun when its deadline passes is not        *)
(* stopped: it changes the store later, and keeps its thread until then.   *)
(* Cloud turns are archived behind a bounded queue.                        *)
(*                                                                         *)
(* Transcripts are sequences of contents; a lineage is the snapshot of     *)
(* one, and shares the bodies of equal contents with the others.           *)
(***************************************************************************)
EXTENDS Naturals, Sequences, FiniteSets, SequencesExt, FiniteSetsExt

CONSTANTS
    Requests,      \* local turns
    Transcripts,   \* what a client may send
    Threads,       \* the threads of the executor
    QueueSize,     \* archive_queue_size
    InactiveDays,  \* inactive_days
    MaxDays,       \* bound: days
    MaxLineages    \* bound: lineages ever made

\* The settings refuse a store that forgets what is used today.
ASSUME DaysAssumption == InactiveDays \in Nat \ {0}

VARIABLES
    lineages,      \* transcript -> [id, parent, active], of the transcripts stored
    bodies,        \* contents whose body is stored
    made,          \* lineages ever made
    waiting,       \* calls handed to the executor: [owner, kind, transcript]
    runs,          \* thread -> the call it runs, with the day it began at, or Idle
    request,       \* request -> [phase, transcript, lineage]
    archiveQueue,  \* cloud transcripts to archive
    worker,        \* what the worker archives, or <<>>
    day

storeVars == <<lineages, bodies, made>>
archiveVars == <<lineages, bodies, made, waiting, runs, request, archiveQueue, worker, day>>

None == 0
Worker == "worker"
Nobody == "nobody"
Idle == [owner |-> "idle"]
Fresh == [phase |-> "idle", transcript |-> <<>>, lineage |-> None]

ArchiveInit ==
    /\ lineages = <<>>
    /\ bodies = {}
    /\ made = 0
    /\ waiting = <<>>
    /\ runs = [h \in Threads |-> Idle]
    /\ request = [r \in Requests |-> Fresh]
    /\ archiveQueue = <<>>
    /\ worker = <<>>
    /\ day = 0

-----------------------------------------------------------------------------
(* The store: each call is one transaction under the store's lock            *)

\* _parent_for: the one lineage that shares the longest beginning, if there is one.
Shared(s, t) == Len(LongestCommonPrefix({s, t}))
Parent(t) ==
    LET best == {s \in DOMAIN lineages : /\ Shared(s, t) > 0
                                         /\ \A o \in DOMAIN lineages : Shared(o, t) <= Shared(s, t)}
    IN  IF Cardinality(best) = 1 THEN lineages[CHOOSE s \in best : TRUE].id ELSE None

\* archive: a snapshot that is there is only touched.
Archives(t, at) ==
    IF t \in DOMAIN lineages
    THEN /\ lineages' = [lineages EXCEPT ![t].active = at]
         /\ UNCHANGED <<bodies, made>>
    ELSE /\ lineages' = [s \in DOMAIN lineages \union {t} |->
                           IF s = t THEN [id |-> made + 1, parent |-> Parent(t), active |-> at]
                           ELSE lineages[s]]
         /\ bodies' = bodies \union Range(t)
         /\ made' = made + 1

Stale(at) == {t \in DOMAIN lineages : lineages[t].active + InactiveDays < at}

\* A child outlives its parent (ON DELETE SET NULL).
Without(stale) ==
    [t \in DOMAIN lineages \ stale |->
       [lineages[t] EXCEPT !.parent =
          IF \E s \in stale : lineages[s].id = @ THEN None ELSE @]]

\* Mutant: the bodies of a pruned lineage go with it.
MutPrunes(at) ==
    /\ lineages' = Without(Stale(at))
    /\ bodies' = bodies \ UNION {Range(t) : t \in Stale(at)}
    /\ UNCHANGED made

\* prune_if_needed, when the files are over the cap (they may be, at any time).
Prunes(at) ==
    /\ lineages' = Without(Stale(at))
    /\ bodies' = IF Stale(at) = {} THEN bodies
                 ELSE bodies \intersect UNION {Range(t) : t \in DOMAIN lineages'}
    /\ UNCHANGED made

-----------------------------------------------------------------------------
(* The executor                                                              *)

\* (What only reads the store needs no transcript here.)
Job(owner, kind, t) == [owner |-> owner, kind |-> kind,
                        transcript |-> IF kind = "archive" THEN t ELSE <<>>]

Hands(job) == waiting' = Append(waiting, job)
Frees(h) == runs' = [runs EXCEPT ![h] = Idle]
Runs(h, owner) == runs[h] # Idle /\ runs[h].owner = owner

\* The calls wait in order for a thread, and are of the day on which they begin.
Begun(job) == [owner |-> job.owner, kind |-> job.kind, transcript |-> job.transcript, at |-> day]
Begins(h) ==
    /\ runs[h] = Idle
    /\ waiting # <<>>
    /\ runs' = [runs EXCEPT ![h] = Begun(Head(waiting))]
    /\ waiting' = Tail(waiting)
    /\ UNCHANGED <<storeVars, request, archiveQueue, worker, day>>

\* A deadline of the owner passes: a call that waits is withdrawn, one that runs is not.
Abandons(owner) ==
    runs' = [h \in Threads |-> IF Runs(h, owner) THEN [runs[h] EXCEPT !.owner = Nobody] ELSE runs[h]]
Withdrawn(owner) == SelectSeq(waiting, LAMBDA j : j.owner # owner)

EndsLate(h) ==
    /\ Runs(h, Nobody)
    /\ \/ runs[h].kind = "archive" /\ Archives(runs[h].transcript, runs[h].at)
       \/ runs[h].kind = "prune" /\ Prunes(runs[h].at)
       \/ UNCHANGED storeVars
    /\ Frees(h)
    /\ UNCHANGED <<waiting, request, archiveQueue, worker, day>>

\* Bound: transcripts are sent while there are identifiers for their lineages.
Room == made + Len(archiveQueue) + Cardinality({h \in Threads : runs[h] # Idle})
            + Len(SelectSeq(waiting, LAMBDA j : j.kind = "archive")) < MaxLineages

-----------------------------------------------------------------------------
(* prepare_local                                                             *)

Phases == {"archive", "prune", "select", "fit", "tail", "tail_fit"}

\* r goes on with the call of phase p, if that is one; its transcript is remembered
\* as long as it has a lineage.
Goes(r, p, lineage, calls) ==
    /\ request' = [request EXCEPT ![r] =
                     [phase |-> p, lineage |-> lineage,
                      transcript |-> IF lineage = None THEN <<>> ELSE request[r].transcript]]
    /\ waiting' = IF p \in Phases THEN Append(calls, Job(r, p, request[r].transcript)) ELSE calls

Prepares(r, t) ==
    /\ request[r].phase = "idle"
    /\ Room
    /\ request' = [request EXCEPT ![r] = [phase |-> "archive", transcript |-> t, lineage |-> None]]
    /\ Hands(Job(r, "archive", t))
    /\ UNCHANGED <<storeVars, runs, archiveQueue, worker, day>>

\* The awaited call returns.
Archived(r, h) ==
    /\ request[r].phase = "archive"
    /\ Archives(request[r].transcript, runs[h].at)
    /\ Goes(r, "prune", lineages'[request[r].transcript].id, waiting)

Pruned(r, h) ==
    /\ request[r].phase = "prune"
    /\ Prunes(runs[h].at) \/ UNCHANGED storeVars
    /\ Goes(r, "select", request[r].lineage, waiting)

\* The choice may be refused; so may the last count of its tokens.
Selected(r) ==
    /\ request[r].phase = "select"
    /\ \/ Goes(r, "fit", request[r].lineage, waiting)
       \/ Goes(r, "refused", None, waiting)
    /\ UNCHANGED storeVars

\* _newest_tail, without the store.
TailChosen(r) ==
    /\ request[r].phase = "tail"
    /\ \E p \in {"tail_fit", "refused"} : Goes(r, p, None, waiting)
    /\ UNCHANGED storeVars

Fitted(r) ==
    /\ request[r].phase \in {"fit", "tail_fit"}
    /\ \E p \in {"sent", "refused"} : Goes(r, p, None, waiting)
    /\ UNCHANGED storeVars

Returns(r, h) ==
    /\ Runs(h, r)
    /\ Archived(r, h) \/ Pruned(r, h) \/ Selected(r) \/ TailChosen(r) \/ Fitted(r)
    /\ Frees(h)
    /\ UNCHANGED <<archiveQueue, worker, day>>

Hurried == {"archive", "prune", "select", "fit"}

\* Mutant: what the turn falls back on is never handed over.
MutGivesUp(r) ==
    /\ request[r].phase \in Hurried
    /\ request' = [request EXCEPT ![r] = [Fresh EXCEPT !.phase = "tail"]]
    /\ waiting' = Withdrawn(r)
    /\ Abandons(r)
    /\ UNCHANGED <<storeVars, archiveQueue, worker, day>>

\* A deadline passes, or the store fails: pruning is let go, anything else is done without
\* the archive.
GivesUp(r) ==
    /\ request[r].phase \in Hurried
    /\ IF request[r].phase = "prune"
       THEN Goes(r, "select", request[r].lineage, Withdrawn(r))
       ELSE Goes(r, "tail", None, Withdrawn(r))
    /\ Abandons(r)
    /\ UNCHANGED <<storeVars, archiveQueue, worker, day>>

Leaves(r) ==
    /\ request[r].phase \in {"sent", "refused"}
    /\ request' = [request EXCEPT ![r] = Fresh]
    /\ UNCHANGED <<storeVars, waiting, runs, archiveQueue, worker, day>>

-----------------------------------------------------------------------------
(* archive_cloud and its worker                                              *)

\* A full queue drops the transcript.
ArchivesCloud(t) ==
    /\ Len(archiveQueue) < QueueSize
    /\ Room
    /\ archiveQueue' = Append(archiveQueue, t)
    /\ UNCHANGED <<storeVars, waiting, runs, request, worker, day>>

WorkerTakes ==
    /\ worker = <<>> /\ archiveQueue # <<>>
    /\ worker' = Head(archiveQueue)
    /\ archiveQueue' = Tail(archiveQueue)
    /\ Hands(Job(Worker, "archive", Head(archiveQueue)))
    /\ UNCHANGED <<storeVars, runs, request, day>>

WorkerGoesOn(h) ==
    /\ Runs(h, Worker)
    /\ \/ /\ runs[h].kind = "archive"
          /\ Archives(worker, runs[h].at)
          /\ Hands(Job(Worker, "prune", worker))
          /\ UNCHANGED worker
       \/ /\ runs[h].kind = "prune"
          /\ Prunes(runs[h].at) \/ UNCHANGED storeVars
          /\ worker' = <<>>
          /\ UNCHANGED waiting
    /\ Frees(h)
    /\ UNCHANGED <<request, archiveQueue, day>>

\* One deadline for both calls.
WorkerGivesUp ==
    /\ worker # <<>>
    /\ waiting' = Withdrawn(Worker)
    /\ Abandons(Worker)
    /\ worker' = <<>>
    /\ UNCHANGED <<storeVars, request, archiveQueue, day>>

\* Deadlines are seconds: no turn under one spans a day; a call that was given up may.
DayPasses ==
    /\ day < MaxDays
    /\ \A r \in Requests : request[r].phase \notin Hurried
    /\ \A h \in Threads : runs[h] # Idle => runs[h].at = day
    /\ day' = day + 1
    /\ UNCHANGED <<storeVars, waiting, runs, request, archiveQueue, worker>>

ArchiveNext ==
    \/ \E h \in Threads :
          \/ Begins(h) \/ EndsLate(h) \/ WorkerGoesOn(h)
          \/ \E r \in Requests : Returns(r, h)
    \/ \E r \in Requests :
          \/ \E t \in Transcripts : Prepares(r, t)
          \/ GivesUp(r) \/ Leaves(r)
    \/ \E t \in Transcripts : ArchivesCloud(t)
    \/ WorkerTakes \/ WorkerGivesUp \/ DayPasses

\* A thread takes the next call, and a call returns (the store's connections time out);
\* nothing is said of how soon.
ArchiveFairness ==
    \A h \in Threads :
        /\ WF_archiveVars(Begins(h))
        /\ WF_archiveVars(EndsLate(h) \/ WorkerGoesOn(h) \/ \E r \in Requests : Returns(r, h))

ArchiveSpec == ArchiveInit /\ [][ArchiveNext]_archiveVars /\ ArchiveFairness

-----------------------------------------------------------------------------
\* Whatever late calls do: every snapshot in the store has all of its bodies, no parent is
\* a lineage that is gone, and the lineage a turn selects from is there until it is done.
SnapshotsWhole ==
    /\ \A t \in DOMAIN lineages :
          /\ Range(t) \subseteq bodies
          /\ lineages[t].parent \in {None} \union {lineages[s].id : s \in DOMAIN lineages}
    /\ \A r \in Requests : request[r].phase \in {"prune", "select", "fit"} =>
          /\ request[r].transcript \in DOMAIN lineages
          /\ lineages[request[r].transcript].id = request[r].lineage

\* A turn is prepared or refused, however slow the store: what it falls back on needs a
\* thread of the same executor, and the calls it gave up keep theirs.
TurnsEnd == \A r \in Requests :
    []<>(request[r].phase \in {"idle", "sent", "refused"})

=============================================================================

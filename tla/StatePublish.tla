----------------------------- MODULE StatePublish -----------------------------
(***************************************************************************)
(* The state file other users of the GPU read: FailoverBreaker._publish in *)
(* src/proxy/failover.py, at the grain of its file operations.             *)
(*                                                                         *)
(* Breakers of one process share the registry, the file and the one        *)
(* temporary name next to it.  They publish from several threads: the      *)
(* Claude breaker from a worker (_record_failure) and from the event loop  *)
(* (_record_success), the Codex breaker from the event loop, either one    *)
(* from the ticker's worker.  File semantics are POSIX (external): opening *)
(* for writing truncates the file a name stands for now, renaming moves    *)
(* the name, and a writer keeps the file it opened.                        *)
(***************************************************************************)
EXTENDS Naturals, FiniteSets

CONSTANTS
    Breakers,   \* the breakers that share the file
    Threads,    \* the threads that publish
    Owner,      \* the breaker each thread publishes for
    Reasons,    \* what a breaker may be open for
    DiskFails,  \* may a file operation fail?
    None        \* closed; no such file

Files == 1..Cardinality(Threads) + 1
Snapshots == [Breakers -> Reasons \union {None}]

\* The payloads a file is made of: none after truncation, one when it is whole,
\* two when a short one was written over a longer one.
Whole(c) == \E s \in Snapshots : c = {s}

OwnerAssumption ==
    /\ DiskFails \in BOOLEAN
    /\ Owner \in [Threads -> Breakers]
    /\ IsFiniteSet(Threads)
    /\ None \notin Reasons \union Files

VARIABLES
    built,       \* the breakers this process has constructed
    failing,     \* each breaker's state: the reason it is open for, or None
    registry,    \* the registry _ACTIVE_BREAKERS[path]
    place, reasons,  \* each thread's place, and the payload it has computed
    writes,      \* the file each thread has open
    tmp, state,  \* what the temporary and the published name stand for
    content,     \* of each file
    published,   \* history: the last publication of this process succeeded
    solitary,    \* history: the publication in progress that met no other, if any
    overlapped   \* history: two have met since a solitary one succeeded

publishHistory == <<published, solitary, overlapped>>
publishVars == <<built, failing, registry, place, reasons, writes, tmp, state, content, publishHistory>>

Closed == [b \in Breakers |-> None]

PublishInit ==
    /\ built = {}
    /\ failing = Closed
    /\ registry = Closed
    /\ place = [w \in Threads |-> "idle"]
    /\ reasons = [w \in Threads |-> Closed]
    /\ writes = [w \in Threads |-> None]
    /\ tmp = None
    /\ state = None
    /\ content = [f \in Files |-> {}]
    /\ published = FALSE
    /\ solitary = {}
    /\ overlapped = FALSE

-----------------------------------------------------------------------------
\* A file that has no name and no writer any more is gone.
Keeps(c) ==
    content' = [f \in Files |-> IF f \in {tmp', state'} \/ \E v \in Threads : writes'[v] = f
                               THEN c[f] ELSE {}]

PublisherGoes(w, where) == place' = [place EXCEPT ![w] = where]

\* A publication begins, and may meet others.
Begins(w) ==
    /\ PublisherGoes(w, "listed")
    /\ \/ /\ \A v \in Threads : place[v] = "idle"
          /\ solitary' = {w}
          /\ UNCHANGED overlapped
       \/ /\ \E v \in Threads : place[v] # "idle"
          /\ solitary' = {}
          /\ overlapped' = TRUE
    /\ UNCHANGED published

\* __init__ ends with _publish: the file stops saying what an earlier process
\* left in it.  The recovery loop constructs the breakers one after the other,
\* before the first request.
Constructs(w) ==
    /\ \A v \in Threads : place[v] = "idle"
    /\ Owner[w] \notin built
    /\ registry' = [registry EXCEPT ![Owner[w]] = None]
    /\ Begins(w)
    /\ UNCHANGED <<built, failing, reasons, writes, tmp, state, content>>

\* The breaker opens or closes and enters itself in the registry.
Flips(w) ==
    /\ place[w] = "idle"
    /\ built = Breakers
    /\ \E r \in Reasons \union {None} :
          /\ (failing[Owner[w]] = None) # (r = None)
          /\ failing' = [failing EXCEPT ![Owner[w]] = r]
          /\ registry' = [registry EXCEPT ![Owner[w]] = r]
    /\ Begins(w)
    /\ UNCHANGED <<built, reasons, writes, tmp, state, content>>

\* reasons = dict(sorted(active.items())), of the registry, and the payload made of it
Snapshot(w) ==
    /\ place[w] = "listed"
    /\ reasons' = [reasons EXCEPT ![w] = registry]
    /\ PublisherGoes(w, "opening")
    /\ UNCHANGED <<built, failing, registry, writes, tmp, state, content, publishHistory>>

Unused == CHOOSE f \in Files : f # state /\ \A w \in Threads : writes[w] # f

\* Mutant: the payload is written to the published file itself.
MutOpensInPlace(w) ==
    LET f == IF state = None THEN Unused ELSE state
    IN  /\ place[w] = "opening"
        /\ state' = f
        /\ content' = [content EXCEPT ![f] = {}]
        /\ writes' = [writes EXCEPT ![w] = f]
        /\ PublisherGoes(w, "writing")
        /\ UNCHANGED <<built, failing, registry, reasons, tmp, publishHistory>>

\* tmp.write_text opens the file the temporary name stands for, or a new one.
OpensTmp(w) ==
    LET f == IF tmp = None THEN Unused ELSE tmp
    IN  /\ place[w] = "opening"
        /\ tmp' = f
        /\ content' = [content EXCEPT ![f] = {}]
        /\ writes' = [writes EXCEPT ![w] = f]
        /\ PublisherGoes(w, "writing")
        /\ UNCHANGED <<built, failing, registry, reasons, state, publishHistory>>

\* A payload written over another one may leave the longer one's tail.
Writes(w) ==
    /\ place[w] = "writing"
    /\ writes' = [writes EXCEPT ![w] = None]
    /\ PublisherGoes(w, "replacing")
    /\ UNCHANGED <<built, failing, registry, reasons, tmp, state, publishHistory>>
    /\ \E tail \in {{}, content[writes[w]]} :
          Keeps([content EXCEPT ![writes[w]] = {reasons[w]} \union tail])

\* _publish returns, and a constructor with it; its payload goes with it.
PublicationEnds(w) ==
    /\ PublisherGoes(w, "idle")
    /\ built' = built \union {Owner[w]}
    /\ reasons' = [reasons EXCEPT ![w] = Closed]
    /\ solitary' = solitary \ {w}

\* tmp.replace(state)
Replaces(w) ==
    /\ place[w] = "replacing"
    /\ tmp # None
    /\ state' = tmp
    /\ tmp' = None
    /\ published' = TRUE
    /\ overlapped' = (overlapped /\ w \notin solitary)
    /\ PublicationEnds(w)
    /\ UNCHANGED <<failing, registry, writes>>
    /\ Keeps(content)

\* An OSError (a full disk, or no temporary file left to rename) ends the
\* publication: the handler passes, and the router goes on routing.
Errs(w) ==
    /\ \/ DiskFails /\ place[w] \in {"opening", "writing", "replacing"}
       \/ place[w] = "replacing" /\ tmp = None
    /\ PublicationEnds(w)
    /\ writes' = [writes EXCEPT ![w] = None]
    /\ published' = FALSE
    /\ UNCHANGED <<failing, registry, tmp, state, overlapped>>
    /\ Keeps(content)

\* The router dies and starts again: the files stay, the breakers are closed.
Restarts ==
    /\ failing' = Closed
    /\ registry' = Closed
    /\ place' = [w \in Threads |-> "idle"]
    /\ reasons' = [w \in Threads |-> Closed]
    /\ writes' = [w \in Threads |-> None]
    /\ built' = {}
    /\ published' = FALSE
    /\ solitary' = {}
    /\ UNCHANGED <<tmp, state, overlapped>>
    /\ Keeps(content)

PublishNext ==
    \/ \E w \in Threads :
          \/ Constructs(w) \/ Flips(w) \/ Snapshot(w) \/ OpensTmp(w) \/ Writes(w)
          \/ Replaces(w) \/ Errs(w)
    \/ Restarts

PublishSpec == PublishInit /\ [][PublishNext]_publishVars

-----------------------------------------------------------------------------
(* Properties *)

\* The shape of the state.
PublishTypeOK ==
    /\ built \in SUBSET Breakers
    /\ failing \in Snapshots
    /\ registry \in Snapshots
    /\ place \in [Threads -> {"idle", "listed", "opening", "writing", "replacing"}]
    /\ reasons \in [Threads -> Snapshots]
    /\ writes \in [Threads -> Files \union {None}]
    /\ tmp \in Files \union {None}
    /\ state \in Files \union {None}
    /\ content \in [Files -> SUBSET Snapshots]
    /\ published \in BOOLEAN
    /\ solitary \in SUBSET Threads
    /\ overlapped \in BOOLEAN

\* Stated by _publish: "atomic: readers never see a partial file".
ReadersSeeWhole == state # None => Whole(content[state])

\* What the one temporary name does guarantee: the published file is whole at
\* every moment, through crashes and file errors, unless two publications have
\* met, and then again from the next solitary one on.
WholeUnlessOverlapped == ~overlapped => ReadersSeeWhole

Settled ==
    /\ published
    /\ ~overlapped
    /\ \A w \in Threads : place[w] = "idle"

\* Once a solitary publication went through, the file says what all the breakers
\* say, whatever an earlier process, an error or an overlap left in it: a
\* consumer that reads it neither loads a second model on top of a failover nor
\* stands down for one that has ended.
FileSettles == Settled => content[state] = {failing}

\* Both together: what a consumer of the file may count on.
StateFileIsSound == WholeUnlessOverlapped /\ FileSettles
=============================================================================

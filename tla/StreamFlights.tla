----------------------------- MODULE StreamFlights -----------------------------
(***************************************************************************)
(* Streams shared between a request and its retries: stream_once of        *)
(* src/proxy/context_runtime.py, for one key (the hash of a request).      *)
(*                                                                         *)
(* The first client starts a flight: a task that runs the provider's       *)
(* stream, keeps its events and hands each to the queue of every           *)
(* subscriber.  A later client is given the past events and subscribes.    *)
(* When the stream has ended, its events are cached and the flight is      *)
(* dropped; from then on clients replay the cache.                         *)
(*                                                                         *)
(* Everything runs on one event loop, except the store, which answers from *)
(* a worker thread.  An event is its number in the flight.  The per-key    *)
(* lock is held across one await only, the look into the cache.            *)
(***************************************************************************)
EXTENDS Naturals, Sequences, FiniteSets

CONSTANTS
    Clients,     \* concurrent requests with the same key
    SubscriberQueue,   \* _stream_subscriber_queue_size
    MaxEvents,   \* bound: events of a reply
    MaxFlights   \* bound: generations of the reply

ASSUME SizeAssumption ==
    /\ SubscriberQueue \in Nat \ {0}
    /\ MaxEvents \in Nat
    /\ MaxFlights \in Nat

VARIABLES
    current,      \* _stream_flights[key]: a flight, or None
    cache,        \* the flight whose events the store has under the key, or None
    task,         \* where each flight's task is
    events,       \* how many events each flight has published
    terminal,     \* what each flight will tell its subscribers last
    subscribers,  \* of each flight
    writing,      \* flights cancelled while the store was writing their events
    closed,       \* close() was called
    pc,           \* where each client is
    from,         \* the flight that serves it, live or cached
    queue,        \* its queue
    seen,         \* what it has been sent
    whole         \* history: flights whose stream ended by itself

flights == <<current, cache, task, events, terminal, subscribers, writing, closed, whole>>
clients == <<pc, from, queue, seen>>
flightVars == <<flights, clients>>

NoFlight == 0
Flights == 1..MaxFlights
Endings == {"done", "failed", "cancelled"}

\* What a queue carries: the numbered events, then one item that ends the reading.
Event(n) == [kind |-> "event", n |-> n]
Ending(how) == [kind |-> how, n |-> 0]
Poison == Ending("behind")
Items == {Event(n) : n \in 1..MaxEvents} \union {Ending(how) : how \in Endings} \union {Poison}

FlightsInit ==
    /\ current = NoFlight
    /\ cache = NoFlight
    /\ task = [f \in Flights |-> "none"]
    /\ events = [f \in Flights |-> 0]
    /\ terminal = [f \in Flights |-> "done"]
    /\ subscribers = [f \in Flights |-> {}]
    /\ writing = {}
    /\ closed = FALSE
    /\ pc = [c \in Clients |-> "idle"]
    /\ from = [c \in Clients |-> NoFlight]
    /\ queue = [c \in Clients |-> <<>>]
    /\ seen = [c \in Clients |-> <<>>]
    /\ whole = {}

-----------------------------------------------------------------------------
(* Queues *)

\* Mutant: a full queue forgets its oldest event.
MutOffer(q, item) == Append(IF Len(q) = SubscriberQueue THEN Tail(q) ELSE q, item)

\* _publish_to_subscriber, the queue: a full one is emptied and poisoned.
Offer(q, item) == IF Len(q) = SubscriberQueue THEN <<Poison>> ELSE Append(q, item)

\* ... and its subscriber dropped.
PublishAll(f, item) ==
    LET full == {c \in subscribers[f] : Len(queue[c]) = SubscriberQueue}
    IN  /\ queue' = [c \in Clients |->
               IF c \in subscribers[f] THEN Offer(queue[c], item) ELSE queue[c]]
        /\ subscribers' = [subscribers EXCEPT ![f] = @ \ full]

Events(n) == [i \in 1..n |-> Event(i)]

\* A queue that was offered the first n events one by one: it holds them all, or, emptied
\* `times` times, the poison and the events since.
Replays(n) ==
    (IF n <= SubscriberQueue THEN {Events(n)} ELSE {}) \union
    {<<Poison>> \o [i \in 1..k |-> Event(n - k + i)] :
        k \in {k \in 0..SubscriberQueue - 1 : \E times \in 1..n : n = times * SubscriberQueue + 1 + k}}

LockFree == \A c \in Clients : pc[c] # "looking"

-----------------------------------------------------------------------------
(* Clients *)

\* Replays what the flight has published and subscribes.  (One who falls behind
\* during the replay is poisoned, and subscribed all the same.)
Joins(c, f) ==
    /\ pc' = [pc EXCEPT ![c] = "waiting"]
    /\ from' = [from EXCEPT ![c] = f]
    /\ \E q \in Replays(events[f]) : queue' = [queue EXCEPT ![c] = q]
    /\ subscribers' = [subscribers EXCEPT ![f] = @ \union {c}]

\* Mutant: the cache is consulted outside the lock.
MutEntersUnlocked(c) ==
    /\ pc[c] = "idle"
    /\ \/ /\ current # NoFlight
          /\ Joins(c, current)
       \/ /\ current = NoFlight
          /\ pc' = [pc EXCEPT ![c] = "looking"]
          /\ UNCHANGED <<from, queue, subscribers>>
    /\ UNCHANGED <<current, cache, task, events, terminal, writing, closed, whole, seen>>

Enters(c) ==
    /\ pc[c] = "idle"
    /\ LockFree
    /\ \/ /\ current # NoFlight
          /\ Joins(c, current)
       \/ /\ current = NoFlight
          /\ pc' = [pc EXCEPT ![c] = "looking"]
          /\ UNCHANGED <<from, queue, subscribers>>
    /\ UNCHANGED <<current, cache, task, events, terminal, writing, closed, whole, seen>>

\* The store answers.  The events of a hit are the client's own from here on.
FindsCached(c) ==
    /\ pc[c] = "looking"
    /\ cache # NoFlight
    /\ pc' = [pc EXCEPT ![c] = "waiting"]
    /\ from' = [from EXCEPT ![c] = cache]
    /\ queue' = [queue EXCEPT ![c] = Append(Events(events[cache]), Ending("done"))]
    /\ UNCHANGED <<flights, seen>>

\* A miss, or a store that is unavailable (or holds an entry that expires now).
StartsFlight(c) ==
    /\ pc[c] = "looking"
    /\ \E f \in Flights :
          /\ task[f] = "none"
          /\ \A g \in 1..f - 1 : task[g] # "none"
          /\ current' = f
          /\ task' = [task EXCEPT ![f] = "created"]
          /\ Joins(c, f)
    /\ UNCHANGED <<cache, events, terminal, writing, closed, whole, seen>>

Unsubscribe(c) ==
    subscribers' = [f \in Flights |-> subscribers[f] \ {c}]

Reads(c) ==
    /\ pc[c] = "waiting"
    /\ queue[c] # <<>>
    /\ queue' = [queue EXCEPT ![c] = Tail(@)]
    /\ LET item == Head(queue[c])
       IN  \/ /\ item.kind = "event"
              /\ seen' = [seen EXCEPT ![c] = Append(@, item.n)]
              /\ UNCHANGED <<pc, subscribers>>
           \/ /\ item.kind # "event"
              /\ pc' = [pc EXCEPT ![c] = IF item.kind = "done" THEN "complete" ELSE "failed"]
              /\ Unsubscribe(c)
              /\ UNCHANGED seen
    /\ UNCHANGED <<current, cache, task, events, terminal, writing, closed, whole, from>>

\* The client hangs up, or comes back with a retry.
Departs(c) ==
    /\ pc[c] # "idle"
    /\ pc' = [pc EXCEPT ![c] = "idle"]
    /\ from' = [from EXCEPT ![c] = NoFlight]
    /\ queue' = [queue EXCEPT ![c] = <<>>]
    /\ seen' = [seen EXCEPT ![c] = <<>>]
    /\ Unsubscribe(c)
    /\ UNCHANGED <<current, cache, task, events, terminal, writing, closed, whole>>

-----------------------------------------------------------------------------
(* The flight's task: _produce_stream *)

TaskGoes(f, where) == task' = [task EXCEPT ![f] = where]

Starts(f) ==
    /\ task[f] = "created"
    /\ TaskGoes(f, "running")
    /\ UNCHANGED <<current, cache, events, terminal, subscribers, writing, closed, whole, clients>>

\* _publish_stream_event
Emits(f) ==
    /\ task[f] = "running"
    /\ events[f] < MaxEvents
    /\ LockFree
    /\ IF current = f
       THEN /\ events' = [events EXCEPT ![f] = @ + 1]
            /\ PublishAll(f, Event(events[f] + 1))
       ELSE UNCHANGED <<events, queue, subscribers>>
    /\ UNCHANGED <<current, cache, task, terminal, writing, closed, whole, pc, from, seen>>

StreamEnds(f) ==
    /\ task[f] = "running"
    /\ TaskGoes(f, "storing")
    /\ whole' = whole \union {f}
    /\ UNCHANGED <<current, cache, events, terminal, subscribers, writing, closed, clients>>

\* Mutant: what a failed stream has sent so far is cached like a reply.
MutStreamFails(f) ==
    /\ task[f] = "running"
    /\ TaskGoes(f, "storing")
    /\ terminal' = [terminal EXCEPT ![f] = "failed"]
    /\ UNCHANGED <<current, cache, events, subscribers, writing, closed, whole, clients>>

StreamFails(f) ==
    /\ task[f] = "running"
    /\ TaskGoes(f, "ending")
    /\ terminal' = [terminal EXCEPT ![f] = "failed"]
    /\ UNCHANGED <<current, cache, events, subscribers, writing, closed, whole, clients>>

\* _store_stream: best effort.
Stores(f) ==
    /\ task[f] = "storing"
    /\ TaskGoes(f, "ending")
    /\ cache' \in {f, cache}
    /\ UNCHANGED <<current, events, terminal, subscribers, writing, closed, whole, clients>>

\* Mutant: the flight is dropped without a word to its subscribers.
MutFinishesSilently(f) ==
    /\ task[f] = "ending"
    /\ LockFree
    /\ TaskGoes(f, "over")
    /\ current' = NoFlight
    /\ UNCHANGED <<cache, events, terminal, subscribers, writing, closed, whole, clients>>

\* _finish_stream
Finishes(f) ==
    /\ task[f] = "ending"
    /\ LockFree
    /\ TaskGoes(f, "over")
    /\ IF current = f
       THEN PublishAll(f, Ending(terminal[f])) /\ current' = NoFlight
       ELSE UNCHANGED <<queue, subscribers, current>>
    /\ UNCHANGED <<cache, events, terminal, writing, closed, whole, pc, from, seen>>

\* close() cancels the task.  One that has not run yet never reaches its
\* finally; the store's write goes on in its thread; the finish is shielded.
Closes ==
    /\ ~closed
    /\ closed' = TRUE
    /\ IF current = NoFlight
       THEN UNCHANGED <<task, terminal, writing>>
       ELSE LET where == task[current]
            IN  /\ task' = [task EXCEPT ![current] =
                       IF where = "created" THEN "lost" ELSE "ending"]
                /\ terminal' = [terminal EXCEPT ![current] =
                       IF where \in {"running", "storing"} THEN "cancelled" ELSE @]
                /\ writing' = IF where = "storing" THEN writing \union {current} ELSE writing
    /\ UNCHANGED <<current, cache, events, subscribers, whole, clients>>

LateWrite(f) ==
    /\ f \in writing
    /\ writing' = writing \ {f}
    /\ cache' \in {f, cache}
    /\ UNCHANGED <<current, task, events, terminal, subscribers, closed, whole, clients>>

Expires ==
    /\ cache # NoFlight
    /\ cache' = NoFlight
    /\ UNCHANGED <<current, task, events, terminal, subscribers, writing, closed, whole, clients>>

Produces(f) == StreamEnds(f) \/ StreamFails(f)

FlightsNext ==
    \/ \E c \in Clients :
          \/ Enters(c) \/ FindsCached(c) \/ StartsFlight(c) \/ Reads(c) \/ Departs(c)
    \/ \E f \in Flights :
          \/ Starts(f) \/ Emits(f) \/ Produces(f) \/ Stores(f) \/ Finishes(f) \/ LateWrite(f)
    \/ Closes
    \/ Expires

\* The event loop runs its tasks, the store answers, and a provider's stream
\* ends (its client has a read timeout).  Clients owe nothing but to read.
FlightsFairness ==
    /\ \A c \in Clients :
          WF_flightVars(FindsCached(c) \/ StartsFlight(c)) /\ WF_flightVars(Reads(c))
    /\ \A f \in Flights :
          /\ WF_flightVars(Starts(f))
          /\ WF_flightVars(Produces(f))
          /\ WF_flightVars(Stores(f))
          /\ SF_flightVars(Finishes(f))

FlightsSpec == FlightsInit /\ [][FlightsNext]_flightVars

FlightsFairSpec == FlightsSpec /\ FlightsFairness

-----------------------------------------------------------------------------
(* Properties *)

\* The shape of the state.
FlightsTypeOK ==
    /\ current \in Flights \union {NoFlight}
    /\ cache \in Flights \union {NoFlight}
    /\ task \in [Flights -> {"none", "created", "running", "storing", "ending",
                             "over", "lost"}]
    /\ events \in [Flights -> 0..MaxEvents]
    /\ terminal \in [Flights -> Endings]
    /\ subscribers \in [Flights -> SUBSET Clients]
    /\ writing \in SUBSET Flights
    /\ closed \in BOOLEAN
    /\ pc \in [Clients -> {"idle", "looking", "waiting", "complete", "failed"}]
    /\ from \in [Clients -> Flights \union {NoFlight}]
    /\ queue \in [Clients -> Seq(Items)]
    /\ seen \in [Clients -> Seq(1..MaxEvents)]
    /\ whole \in SUBSET Flights

\* Whenever a client joins, and however slowly it reads, what it is sent is a
\* beginning of the one reply: no event is missed, repeated or reordered.
NothingSkipped ==
    \A c \in Clients : \A i \in 1..Len(seen[c]) : seen[c][i] = i

\* A client that is told the stream is done has all of a stream that ended by
\* itself, live or replayed: a reply that broke off is never cached.
CompleteIsWhole ==
    \A c \in Clients : pc[c] = "complete" =>
        /\ from[c] \in whole
        /\ Len(seen[c]) = events[from[c]]

Alive(f) == task[f] \in {"created", "running", "storing", "ending"}

\* A request and its retries never generate twice at a time.
OneGeneration == \A f, g \in Flights : Alive(f) /\ Alive(g) => f = g

\* A client that keeps reading is told how its stream ended.  One exception: a
\* runtime closed before the flight's task first ran tells nobody.
ClientsAreTold ==
    \A c \in Clients : []<>(pc[c] # "waiting" \/ task[from[c]] = "lost")
=============================================================================

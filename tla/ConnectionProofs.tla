-------------------------- MODULE ConnectionProofs ---------------------------
(***************************************************************************)
(* Proofs about what keeps a connection: the streams that a request and    *)
(* its retries share (StreamFlights.tla), for any clients, queue size and  *)
(* replies; the authorization server (OAuthProvider.tla); and the forward  *)
(* proxy (ForwardProxy.tla).  They share no state; each has its own        *)
(* section, with its own invariants.                                       *)
(***************************************************************************)
EXTENDS StreamFlights, OAuthProvider, ForwardProxy, FiniteSetTheorems, WellFoundedInduction, TLAPS

-----------------------------------------------------------------------------
(* Streams.  First, a request and its retries never generate twice at a    *)
(* time.  The argument is that of the per-key lock: a flight that still    *)
(* has work to do is the one in the table, and whoever looks into the      *)
(* cache does so alone, and only while the table is empty; so the flight   *)
(* it may then start meets no other.                                       *)
(*                                                                         *)
(* Second, what a client is sent is the reply.  The argument is about its  *)
(* queue: it is up to date with its flight, or it ends, or it begins with  *)
(* the poison; and a flight's events are final once its stream has ended   *)
(* by itself, which is what an ending that says "done", and the cache,     *)
(* stand for.                                                              *)

\* The two functions the argument reads have their domains.
Shaped == DOMAIN task = Flights /\ DOMAIN pc = Clients

\* A flight whose task is not over is the one in the table.
TableNamesAlive == \A f \in Flights : Alive(f) => current = f

\* The look into the cache is made by one client at a time, on an empty table.
LookIsAlone ==
    \A c \in Clients : pc[c] = "looking" =>
        /\ current = NoFlight
        /\ \A d \in Clients : pc[d] = "looking" => d = c

FlightInv == Shaped /\ TableNamesAlive /\ LookIsAlone

\* There is no flight and no client to begin with.
LEMMA FlightInit == FlightsInit => FlightInv
BY DEF FlightsInit, FlightInv, Shaped, TableNamesAlive, LookIsAlone, Alive

\* A step that leaves table, tasks and clients where they are keeps the invariant.
LEMMA IdleStep ==
    ASSUME FlightInv, UNCHANGED <<current, task, pc>>
    PROVE  FlightInv'
BY DEF FlightInv, Shaped, TableNamesAlive, LookIsAlone, Alive

\* Nor does a client disturb it that stops looking, or was not.
LEMMA ClientMoves ==
    ASSUME FlightInv, NEW c \in Clients, NEW where, where # "looking",
           pc' = [pc EXCEPT ![c] = where], UNCHANGED <<current, task>>
    PROVE  FlightInv'
BY DEF FlightInv, Shaped, TableNamesAlive, LookIsAlone, Alive

\* A flight that goes on from one stage of its work to another was in the table
\* and stays there.
LEMMA FlightMoves ==
    ASSUME FlightInv, NEW f \in Flights, Alive(f), NEW where,
           TaskGoes(f, where), UNCHANGED <<current, pc>>
    PROVE  FlightInv'
BY DEF FlightInv, Shaped, TableNamesAlive, LookIsAlone, Alive, TaskGoes

\* A client enters: it joins the flight in the table, or looks alone.
LEMMA EntersStep ==
    ASSUME FlightInv, NEW c \in Clients, Enters(c)
    PROVE  FlightInv'
<1>1. CASE current # NoFlight
  <2>1. pc' = [pc EXCEPT ![c] = "waiting"] /\ UNCHANGED <<current, task>>
    BY <1>1 DEF Enters, Joins
  <2>2. QED
    BY <2>1, ClientMoves
<1>2. CASE current = NoFlight
  <2>1. pc' = [pc EXCEPT ![c] = "looking"] /\ UNCHANGED <<current, task>>
    BY <1>2 DEF Enters
  <2>2. \A d \in Clients : pc[d] # "looking"
    BY DEF Enters, LockFree
  <2>3. QED
    BY <1>2, <2>1, <2>2 DEF FlightInv, Shaped, TableNamesAlive, LookIsAlone, Alive
<1>3. QED
  BY <1>1, <1>2

\* A client that found nothing starts a flight.  The table was empty, so no other
\* flight is alive; nobody else was looking, so the table may name this one.
LEMMA StartsFlightStep ==
    ASSUME FlightInv, NEW c \in Clients, StartsFlight(c)
    PROVE  FlightInv'
<1>1. PICK f \in Flights :
        /\ current' = f
        /\ task' = [task EXCEPT ![f] = "created"]
        /\ pc' = [pc EXCEPT ![c] = "waiting"]
  BY DEF StartsFlight, Joins
<1>2. /\ pc[c] = "looking"
      /\ current = NoFlight
      /\ \A d \in Clients : pc[d] = "looking" => d = c
  BY DEF StartsFlight, FlightInv, LookIsAlone
<1>3. \A g \in Flights : ~Alive(g)
  BY <1>2 DEF FlightInv, TableNamesAlive, Flights, NoFlight
<1>4. Shaped'
  BY <1>1 DEF FlightInv, Shaped
<1>5. TableNamesAlive'
  BY <1>1, <1>3 DEF FlightInv, Shaped, TableNamesAlive, Alive
<1>6. LookIsAlone'
  BY <1>1, <1>2 DEF FlightInv, Shaped, LookIsAlone
<1>7. QED
  BY <1>4, <1>5, <1>6 DEF FlightInv

\* A flight that finishes leaves the table, and nothing is left to do.
LEMMA FinishesStep ==
    ASSUME FlightInv, NEW f \in Flights, Finishes(f)
    PROVE  FlightInv'
<1>1. task[f] = "ending" /\ task' = [task EXCEPT ![f] = "over"] /\ pc' = pc
  BY DEF Finishes, TaskGoes
<1>2. current = f
  BY <1>1 DEF FlightInv, TableNamesAlive, Alive
<1>3. current' = NoFlight
  BY <1>2 DEF Finishes
<1>4. \A g \in Flights : Alive(g) => g = f
  BY <1>2 DEF FlightInv, TableNamesAlive
<1>5. QED
  BY <1>1, <1>3, <1>4 DEF FlightInv, Shaped, TableNamesAlive, LookIsAlone, Alive

\* close() makes no flight that was over work again: it touches the one in the
\* table only.
LEMMA ClosesStep ==
    ASSUME FlightInv, Closes
    PROVE  FlightInv'
<1>1. CASE current = NoFlight
  BY <1>1, IdleStep DEF Closes, clients
<1>2. CASE current # NoFlight
  <2>1. PICK where :
          task' = [task EXCEPT ![current] = where]
    BY <1>2 DEF Closes
  <2>2. UNCHANGED <<current, pc>>
    BY DEF Closes, clients
  <2>3. QED
    BY <2>1, <2>2 DEF FlightInv, Shaped, TableNamesAlive, LookIsAlone, Alive
<1>3. QED
  BY <1>1, <1>2

\* Every step keeps the invariant.
LEMMA FlightStep == FlightInv /\ [FlightsNext]_flightVars => FlightInv'
<1> SUFFICES ASSUME FlightInv, [FlightsNext]_flightVars PROVE FlightInv'
  OBVIOUS
<1>1. ASSUME NEW c \in Clients, Enters(c) PROVE FlightInv'
  BY <1>1, EntersStep
<1>2. ASSUME NEW c \in Clients, FindsCached(c) PROVE FlightInv'
  BY <1>2, ClientMoves DEF FindsCached, flights
<1>3. ASSUME NEW c \in Clients, StartsFlight(c) PROVE FlightInv'
  BY <1>3, StartsFlightStep
<1>4. ASSUME NEW c \in Clients, Reads(c) PROVE FlightInv'
  <2>1. CASE pc' = pc
    BY <1>4, <2>1, IdleStep DEF Reads
  <2>2. CASE pc' = [pc EXCEPT ![c] = IF Head(queue[c]).kind = "done"
                                      THEN "complete" ELSE "failed"]
    BY <1>4, <2>2, ClientMoves DEF Reads
  <2>3. QED
    BY <1>4, <2>1, <2>2 DEF Reads
<1>5. ASSUME NEW c \in Clients, Departs(c) PROVE FlightInv'
  BY <1>5, ClientMoves DEF Departs
<1>6. ASSUME NEW f \in Flights, Starts(f) PROVE FlightInv'
  BY <1>6, FlightMoves DEF Starts, Alive, clients
<1>7. ASSUME NEW f \in Flights, Emits(f) PROVE FlightInv'
  BY <1>7, IdleStep DEF Emits
<1>8. ASSUME NEW f \in Flights, Produces(f) PROVE FlightInv'
  BY <1>8, FlightMoves DEF Produces, StreamEnds, StreamFails, Alive, clients
<1>9. ASSUME NEW f \in Flights, Stores(f) PROVE FlightInv'
  BY <1>9, FlightMoves DEF Stores, Alive, clients
<1>10. ASSUME NEW f \in Flights, Finishes(f) PROVE FlightInv'
  BY <1>10, FinishesStep
<1>11. ASSUME NEW f \in Flights, LateWrite(f) PROVE FlightInv'
  BY <1>11, IdleStep DEF LateWrite, clients
<1>12. CASE Closes
  BY <1>12, ClosesStep
<1>13. CASE Expires
  BY <1>13, IdleStep DEF Expires, clients
<1>14. CASE UNCHANGED flightVars
  BY <1>14, IdleStep DEF flightVars, flights, clients
<1>15. QED
  BY <1>1, <1>2, <1>3, <1>4, <1>5, <1>6, <1>7, <1>8, <1>9, <1>10, <1>11,
     <1>12, <1>13, <1>14 DEF FlightsNext

\* A request and its retries share one generation: whatever clients, worker
\* threads and close() do, no two flights of a key are ever at work.
THEOREM NeverTwice == FlightsSpec => []OneGeneration
<1>1. FlightInv => OneGeneration
  BY DEF FlightInv, TableNamesAlive, OneGeneration
<1>2. QED
  BY FlightInit, FlightStep, <1>1, PTL DEF FlightsSpec

-----------------------------------------------------------------------------
(* Queues *)

USE SizeAssumption

\* What a queue carries, and how its items are told apart.
LEMMA ItemTypes ==
    /\ \A n \in 1..MaxEvents : Event(n) \in Items
    /\ \A how \in Endings : Ending(how) \in Items /\ Ending(how).kind = how
    /\ Poison \in Items /\ Poison.kind = "behind"
    /\ \A n \in Nat : Event(n).kind = "event" /\ Event(n).n = n
    /\ \A item \in Items : item.kind = "event" => item.n \in 1..MaxEvents
    /\ Endings = {"done", "failed", "cancelled"}
BY DEF Items, Event, Ending, Poison, Endings

\* The first n events, as a queue.
LEMMA EventsType ==
    ASSUME NEW n \in 0..MaxEvents
    PROVE  /\ Events(n) \in Seq(Items)
           /\ Len(Events(n)) = n
           /\ \A i \in 1..n : Events(n)[i] = Event(i)
BY ItemTypes DEF Events

\* An offer is taken at the end, or poisons the queue.
LEMMA OfferType ==
    ASSUME NEW q \in Seq(Items), NEW item \in Items
    PROVE  /\ Offer(q, item) \in Seq(Items)
           /\ \/ /\ Len(q) = SubscriberQueue
                 /\ Offer(q, item) # <<>> /\ Head(Offer(q, item)) = Poison
              \/ /\ Offer(q, item) = Append(q, item)
                 /\ Len(q) # SubscriberQueue
BY ItemTypes DEF Offer

\* A replay is up to date, or poisoned.
LEMMA ReplaysType ==
    ASSUME NEW n \in 0..MaxEvents, NEW q \in Replays(n)
    PROVE  /\ q \in Seq(Items)
           /\ \/ Len(q) = n /\ \A i \in 1..n : q[i] = Event(i)
              \/ q # <<>> /\ Head(q) = Poison
<1>1. CASE q = Events(n)
  BY <1>1, EventsType
<1>2. ASSUME NEW k \in 0..SubscriberQueue - 1, NEW times \in 1..n,
             n = times * SubscriberQueue + 1 + k,
             q = <<Poison>> \o [i \in 1..k |-> Event(n - k + i)]
      PROVE  /\ q \in Seq(Items)
             /\ q # <<>> /\ Head(q) = Poison
  <2>1. \A i \in 1..k : Event(n - k + i) \in Items
    <3>1. n - k >= 0
      <4>1. PICK m \in Nat : m = times * SubscriberQueue
        OBVIOUS
      <4>2. n = m + 1 + k
        BY <1>2, <4>1
      <4>. QED  BY <4>2
    <3>. QED  BY <3>1, ItemTypes
  <2>2. [i \in 1..k |-> Event(n - k + i)] \in Seq(Items)
    BY <2>1
  <2>3. <<Poison>> \in Seq(Items)
    BY ItemTypes
  <2>. QED  BY <1>2, <2>2, <2>3
<1>. QED  BY <1>1, <1>2 DEF Replays

\* The two kinds of queue a replay leaves.
LEMMA ReplaysHas ==
    ASSUME NEW n \in Nat
    PROVE  /\ n <= SubscriberQueue => Events(n) \in Replays(n)
           /\ \A k \in 0..SubscriberQueue - 1, times \in 1..n :
                 n = times * SubscriberQueue + 1 + k
                 => <<Poison>> \o [i \in 1..k |-> Event(n - k + i)] \in Replays(n)
BY DEF Replays

\* Replays is what offering the events one by one leaves: nothing at first, and from each
\* queue it names the next offer leads to one that it names.
LEMMA ReplayIsOffered ==
    ASSUME NEW n \in 0..MaxEvents, NEW q \in Replays(n)
    PROVE  /\ Replays(0) = {<<>>}
           /\ Offer(q, Event(n + 1)) \in Replays(n + 1)
<1>1. Replays(0) = {<<>>}
  BY DEF Replays, Events
<1>. DEFINE next == n + 1
<1>0. next \in Nat /\ next = n + 1
  OBVIOUS
<1>. HIDE DEF next
<1>2. ASSUME q = Events(n), n <= SubscriberQueue
      PROVE  Offer(q, Event(next)) \in Replays(next)
  <2>1. CASE n = SubscriberQueue
    <3>1. Offer(q, Event(next)) = <<Poison>>
      BY <1>2, <2>1, EventsType DEF Offer
    <3>2. <<Poison>> = <<Poison>> \o [i \in 1..0 |-> Event(next - 0 + i)]
      OBVIOUS
    <3>3. 0 \in 0..SubscriberQueue - 1 /\ \E times \in 1..next : next = times * SubscriberQueue + 1 + 0
      BY <1>0, <2>1
    <3>. QED  BY <1>0, <3>1, <3>2, <3>3, ReplaysHas
  <2>2. CASE n < SubscriberQueue
    <3>1. Offer(q, Event(next)) = Append(Events(n), Event(next))
      BY <1>2, <2>2, EventsType DEF Offer
    <3>2. Append(Events(n), Event(next)) = Events(next)
      BY <1>0 DEF Events
    <3>3. Events(next) \in Replays(next)
      <4>1. next <= SubscriberQueue
        BY <1>0, <2>2
      <4>. QED  BY <1>0, <4>1, ReplaysHas
    <3>. QED  BY <1>2, <3>1, <3>2, <3>3
  <2>. QED  BY <1>2, <2>1, <2>2
<1>3. ASSUME NEW k \in 0..SubscriberQueue - 1, NEW times \in 1..n,
             n = times * SubscriberQueue + 1 + k,
             q = <<Poison>> \o [i \in 1..k |-> Event(n - k + i)]
      PROVE  Offer(q, Event(next)) \in Replays(next)
  <2>1. Len(q) = k + 1
    BY <1>3
  <2>2. CASE k = SubscriberQueue - 1
    <3>1. Offer(q, Event(next)) = <<Poison>>
      BY <2>1, <2>2 DEF Offer
    <3>2. <<Poison>> = <<Poison>> \o [i \in 1..0 |-> Event(next - 0 + i)]
      OBVIOUS
    <3>3. /\ 0 \in 0..SubscriberQueue - 1 /\ times + 1 \in 1..next
          /\ next = (times + 1) * SubscriberQueue + 1 + 0
      BY <1>0, <1>3, <2>2
    <3>. QED  BY <1>0, <3>1, <3>2, <3>3, ReplaysHas
  <2>3. CASE k < SubscriberQueue - 1
    <3>1. Offer(q, Event(next)) = Append(q, Event(next))
      BY <2>1, <2>3 DEF Offer
    <3>2. Append(q, Event(next)) =
          <<Poison>> \o [i \in 1..k + 1 |-> Event(next - (k + 1) + i)]
      <4>1. Append([i \in 1..k |-> Event(n - k + i)], Event(next)) =
            [i \in 1..k + 1 |-> Event(next - (k + 1) + i)]
        BY <1>0
      <4>2. ASSUME NEW S, NEW s \in Seq(S), NEW t \in Seq(S), NEW e \in S
            PROVE  Append(s \o t, e) = s \o Append(t, e)
        OBVIOUS
      <4>. DEFINE All == [kind : {"event", "behind"}, n : Nat]
                  old == [i \in 1..k |-> Event(n - k + i)]
      <4>3. n - k \in Nat
        <5>1. PICK m \in Nat : m = times * SubscriberQueue
          OBVIOUS
        <5>2. n = m + 1 + k
          BY <1>3, <5>1
        <5>. QED  BY <5>2
      <4>4. <<Poison>> \in Seq(All) /\ Event(next) \in All /\ old \in Seq(All)
        BY <1>0, <4>3 DEF Poison, Ending, Event
      <4>5. Append(<<Poison>> \o old, Event(next)) = <<Poison>> \o Append(old, Event(next))
        BY <4>2, <4>4
      <4>. QED  BY <1>3, <4>1, <4>5
    <3>3. /\ k + 1 \in 0..SubscriberQueue - 1 /\ times \in 1..next
          /\ next = times * SubscriberQueue + 1 + (k + 1)
      BY <1>0, <1>3, <2>3
    <3>. QED  BY <1>0, <3>1, <3>2, <3>3, ReplaysHas
  <2>. QED  BY <2>2, <2>3
<1>4. Offer(q, Event(next)) \in Replays(next)
  <2>1. \/ q = Events(n) /\ n <= SubscriberQueue
        \/ \E k \in 0..SubscriberQueue - 1, times \in 1..n :
              /\ n = times * SubscriberQueue + 1 + k
              /\ q = <<Poison>> \o [i \in 1..k |-> Event(n - k + i)]
    BY DEF Replays
  <2>. QED  BY <1>2, <1>3, <2>1
<1>. QED  BY <1>0, <1>1, <1>4

-----------------------------------------------------------------------------
(* The shape of the state *)

\* Publishing keeps the shape of the queues and of the subscriptions.
LEMMA PublishType ==
    ASSUME FlightsTypeOK, NEW f \in Flights, NEW item \in Items, PublishAll(f, item)
    PROVE  /\ queue' \in [Clients -> Seq(Items)]
           /\ subscribers' \in [Flights -> SUBSET Clients]
<1>1. \A c \in Clients : Offer(queue[c], item) \in Seq(Items)
  BY OfferType DEF FlightsTypeOK
<1>. QED  BY <1>1 DEF FlightsTypeOK, PublishAll

\* So does joining a flight.
LEMMA JoinsType ==
    ASSUME FlightsTypeOK, NEW c \in Clients, NEW f \in Flights, Joins(c, f)
    PROVE  /\ pc' \in [Clients -> {"idle", "looking", "waiting", "complete", "failed"}]
           /\ from' \in [Clients -> Flights \union {NoFlight}]
           /\ queue' \in [Clients -> Seq(Items)]
           /\ subscribers' \in [Flights -> SUBSET Clients]
<1>1. PICK q \in Replays(events[f]) : queue' = [queue EXCEPT ![c] = q]
  BY DEF Joins
<1>2. q \in Seq(Items)
  BY ReplaysType DEF FlightsTypeOK
<1>. QED  BY <1>1, <1>2 DEF FlightsTypeOK, Joins

\* The shape of the state is kept by what clients do.
LEMMA ClientTypes ==
    ASSUME FlightsTypeOK, NEW c \in Clients,
           Enters(c) \/ FindsCached(c) \/ StartsFlight(c) \/ Reads(c) \/ Departs(c)
    PROVE  FlightsTypeOK'
<1>1. CASE Enters(c)
  <2>1. CASE current # NoFlight /\ Joins(c, current)
    <3>1. current \in Flights
      BY <2>1 DEF FlightsTypeOK
    <3>. QED  BY <1>1, <2>1, <3>1, JoinsType DEF Enters, FlightsTypeOK
  <2>2. CASE /\ pc' = [pc EXCEPT ![c] = "looking"]
             /\ UNCHANGED <<from, queue, subscribers>>
    BY <1>1, <2>2 DEF Enters, FlightsTypeOK
  <2>. QED  BY <1>1, <2>1, <2>2 DEF Enters
<1>2. CASE FindsCached(c)
  <2>1. cache \in Flights /\ events[cache] \in 0..MaxEvents /\ "done" \in Endings
    BY <1>2 DEF FindsCached, FlightsTypeOK, Endings
  <2>2. Append(Events(events[cache]), Ending("done")) \in Seq(Items)
    BY <2>1, EventsType, ItemTypes
  <2>. QED  BY <1>2, <2>1, <2>2 DEF FindsCached, FlightsTypeOK, flights
<1>3. CASE StartsFlight(c)
  <2>1. PICK f \in Flights :
          current' = f /\ task' = [task EXCEPT ![f] = "created"] /\ Joins(c, f)
    BY <1>3 DEF StartsFlight
  <2>. QED  BY <1>3, <2>1, JoinsType DEF StartsFlight, FlightsTypeOK
<1>4. CASE Reads(c)
  <2>1. queue[c] \in Seq(Items) /\ queue[c] # <<>>
    BY <1>4 DEF Reads, FlightsTypeOK
  <2>2. Head(queue[c]) \in Items /\ Tail(queue[c]) \in Seq(Items)
    BY <2>1
  <2>3. queue' \in [Clients -> Seq(Items)]
    BY <1>4, <2>2 DEF Reads, FlightsTypeOK
  <2>4. CASE /\ Head(queue[c]).kind = "event"
             /\ seen' = [seen EXCEPT ![c] = Append(@, Head(queue[c]).n)]
             /\ UNCHANGED <<pc, subscribers>>
    <3>1. Head(queue[c]).n \in 1..MaxEvents
      BY <2>2, <2>4, ItemTypes
    <3>2. seen' \in [Clients -> Seq(1..MaxEvents)]
      BY <2>4, <3>1 DEF FlightsTypeOK
    <3>. QED  BY <1>4, <2>3, <2>4, <3>2 DEF Reads, FlightsTypeOK
  <2>5. CASE /\ pc' = [pc EXCEPT ![c] =
                          IF Head(queue[c]).kind = "done" THEN "complete" ELSE "failed"]
             /\ Unsubscribe(c)
             /\ UNCHANGED seen
    BY <1>4, <2>3, <2>5 DEF Reads, Unsubscribe, FlightsTypeOK
  <2>. QED  BY <1>4, <2>4, <2>5 DEF Reads
<1>5. CASE Departs(c)
  BY <1>5 DEF Departs, Unsubscribe, FlightsTypeOK
<1>. QED  BY <1>1, <1>2, <1>3, <1>4, <1>5

\* ... by what a flight's task does,
LEMMA FlightTypes ==
    ASSUME FlightsTypeOK, NEW f \in Flights,
           Starts(f) \/ Emits(f) \/ Produces(f) \/ Stores(f) \/ Finishes(f) \/ LateWrite(f)
    PROVE  FlightsTypeOK'
<1>1. CASE Starts(f)
  BY <1>1 DEF Starts, TaskGoes, FlightsTypeOK, clients
<1>2. CASE Emits(f)
  <2>1. CASE current = f
    <3>1. events[f] + 1 \in 1..MaxEvents
      BY <1>2 DEF Emits, FlightsTypeOK
    <3>2. Event(events[f] + 1) \in Items
      BY <3>1, ItemTypes
    <3>. QED  BY <1>2, <2>1, <3>1, <3>2, PublishType DEF Emits, FlightsTypeOK
  <2>2. CASE current # f
    BY <1>2, <2>2 DEF Emits, FlightsTypeOK
  <2>. QED  BY <2>1, <2>2
<1>3. CASE Produces(f)
  <2>1. "failed" \in Endings
    BY DEF Endings
  <2>2. CASE StreamEnds(f)
    BY <2>2 DEF StreamEnds, TaskGoes, FlightsTypeOK, clients
  <2>3. CASE StreamFails(f)
    BY <2>1, <2>3 DEF StreamFails, TaskGoes, FlightsTypeOK, clients
  <2>. QED  BY <1>3, <2>2, <2>3 DEF Produces
<1>4. CASE Stores(f)
  BY <1>4 DEF Stores, TaskGoes, FlightsTypeOK, clients
<1>5. CASE Finishes(f)
  <2>1. CASE current = f
    <3>1. Ending(terminal[f]) \in Items
      BY ItemTypes DEF FlightsTypeOK
    <3>. QED  BY <1>5, <2>1, <3>1, PublishType DEF Finishes, TaskGoes, FlightsTypeOK
  <2>2. CASE current # f
    BY <1>5, <2>2 DEF Finishes, TaskGoes, FlightsTypeOK
  <2>. QED  BY <2>1, <2>2
<1>6. CASE LateWrite(f)
  BY <1>6 DEF LateWrite, FlightsTypeOK, clients
<1>. QED  BY <1>1, <1>2, <1>3, <1>4, <1>5, <1>6

\* ... and by what becomes of the runtime and of the store.
LEMMA RestTypes ==
    ASSUME FlightsTypeOK, Closes \/ Expires \/ UNCHANGED flightVars
    PROVE  FlightsTypeOK'
<1>1. CASE Closes
  <2>1. CASE current = NoFlight
    BY <1>1, <2>1 DEF Closes, FlightsTypeOK, clients
  <2>2. CASE current # NoFlight
    <3>1. current \in Flights
      BY <2>2 DEF FlightsTypeOK
    <3>2. PICK where \in {"lost", "ending"}, told \in Endings, more \in SUBSET Flights :
            /\ task' = [task EXCEPT ![current] = where]
            /\ terminal' = [terminal EXCEPT ![current] = told]
            /\ writing' = more
      <4>1. terminal[current] \in Endings /\ "cancelled" \in Endings
        BY <3>1 DEF FlightsTypeOK, Endings
      <4>2. writing \subseteq Flights /\ writing \union {current} \subseteq Flights
        BY <3>1 DEF FlightsTypeOK
      <4>. QED  BY <1>1, <2>2, <4>1, <4>2 DEF Closes
    <3>. QED  BY <1>1, <3>1, <3>2 DEF Closes, FlightsTypeOK, clients
  <2>. QED  BY <2>1, <2>2
<1>2. CASE Expires
  BY <1>2 DEF Expires, FlightsTypeOK, clients
<1>3. CASE UNCHANGED flightVars
  BY <1>3 DEF flightVars, flights, clients, FlightsTypeOK
<1>. QED  BY <1>1, <1>2, <1>3

-----------------------------------------------------------------------------
(* What is known of the flights *)

\* The table names a flight that is at work, or one that close() lost; and what is known
\* of a stream is known for good: a flight whose stream ended by itself publishes no
\* more, and only such a flight says "done" or is cached.
FlightsKnown ==
    /\ current # NoFlight => Alive(current) \/ closed
    /\ current # NoFlight => task[current] # "none"
    /\ \A f \in whole : task[f] \in {"storing", "ending", "over"}
    /\ \A f \in Flights : task[f] = "storing" => f \in whole
    /\ \A f \in Flights : task[f] = "ending" /\ terminal[f] = "done" => f \in whole
    /\ cache # NoFlight => cache \in whole
    /\ writing \subseteq whole

\* What a step may do to the flights: streams that ended by themselves stay whole as
\* they are, and a flight that was begun stays so.
Grows ==
    /\ whole \subseteq whole'
    /\ \A f \in whole : events'[f] = events[f]
    /\ \A f \in Flights : task[f] # "none" => task'[f] # "none"

\* Every step lets the flights grow, and keeps what is known of them.
LEMMA KnownStep ==
    ASSUME FlightsTypeOK, FlightInv, FlightsKnown, [FlightsNext]_flightVars
    PROVE  FlightsKnown' /\ Grows
<1>1. ASSUME UNCHANGED <<current, cache, task, terminal, writing, closed, whole>>,
             \A f \in whole : events'[f] = events[f]
      PROVE  FlightsKnown' /\ Grows
  BY <1>1 DEF FlightsKnown, Grows, Alive
<1>2. ASSUME NEW c \in Clients,
             Enters(c) \/ FindsCached(c) \/ StartsFlight(c) \/ Reads(c) \/ Departs(c)
      PROVE  FlightsKnown' /\ Grows
  <2>1. CASE Enters(c) \/ FindsCached(c) \/ Reads(c) \/ Departs(c)
    BY <1>1, <2>1 DEF Enters, FindsCached, Reads, Departs, flights
  <2>2. CASE StartsFlight(c)
    <3>1. PICK f \in Flights :
            task[f] = "none" /\ current' = f /\ task' = [task EXCEPT ![f] = "created"]
      BY <2>2 DEF StartsFlight
    <3>2. UNCHANGED <<cache, events, terminal, writing, closed, whole>>
      BY <2>2 DEF StartsFlight
    <3>. QED  BY <3>1, <3>2 DEF FlightsKnown, Grows, Alive, FlightsTypeOK
  <2>. QED  BY <1>2, <2>1, <2>2
<1>3. ASSUME NEW f \in Flights, Starts(f)
      PROVE  FlightsKnown' /\ Grows
  BY <1>3 DEF Starts, TaskGoes, FlightsKnown, Grows, Alive, FlightsTypeOK
<1>4. ASSUME NEW f \in Flights, Emits(f)
      PROVE  FlightsKnown' /\ Grows
  <2>1. f \notin whole
    BY <1>4 DEF Emits, FlightsKnown
  <2>2. \A g \in whole : events'[g] = events[g]
    BY <1>4, <2>1 DEF Emits, FlightsTypeOK
  <2>. QED  BY <1>1, <1>4, <2>2 DEF Emits
<1>5. ASSUME NEW f \in Flights, StreamEnds(f)
      PROVE  FlightsKnown' /\ Grows
  BY <1>5 DEF StreamEnds, TaskGoes, FlightsKnown, Grows, Alive, FlightsTypeOK
<1>6. ASSUME NEW f \in Flights, StreamFails(f)
      PROVE  FlightsKnown' /\ Grows
  BY <1>6 DEF StreamFails, TaskGoes, FlightsKnown, Grows, Alive, FlightsTypeOK
<1>7. ASSUME NEW f \in Flights, Stores(f)
      PROVE  FlightsKnown' /\ Grows
  BY <1>7 DEF Stores, TaskGoes, FlightsKnown, Grows, Alive, FlightsTypeOK
<1>8. ASSUME NEW f \in Flights, Finishes(f)
      PROVE  FlightsKnown' /\ Grows
  <2>1. current = f
    BY <1>8 DEF Finishes, FlightInv, TableNamesAlive, Alive
  <2>2. current' = NoFlight
    BY <1>8, <2>1 DEF Finishes
  <2>. QED  BY <1>8, <2>2 DEF Finishes, TaskGoes, FlightsKnown, Grows, FlightsTypeOK
<1>9. ASSUME NEW f \in Flights, LateWrite(f)
      PROVE  FlightsKnown' /\ Grows
  BY <1>9 DEF LateWrite, FlightsKnown, Grows, Alive, FlightsTypeOK
<1>10. CASE Closes
  <2>1. CASE current = NoFlight
    BY <1>10, <2>1 DEF Closes, FlightsKnown, Grows
  <2>2. CASE current # NoFlight
    <3>1. current \in Flights /\ Alive(current)
      BY <1>10, <2>2 DEF FlightsTypeOK, Closes, FlightsKnown
    <3>2. /\ task' = [task EXCEPT ![current] =
                IF task[current] = "created" THEN "lost" ELSE "ending"]
          /\ terminal' = [terminal EXCEPT ![current] =
                IF task[current] \in {"running", "storing"} THEN "cancelled" ELSE @]
          /\ writing' = IF task[current] = "storing"
                        THEN writing \union {current} ELSE writing
          /\ closed'
          /\ UNCHANGED <<current, cache, events, whole>>
      BY <1>10, <2>2 DEF Closes
    <3>3. \A f \in whole : task'[f] \in {"storing", "ending", "over"}
      BY <3>1, <3>2 DEF FlightsKnown, FlightsTypeOK
    <3>4. writing' \subseteq whole
      BY <3>1, <3>2 DEF FlightsKnown
    <3>5. \A f \in Flights : task'[f] = "storing" => f \in whole
      BY <3>1, <3>2 DEF FlightsKnown, FlightsTypeOK
    <3>6. \A f \in Flights : task'[f] = "ending" /\ terminal'[f] = "done" => f \in whole
      BY <3>1, <3>2 DEF FlightsKnown, FlightsTypeOK, Alive
    <3>7. Grows
      BY <3>1, <3>2 DEF Grows, FlightsTypeOK
    <3>. QED  BY <3>2, <3>3, <3>4, <3>5, <3>6, <3>7 DEF FlightsKnown
  <2>. QED  BY <2>1, <2>2
<1>11. CASE Expires
  BY <1>11 DEF Expires, FlightsKnown, Grows, Alive, FlightsTypeOK
<1>12. CASE UNCHANGED flightVars
  BY <1>1, <1>12 DEF flightVars, flights
<1>. QED  BY <1>2, <1>3, <1>4, <1>5, <1>6, <1>7, <1>8, <1>9, <1>10, <1>11, <1>12
          DEF FlightsNext, Produces

-----------------------------------------------------------------------------
(* What a client is sent *)

\* A queue that lost events says so before anything else.
Poisoned(c) == queue[c] # <<>> /\ Head(queue[c]) = Poison

\* The first n items of a queue continue what its client has been sent.
Continues(c, n) == \A i \in 1..n : queue[c][i] = Event(Len(seen[c]) + i)

\* A queue that holds what its flight has published and its client was not sent yet.
UpToDate(c) ==
    /\ Continues(c, Len(queue[c]))
    /\ Len(seen[c]) + Len(queue[c]) = events[from[c]]

\* A queue that ends: if well, then with the whole of a stream that ended by itself.
Closing(c) ==
    /\ queue[c] # <<>>
    /\ Continues(c, Len(queue[c]) - 1)
    /\ \E how \in Endings :
          /\ queue[c][Len(queue[c])] = Ending(how)
          /\ how = "done" =>
                /\ from[c] \in whole
                /\ Len(seen[c]) + Len(queue[c]) - 1 = events[from[c]]

\* What a client was sent is a beginning of the reply, and all of it if it was told so.
Sent(c) ==
    /\ \A i \in 1..Len(seen[c]) : seen[c][i] = i
    /\ pc[c] \in {"idle", "looking"} => seen[c] = <<>>
    /\ pc[c] = "complete" => from[c] \in whole /\ Len(seen[c]) = events[from[c]]

\* A client that waits will be told that it fell behind, or of the end, or subscribes to
\* the flight in the table and is up to date.
ServedRight(c) ==
    /\ pc[c] = "waiting" =>
          \/ Poisoned(c)
          \/ Closing(c)
          \/ \E f \in Flights : current = f /\ c \in subscribers[f] /\ UpToDate(c)
    /\ \A f \in Flights : c \in subscribers[f] =>
          /\ from[c] = f /\ pc[c] = "waiting" /\ task[f] # "none"
          /\ current = f => Poisoned(c) \/ UpToDate(c)

ServiceInv == FlightsTypeOK /\ FlightInv /\ FlightsKnown /\ \A c \in Clients : Sent(c) /\ ServedRight(c)

\* A client that a step does not touch.
Undisturbed(c) ==
    /\ pc'[c] = pc[c] /\ from'[c] = from[c] /\ queue'[c] = queue[c] /\ seen'[c] = seen[c]
    /\ \A f \in Flights : c \in subscribers'[f] <=> c \in subscribers[f]

\* Nobody is served worse by what does not touch him, as long as the flight in the table
\* stays as it is, or he subscribes to none in the table.
LEMMA UndisturbedIsServed ==
    ASSUME FlightsTypeOK, FlightsTypeOK', Grows, NEW c \in Clients, Sent(c), ServedRight(c), Undisturbed(c),
           \/ current' = current /\ \A f \in Flights : events'[f] = events[f]
           \/ \A f \in Flights : f \in {current, current'} => c \notin subscribers[f]
    PROVE  Sent(c)' /\ ServedRight(c)'
<1>1. from[c] \in whole => from[c] \in whole' /\ events'[from[c]] = events[from[c]]
  BY DEF Grows
<1>2. /\ Len(seen'[c]) = Len(seen[c]) /\ Len(queue'[c]) = Len(queue[c])
      /\ Poisoned(c) => Poisoned(c)'
      /\ \A n \in Nat : Continues(c, n) => Continues(c, n)'
  BY DEF Undisturbed, Poisoned, Continues
<1>3. Sent(c)'
  BY <1>1, <1>2 DEF Sent, Undisturbed
<1>4. Closing(c) => Closing(c)'
  <2>1. SUFFICES ASSUME Closing(c) PROVE Closing(c)'
    OBVIOUS
  <2>2. Len(queue[c]) - 1 \in Nat
    BY <2>1 DEF Closing, FlightsTypeOK
  <2>. QED  BY <1>1, <1>2, <2>1, <2>2 DEF Closing, Undisturbed
<1>5. CASE current' = current /\ \A f \in Flights : events'[f] = events[f]
  <2>1. ASSUME NEW f \in Flights, from[c] = f, UpToDate(c)
        PROVE  UpToDate(c)'
    <3>1. Len(queue[c]) \in Nat
      BY DEF FlightsTypeOK
    <3>. QED  BY <1>2, <1>5, <2>1, <3>1 DEF UpToDate, Undisturbed
  <2>2. ASSUME NEW f \in Flights, c \in subscribers'[f]
        PROVE  /\ from'[c] = f /\ pc'[c] = "waiting" /\ task'[f] # "none"
               /\ current' = f => Poisoned(c)' \/ UpToDate(c)'
    <3>1. c \in subscribers[f]
      BY <2>2 DEF Undisturbed
    <3>2. /\ from[c] = f /\ pc[c] = "waiting" /\ task[f] # "none"
          /\ current = f => Poisoned(c) \/ UpToDate(c)
      BY <3>1 DEF ServedRight
    <3>. QED  BY <1>2, <1>5, <2>1, <3>2 DEF Grows, Undisturbed
  <2>3. ASSUME pc'[c] = "waiting"
        PROVE  \/ Poisoned(c)'
               \/ Closing(c)'
               \/ \E f \in Flights : current' = f /\ c \in subscribers'[f] /\ UpToDate(c)'
    <3>1. pc[c] = "waiting"
      BY <2>3 DEF Undisturbed
    <3>2. CASE Poisoned(c) \/ Closing(c)
      BY <1>2, <1>4, <3>2
    <3>3. ASSUME NEW f \in Flights, current = f, c \in subscribers[f], UpToDate(c)
          PROVE  current' = f /\ c \in subscribers'[f] /\ UpToDate(c)'
      BY <1>5, <2>1, <3>3 DEF ServedRight, Undisturbed
    <3>. QED  BY <3>1, <3>2, <3>3 DEF ServedRight
  <2>. QED  BY <1>3, <2>2, <2>3 DEF ServedRight
<1>6. CASE \A f \in Flights : f \in {current, current'} => c \notin subscribers[f]
  <2>1. pc[c] = "waiting" => Poisoned(c) \/ Closing(c)
    BY <1>6 DEF ServedRight
  <2>2. ASSUME NEW f \in Flights, c \in subscribers'[f]
        PROVE  /\ from'[c] = f /\ pc'[c] = "waiting" /\ task'[f] # "none"
               /\ current' # f
    <3>1. c \in subscribers[f]
      BY <2>2 DEF Undisturbed
    <3>2. from[c] = f /\ pc[c] = "waiting" /\ task[f] # "none"
      BY <3>1 DEF ServedRight
    <3>. QED  BY <1>6, <3>1, <3>2 DEF Grows, Undisturbed
  <2>3. pc'[c] = "waiting" => Poisoned(c)' \/ Closing(c)'
    BY <1>2, <1>4, <2>1 DEF Undisturbed
  <2>. QED  BY <1>3, <2>2, <2>3 DEF ServedRight
<1>. QED  BY <1>5, <1>6

\* A client that joins is up to date, or poisoned.
LEMMA JoinsServed ==
    ASSUME FlightsTypeOK, NEW c \in Clients, Sent(c), ServedRight(c), pc[c] \in {"idle", "looking"},
           NEW f \in Flights, Joins(c, f), current' = f, task'[f] # "none",
           UNCHANGED <<seen, events>>
    PROVE  Sent(c)' /\ ServedRight(c)'
<1>1. PICK q \in Replays(events[f]) : queue' = [queue EXCEPT ![c] = q]
  BY DEF Joins
<1>2. /\ q \in Seq(Items) /\ events[f] \in 0..MaxEvents
      /\ \/ Len(q) = events[f] /\ \A i \in 1..events[f] : q[i] = Event(i)
         \/ q # <<>> /\ Head(q) = Poison
  BY ReplaysType DEF FlightsTypeOK
<1>3. /\ pc'[c] = "waiting" /\ from'[c] = f /\ queue'[c] = q
      /\ seen'[c] = <<>> /\ events'[f] = events[f]
      /\ \A g \in Flights : c \in subscribers'[g] => g = f \/ c \in subscribers[g]
      /\ c \in subscribers'[f]
  BY <1>1 DEF Joins, FlightsTypeOK, Sent
<1>4. \A g \in Flights : c \notin subscribers[g]
  BY DEF ServedRight
<1>5. Poisoned(c)' \/ UpToDate(c)'
  BY <1>2, <1>3 DEF Poisoned, UpToDate, Continues
<1>6. Sent(c)'
  BY <1>3 DEF Sent
<1>. QED  BY <1>3, <1>4, <1>5, <1>6 DEF ServedRight

\* A client that joins leaves the others' queues and subscriptions alone.
LEMMA JoinsLeavesOthers ==
    ASSUME FlightsTypeOK, NEW c \in Clients, NEW f \in Flights, Joins(c, f), seen' = seen,
           NEW d \in Clients \ {c}
    PROVE  Undisturbed(d)
<1>1. PICK q : queue' = [queue EXCEPT ![c] = q]
  BY DEF Joins
<1>. QED  BY <1>1 DEF Joins, Undisturbed, FlightsTypeOK

\* So does one that unsubscribes.
LEMMA UnsubscribeLeavesOthers ==
    ASSUME FlightsTypeOK, NEW c \in Clients, Unsubscribe(c) \/ subscribers' = subscribers,
           NEW where, NEW whence, NEW q, NEW s,
           pc' = [pc EXCEPT ![c] = where], from' = [from EXCEPT ![c] = whence],
           queue' = [queue EXCEPT ![c] = q], seen' = [seen EXCEPT ![c] = s],
           NEW d \in Clients \ {c}
    PROVE  Undisturbed(d)
BY DEF Unsubscribe, Undisturbed, FlightsTypeOK

\* What a client is sent when it reads: the next event, or how its stream ended.
LEMMA ReadsServed ==
    ASSUME FlightsTypeOK, NEW c \in Clients, Sent(c), ServedRight(c), Reads(c)
    PROVE  Sent(c)' /\ ServedRight(c)'
<1>. DEFINE q == queue[c]
            k == Len(seen[c])
            m == Len(queue[c])
            item == Head(queue[c])
<1>1. /\ pc[c] = "waiting" /\ q # <<>> /\ q \in Seq(Items)
      /\ seen[c] \in Seq(1..MaxEvents)
      /\ UNCHANGED <<current, task, events, whole, from>>
      /\ queue'[c] = Tail(q)
  BY DEF Reads, FlightsTypeOK
<1>2. m \in Nat \ {0} /\ k \in Nat
  BY <1>1
<1>3. /\ item = q[1] /\ item \in Items
      /\ Len(queue'[c]) = m - 1
      /\ \A i \in 1..m - 1 : queue'[c][i] = q[i + 1]
  BY <1>1
<1>4. UpToDate(c) => /\ \A i \in 1..m : q[i] = Event(k + i)
                     /\ k + m = events[from[c]]
  BY DEF UpToDate, Continues
<1>5. Closing(c) => /\ \A i \in 1..m - 1 : q[i] = Event(k + i)
                    /\ \E how \in Endings :
                          /\ q[m] = Ending(how)
                          /\ how = "done" => from[c] \in whole /\ k + m - 1 = events[from[c]]
  BY DEF Closing, Continues
<1>. HIDE DEF q, k, m, item
<1>6. item.kind = "behind" \/ ~Poisoned(c)
  BY ItemTypes DEF Poisoned, item
<1>7. Poisoned(c) \/ Closing(c) \/ UpToDate(c)
  BY <1>1 DEF ServedRight
<1>8. CASE item.kind = "event"
  <2>1. ~Poisoned(c)
    BY <1>6, <1>8
  <2>2. Closing(c) => m # 1
    <3>1. \A how \in Endings : Ending(how).kind # "event"
      BY ItemTypes
    <3>. QED  BY <1>3, <1>5, <1>8, <3>1
  <2>3. item = Event(k + 1)
    <3>1. 1 \in 1..m /\ (m # 1 => 1 \in 1..m - 1)
      BY <1>2
    <3>. QED  BY <1>3, <1>4, <1>5, <1>7, <2>1, <2>2, <3>1
  <2>4. item.n = k + 1
    BY <1>2, <2>3, ItemTypes
  <2>5. seen' = [seen EXCEPT ![c] = Append(seen[c], item.n)] /\ UNCHANGED <<pc, subscribers>>
    BY <1>8 DEF Reads, item
  <2>6. seen'[c] = Append(seen[c], k + 1)
    BY <2>4, <2>5 DEF FlightsTypeOK
  <2>7. /\ Len(seen'[c]) = k + 1
        /\ \A i \in 1..k : seen'[c][i] = seen[c][i]
        /\ seen'[c][k + 1] = k + 1
    BY <1>1, <2>6 DEF k
  <2>8. ASSUME NEW n \in 1..m, \A i \in 1..n : q[i] = Event(k + i)
        PROVE  \A i \in 1..n - 1 : queue'[c][i] = Event(Len(seen'[c]) + i)
    <3>1. ASSUME NEW i \in 1..n - 1
          PROVE  queue'[c][i] = Event(Len(seen'[c]) + i)
      <4>1. i \in 1..m - 1 /\ i + 1 \in 1..n /\ k + (i + 1) = (k + 1) + i
        BY <1>2
      <4>. QED  BY <1>3, <2>7, <2>8, <4>1
    <3>. QED  BY <3>1
  <2>9. UpToDate(c) => UpToDate(c)'
    <3>1. SUFFICES ASSUME UpToDate(c) PROVE UpToDate(c)'
      OBVIOUS
    <3>2. m \in 1..m /\ (k + 1) + (m - 1) = k + m
      BY <1>2
    <3>3. \A i \in 1..m - 1 : queue'[c][i] = Event(Len(seen'[c]) + i)
      BY <1>4, <2>8, <3>1, <3>2
    <3>. QED  BY <1>1, <1>3, <1>4, <2>7, <3>1, <3>2, <3>3 DEF UpToDate, Continues
  <2>10. Closing(c) => Closing(c)'
    <3>1. SUFFICES ASSUME Closing(c) PROVE Closing(c)'
      OBVIOUS
    <3>2. m - 1 \in 1..m /\ m - 1 \in 1..m - 1 /\ (m - 1) + 1 = m
          /\ (k + 1) + (m - 1) - 1 = k + m - 1
      BY <1>2, <2>2, <3>1
    <3>3. \A i \in 1..Len(queue'[c]) - 1 : queue'[c][i] = Event(Len(seen'[c]) + i)
      <4>1. \A i \in 1..m - 1 : q[i] = Event(k + i)
        BY <1>5, <3>1
      <4>2. \A i \in 1..(m - 1) - 1 : queue'[c][i] = Event(Len(seen'[c]) + i)
        BY <2>8, <3>2, <4>1
      <4>. QED  BY <1>3, <4>2
    <3>4. queue'[c] # <<>> /\ queue'[c][Len(queue'[c])] = q[m]
      <4>1. Len(queue'[c]) \in 1..m - 1
        BY <1>3, <3>2
      <4>2. Len(<<>>) = 0
        OBVIOUS
      <4>. QED  BY <1>2, <1>3, <3>2, <4>1, <4>2
    <3>5. PICK how \in Endings :
            /\ q[m] = Ending(how)
            /\ how = "done" => from[c] \in whole /\ k + m - 1 = events[from[c]]
      BY <1>5, <3>1
    <3>6. /\ queue'[c][Len(queue'[c])] = Ending(how)
          /\ how = "done" =>
                /\ from'[c] \in whole'
                /\ Len(seen'[c]) + Len(queue'[c]) - 1 = events'[from'[c]]
      BY <1>1, <1>3, <2>7, <3>2, <3>4, <3>5
    <3>. QED  BY <3>3, <3>4, <3>6 DEF Closing, Continues
  <2>11. Sent(c)'
    <3>1. ASSUME NEW i \in 1..Len(seen'[c])
          PROVE  seen'[c][i] = i
      <4>1. i \in 1..k \/ i = k + 1
        BY <1>2, <2>7
      <4>2. \A j \in 1..k : seen[c][j] = j
        BY DEF Sent, k
      <4>. QED  BY <2>7, <4>1, <4>2
    <3>. QED  BY <1>1, <2>5, <3>1 DEF Sent
  <2>12. ServedRight(c)'
    BY <1>1, <2>1, <2>5, <2>9, <2>10 DEF ServedRight
  <2>. QED  BY <2>11, <2>12
<1>9. CASE item.kind # "event"
  <2>1. /\ pc' = [pc EXCEPT ![c] = IF item.kind = "done" THEN "complete" ELSE "failed"]
        /\ Unsubscribe(c)
        /\ seen' = seen
    BY <1>9 DEF Reads, item
  <2>2. pc'[c] = IF item.kind = "done" THEN "complete" ELSE "failed"
    BY <2>1 DEF FlightsTypeOK
  <2>3. \A f \in Flights : c \notin subscribers'[f]
    BY <2>1 DEF Unsubscribe
  <2>4. ASSUME item.kind = "done"
        PROVE  from[c] \in whole /\ k = events[from[c]]
    <3>1. q[1].kind = "done" /\ ~Poisoned(c)
      BY <1>3, <1>6, <2>4
    <3>2. q[1] # Event(k + 1)
      BY <1>2, <3>1, ItemTypes
    <3>3. Closing(c) /\ m = 1
      <4>1. 1 \in 1..m /\ (m # 1 => 1 \in 1..m - 1)
        BY <1>2
      <4>. QED  BY <1>4, <1>5, <1>7, <3>1, <3>2, <4>1
    <3>4. PICK how \in Endings :
            /\ q[m] = Ending(how)
            /\ how = "done" => from[c] \in whole /\ k + m - 1 = events[from[c]]
      BY <1>5, <3>3
    <3>5. how = "done"
      BY <3>1, <3>3, <3>4, ItemTypes
    <3>. QED  BY <1>2, <3>3, <3>4, <3>5
  <2>5. Sent(c)'
    BY <1>1, <2>1, <2>2, <2>4 DEF Sent, k
  <2>6. ServedRight(c)'
    BY <2>2, <2>3 DEF ServedRight
  <2>. QED  BY <2>5, <2>6
<1>. QED  BY <1>8, <1>9

\* Publishing serves whoever subscribes to the flight in the table: each is sent the
\* event or the ending after all the events before, or is told that it fell behind.
LEMMA PublishServes ==
    ASSUME FlightsTypeOK, FlightsTypeOK', Grows, NEW f \in Flights, current = f,
           NEW item \in Items, PublishAll(f, item), UNCHANGED <<pc, from, seen>>,
           \/ /\ current' = f /\ events' = [events EXCEPT ![f] = @ + 1]
              /\ item = Event(events[f] + 1)
           \/ /\ current' = NoFlight /\ events' = events /\ whole' = whole
              /\ item = Ending(terminal[f]) /\ (terminal[f] = "done" => f \in whole),
           NEW c \in Clients, Sent(c), ServedRight(c)
    PROVE  Sent(c)' /\ ServedRight(c)'
<1>1. /\ subscribers' = [subscribers EXCEPT ![f] =
             @ \ {d \in subscribers[f] : Len(queue[d]) = SubscriberQueue}]
      /\ queue'[c] = IF c \in subscribers[f] THEN Offer(queue[c], item) ELSE queue[c]
      /\ pc'[c] = pc[c] /\ from'[c] = from[c] /\ seen'[c] = seen[c]
  BY DEF PublishAll
<1>2. CASE c \notin subscribers[f]
  <2>1. Undisturbed(c)
    BY <1>1, <1>2 DEF Undisturbed, FlightsTypeOK
  <2>2. \A g \in Flights : g \in {current, current'} => c \notin subscribers[g]
    BY <1>2 DEF Flights, NoFlight
  <2>. QED  BY <2>1, <2>2, UndisturbedIsServed
<1>3. CASE c \in subscribers[f]
  <2>1. /\ from[c] = f /\ pc[c] = "waiting" /\ task'[f] # "none"
        /\ Poisoned(c) \/ UpToDate(c)
    BY <1>3 DEF ServedRight, Grows
  <2>2. \A g \in Flights : c \in subscribers'[g] => g = f
    BY <1>1, <1>3 DEF ServedRight, FlightsTypeOK
  <2>3. Sent(c)'
    BY <1>1, <2>1 DEF Sent
  <2>. DEFINE q == queue[c]
              q1 == queue'[c]
              k == Len(seen[c])
              m == Len(queue[c])
  <2>4. /\ q \in Seq(Items) /\ q1 = Offer(q, item)
        /\ m \in Nat /\ k \in Nat /\ m = Len(q)
        /\ events[f] \in Nat
    BY <1>1, <1>3 DEF FlightsTypeOK
  <2>5. CASE m = SubscriberQueue
    <3>1. Poisoned(c)'
      BY <2>4, <2>5, OfferType DEF Poisoned
    <3>2. \A g \in Flights : c \notin subscribers'[g]
      BY <1>1, <1>3, <2>2, <2>5 DEF FlightsTypeOK
    <3>. QED  BY <2>3, <3>1, <3>2 DEF ServedRight
  <2>6. CASE m # SubscriberQueue
    <3>1. q1 = Append(q, item)
      BY <2>4, <2>6 DEF Offer
    <3>2. /\ Len(q1) = m + 1 /\ q1 # <<>> /\ q1[m + 1] = item
          /\ \A i \in 1..m : q1[i] = q[i]
          /\ q # <<>> => Head(q1) = Head(q)
      <4>1. /\ Len(q1) = m + 1 /\ q1[m + 1] = item /\ q1 \in Seq(Items)
            /\ \A i \in 1..m : q1[i] = q[i]
        BY <2>4, <3>1
      <4>2. q1 # <<>>
        BY <2>4, <4>1
      <4>3. q # <<>> => m >= 1 /\ Head(q) = q[1] /\ Head(q1) = q1[1]
        BY <2>4, <4>1
      <4>. QED  BY <2>4, <4>1, <4>2, <4>3
    <3>3. c \in subscribers'[f]
      BY <1>1, <1>3, <2>6 DEF FlightsTypeOK
    <3>4. CASE Poisoned(c)
      <4>1. Poisoned(c)'
        BY <3>2, <3>4 DEF Poisoned
      <4>. QED  BY <1>1, <2>1, <2>2, <2>3, <4>1 DEF ServedRight
    <3>5. CASE UpToDate(c)
      <4>1. k + m = events[f] /\ \A i \in 1..m : q[i] = Event(k + i)
        BY <2>1, <3>5 DEF UpToDate, Continues
      <4>2. Len(seen'[c]) = k /\ from'[c] = f
        BY <1>1, <2>1
      <4>. HIDE DEF q, q1, k, m
      <4>3. \A i \in 1..m : q1[i] = Event(k + i)
        BY <3>2, <4>1
      <4>4. CASE /\ current' = f /\ events' = [events EXCEPT ![f] = @ + 1]
                 /\ item = Event(events[f] + 1)
        <5>1. events'[f] = events[f] + 1
          BY <4>4 DEF FlightsTypeOK
        <5>2. k + (m + 1) = events'[f] /\ item = Event(k + (m + 1))
          BY <2>4, <4>1, <4>4, <5>1
        <5>3. \A i \in 1..m + 1 : q1[i] = Event(k + i)
          <6>1. \A i \in 1..m + 1 : i \in 1..m \/ i = m + 1
            BY <2>4
          <6>. QED  BY <3>2, <4>3, <5>2, <6>1
        <5>4. UpToDate(c)'
          BY <3>2, <4>2, <5>2, <5>3 DEF UpToDate, Continues, q1
        <5>. QED  BY <1>1, <2>1, <2>2, <2>3, <3>3, <4>4, <5>4 DEF ServedRight
      <4>5. CASE /\ current' = NoFlight /\ events' = events /\ whole' = whole
                 /\ item = Ending(terminal[f]) /\ (terminal[f] = "done" => f \in whole)
        <5>1. (m + 1) - 1 = m /\ k + (m + 1) - 1 = k + m /\ terminal[f] \in Endings
          BY <2>4 DEF FlightsTypeOK
        <5>2. Closing(c)'
          <6>1. \A i \in 1..Len(q1) - 1 : q1[i] = Event(k + i)
            BY <3>2, <4>3, <5>1
          <6>2. terminal[f] = "done" =>
                  from'[c] \in whole' /\ Len(seen'[c]) + Len(q1) - 1 = events'[from'[c]]
            BY <3>2, <4>1, <4>2, <4>5, <5>1
          <6>3. q1[Len(q1)] = Ending(terminal[f])
            BY <3>2, <4>5
          <6>. QED  BY <3>2, <4>2, <5>1, <6>1, <6>2, <6>3 DEF Closing, Continues, q1
        <5>3. \A g \in Flights : current' # g
          BY <4>5 DEF Flights, NoFlight
        <5>. QED  BY <1>1, <2>1, <2>2, <2>3, <5>2, <5>3 DEF ServedRight
      <4>. QED  BY <4>4, <4>5
    <3>. QED  BY <2>1, <3>4, <3>5
  <2>. QED  BY <2>5, <2>6
<1>. QED  BY <1>2, <1>3

\* A client that finds the reply in the cache is served all of it.
LEMMA CachedServed ==
    ASSUME FlightsTypeOK, FlightsKnown, NEW c \in Clients, Sent(c), ServedRight(c), FindsCached(c)
    PROVE  Sent(c)' /\ ServedRight(c)'
<1>. DEFINE n == events[cache]
            q == queue'[c]
<1>1. /\ pc[c] = "looking" /\ cache \in Flights /\ cache \in whole
      /\ UNCHANGED <<subscribers, events, whole, seen>>
  BY DEF FindsCached, FlightsTypeOK, FlightsKnown, flights
<1>2. /\ pc'[c] = "waiting" /\ from'[c] = cache
      /\ queue'[c] = Append(Events(n), Ending("done"))
  BY DEF FindsCached, FlightsTypeOK
<1>3. n \in 0..MaxEvents /\ "done" \in Endings
  BY <1>1 DEF FlightsTypeOK, Endings
<1>4. /\ Events(n) \in Seq(Items) /\ Len(Events(n)) = n
      /\ \A i \in 1..n : Events(n)[i] = Event(i)
  BY <1>3, EventsType
<1>5. /\ Len(q) = n + 1 /\ q # <<>> /\ q[n + 1] = Ending("done")
      /\ \A i \in 1..n : q[i] = Event(i)
  BY <1>2, <1>3, <1>4
<1>6. seen'[c] = <<>> /\ Len(seen'[c]) = 0
  BY <1>1 DEF Sent
<1>7. Closing(c)'
  <2>1. (n + 1) - 1 = n /\ 0 + (n + 1) - 1 = n /\ \A i \in 1..n : 0 + i = i
    BY <1>3
  <2>2. \A i \in 1..Len(q) - 1 : q[i] = Event(Len(seen'[c]) + i)
    BY <1>5, <1>6, <2>1
  <2>3. from'[c] \in whole' /\ Len(seen'[c]) + Len(q) - 1 = events'[from'[c]]
    BY <1>1, <1>2, <1>5, <1>6, <2>1
  <2>4. q[Len(q)] = Ending("done")
    BY <1>5
  <2>. QED  BY <1>3, <1>5, <2>2, <2>3, <2>4 DEF Closing, Continues
<1>8. Sent(c)'
  BY <1>2, <1>6 DEF Sent
<1>9. \A f \in Flights : c \notin subscribers'[f]
  BY <1>1 DEF ServedRight
<1>. QED  BY <1>2, <1>7, <1>8, <1>9 DEF ServedRight

\* Every client is served by what the clients do,
LEMMA ClientServes ==
    ASSUME ServiceInv, FlightsTypeOK', Grows, NEW c \in Clients,
           Enters(c) \/ FindsCached(c) \/ StartsFlight(c) \/ Reads(c) \/ Departs(c),
           NEW d \in Clients
    PROVE  Sent(d)' /\ ServedRight(d)'
<1>0. FlightsTypeOK /\ FlightsKnown /\ Sent(c) /\ ServedRight(c) /\ Sent(d) /\ ServedRight(d)
  BY DEF ServiceInv
<1>1. CASE StartsFlight(c)
  <2>1. PICK f \in Flights :
          task[f] = "none" /\ current' = f /\ task' = [task EXCEPT ![f] = "created"]
          /\ Joins(c, f)
    BY <1>1 DEF StartsFlight
  <2>2. pc[c] = "looking" /\ UNCHANGED <<events, seen>> /\ task'[f] = "created"
    BY <1>0, <1>1, <2>1 DEF StartsFlight, FlightsTypeOK
  <2>3. CASE d = c
    BY <1>0, <2>1, <2>2, <2>3, JoinsServed
  <2>4. CASE d # c
    <3>1. Undisturbed(d)
      BY <1>0, <2>1, <2>2, <2>4, JoinsLeavesOthers
    <3>2. current = NoFlight
      BY <2>2 DEF ServiceInv, FlightInv, LookIsAlone
    <3>3. \A g \in Flights : g \in {current, current'} => d \notin subscribers[g]
      BY <1>0, <2>1, <3>2 DEF ServedRight, Flights, NoFlight
    <3>. QED  BY <1>0, <3>1, <3>3, UndisturbedIsServed
  <2>. QED  BY <2>3, <2>4
<1>2. CASE Enters(c) \/ FindsCached(c) \/ Reads(c) \/ Departs(c)
  <2>1. current' = current /\ events' = events
    BY <1>2 DEF Enters, FindsCached, Reads, Departs, flights
  <2>2. ASSUME Undisturbed(d)
        PROVE  Sent(d)' /\ ServedRight(d)'
    BY <1>0, <2>1, <2>2, UndisturbedIsServed
  <2>3. CASE Enters(c)
    <3>1. CASE current # NoFlight /\ Joins(c, current)
      <4>1. current \in Flights /\ task[current] # "none"
        BY <1>0, <3>1 DEF FlightsTypeOK, FlightsKnown
      <4>2. pc[c] = "idle" /\ UNCHANGED <<seen, task>>
        BY <2>3 DEF Enters
      <4>. QED  BY <1>0, <2>1, <2>2, <3>1, <4>1, <4>2, JoinsServed, JoinsLeavesOthers
    <3>2. CASE /\ pc' = [pc EXCEPT ![c] = "looking"]
               /\ UNCHANGED <<from, queue, subscribers>>
      <4>1. pc[c] = "idle" /\ UNCHANGED <<seen, whole>> /\ pc'[c] = "looking"
        BY <1>0, <2>3, <3>2 DEF Enters, FlightsTypeOK
      <4>2. CASE d = c
        BY <1>0, <3>2, <4>1, <4>2 DEF Sent, ServedRight
      <4>3. CASE d # c
        BY <1>0, <2>2, <3>2, <4>1, <4>3 DEF Undisturbed, FlightsTypeOK
      <4>. QED  BY <4>2, <4>3
    <3>. QED  BY <2>3, <3>1, <3>2 DEF Enters
  <2>4. CASE FindsCached(c)
    <3>1. CASE d = c
      BY <1>0, <2>4, <3>1, CachedServed
    <3>2. CASE d # c
      BY <1>0, <2>2, <2>4, <3>2 DEF FindsCached, Undisturbed, FlightsTypeOK, flights
    <3>. QED  BY <3>1, <3>2
  <2>5. CASE Reads(c)
    <3>1. CASE d = c
      BY <1>0, <2>5, <3>1, ReadsServed
    <3>2. CASE d # c
      BY <1>0, <2>2, <2>5, <3>2 DEF Reads, Unsubscribe, Undisturbed, FlightsTypeOK
    <3>. QED  BY <3>1, <3>2
  <2>6. CASE Departs(c)
    <3>1. CASE d = c
      <4>1. /\ pc'[c] = "idle" /\ seen'[c] = <<>>
            /\ \A f \in Flights : c \notin subscribers'[f]
        BY <1>0, <2>6 DEF Departs, Unsubscribe, FlightsTypeOK
      <4>. QED  BY <3>1, <4>1 DEF Sent, ServedRight
    <3>2. CASE d # c
      BY <1>0, <2>2, <2>6, <3>2 DEF Departs, Unsubscribe, Undisturbed, FlightsTypeOK
    <3>. QED  BY <3>1, <3>2
  <2>. QED  BY <1>2, <2>3, <2>4, <2>5, <2>6
<1>. QED  BY <1>1, <1>2

\* ... and by what becomes of the flights.
LEMMA FlightServes ==
    ASSUME ServiceInv, FlightsTypeOK', FlightsKnown', Grows,
           \/ \E f \in Flights :
                 Starts(f) \/ Emits(f) \/ Produces(f) \/ Stores(f) \/ Finishes(f) \/ LateWrite(f)
           \/ Closes \/ Expires \/ UNCHANGED flightVars,
           NEW d \in Clients
    PROVE  Sent(d)' /\ ServedRight(d)'
<1>0. FlightsTypeOK /\ FlightsKnown /\ Sent(d) /\ ServedRight(d)
  BY DEF ServiceInv
<1>1. ASSUME UNCHANGED <<pc, from, queue, seen, subscribers, current, events>>
      PROVE  Sent(d)' /\ ServedRight(d)'
  <2>1. Undisturbed(d)
    BY <1>1 DEF Undisturbed
  <2>. QED  BY <1>0, <1>1, <2>1, UndisturbedIsServed
<1>2. ASSUME NEW f \in Flights, Emits(f)
      PROVE  Sent(d)' /\ ServedRight(d)'
  <2>1. CASE current # f
    BY <1>1, <1>2, <2>1 DEF Emits
  <2>2. CASE current = f
    <3>1. events[f] + 1 \in 1..MaxEvents
      BY <1>0, <1>2 DEF Emits, FlightsTypeOK
    <3>2. Event(events[f] + 1) \in Items
      BY <3>1, ItemTypes
    <3>3. /\ PublishAll(f, Event(events[f] + 1)) /\ UNCHANGED <<pc, from, seen>>
          /\ current' = f /\ events' = [events EXCEPT ![f] = events[f] + 1]
      BY <1>2, <2>2 DEF Emits
    <3>. QED  BY <1>0, <2>2, <3>2, <3>3, PublishServes
  <2>. QED  BY <2>1, <2>2
<1>3. ASSUME NEW f \in Flights, Finishes(f)
      PROVE  Sent(d)' /\ ServedRight(d)'
  <2>1. CASE current # f
    BY <1>1, <1>3, <2>1 DEF Finishes
  <2>2. CASE current = f
    <3>1. Ending(terminal[f]) \in Items
      BY <1>0, ItemTypes DEF FlightsTypeOK
    <3>2. terminal[f] = "done" => f \in whole
      BY <1>0, <1>3 DEF Finishes, FlightsKnown
    <3>3. /\ current' = NoFlight /\ PublishAll(f, Ending(terminal[f]))
          /\ UNCHANGED <<pc, from, seen, events, whole>>
      BY <1>3, <2>2 DEF Finishes
    <3>. QED  BY <1>0, <2>2, <3>1, <3>2, <3>3, PublishServes
  <2>. QED  BY <2>1, <2>2
<1>4. ASSUME NEW f \in Flights, Starts(f) \/ Produces(f) \/ Stores(f) \/ LateWrite(f)
      PROVE  Sent(d)' /\ ServedRight(d)'
  BY <1>1, <1>4 DEF Starts, Produces, StreamEnds, StreamFails, Stores, LateWrite, clients
<1>5. CASE Closes \/ Expires \/ UNCHANGED flightVars
  BY <1>1, <1>5 DEF Closes, Expires, flightVars, flights, clients
<1>. QED  BY <1>2, <1>3, <1>4, <1>5

\* There is nobody to serve at the start.
LEMMA ServiceInit == FlightsInit => ServiceInv
<1>. SUFFICES ASSUME FlightsInit PROVE ServiceInv
  OBVIOUS
<1>1. FlightsTypeOK
  <2>1. "done" \in Endings /\ 0 \in 0..MaxEvents
    BY DEF Endings
  <2>2. <<>> \in Seq(Items) /\ <<>> \in Seq(1..MaxEvents)
    OBVIOUS
  <2>. QED  BY <2>1, <2>2 DEF FlightsInit, FlightsTypeOK
<1>2. FlightsKnown
  BY DEF FlightsInit, FlightsKnown
<1>3. \A c \in Clients : Sent(c) /\ ServedRight(c)
  BY DEF FlightsInit, Sent, ServedRight
<1>. QED  BY <1>1, <1>2, <1>3, FlightInit DEF ServiceInv

\* The invariant is inductive.
LEMMA ServiceStep == ServiceInv /\ [FlightsNext]_flightVars => ServiceInv'
<1>. SUFFICES ASSUME ServiceInv, [FlightsNext]_flightVars PROVE ServiceInv'
  OBVIOUS
<1>1. FlightsTypeOK /\ FlightInv /\ FlightsKnown
  BY DEF ServiceInv
<1>2. FlightsTypeOK'
  BY <1>1, ClientTypes, FlightTypes, RestTypes DEF FlightsNext
<1>3. FlightInv' /\ FlightsKnown' /\ Grows
  BY <1>1, FlightStep, KnownStep
<1>4. \A d \in Clients : Sent(d)' /\ ServedRight(d)'
  BY <1>2, <1>3, ClientServes, FlightServes DEF FlightsNext
<1>. QED  BY <1>2, <1>3, <1>4 DEF ServiceInv

\* The inductive invariant of the shared streams: shapes, the table and its lock, what is
\* known of the flights, and what each client was and will be sent.
THEOREM ServiceCorrect == FlightsSpec => []ServiceInv
BY ServiceInit, ServiceStep, PTL DEF FlightsSpec

\* Whenever a client joins, and however slowly it reads, it is sent a beginning of the one
\* reply: nothing is missed, repeated or reordered (_publish_to_subscriber poisons a full
\* queue instead of dropping from it).
THEOREM NothingIsSkipped == FlightsSpec => []NothingSkipped
<1>1. ServiceInv => NothingSkipped
  BY DEF ServiceInv, Sent, NothingSkipped
<1>. QED  BY <1>1, ServiceCorrect, PTL

\* A client that is told "done" has the whole of a stream that ended by itself, live or
\* from the cache, whatever failed, was cancelled or was written late.
THEOREM CompleteRepliesAreWhole == FlightsSpec => []CompleteIsWhole
<1>1. ServiceInv => CompleteIsWhole
  BY DEF ServiceInv, Sent, CompleteIsWhole
<1>. QED  BY <1>1, ServiceCorrect, PTL

-----------------------------------------------------------------------------
(* The authorization server.  A token that a client holds is alive, and unless *)
(* the client spent it without an answer it is in memory and in the file, and  *)
(* so is the client; nothing that is dropped is such a token, or a client that *)
(* has one.  Every token has its client beside it, in memory and in the file:  *)
(* so a restart that finds a spent token brings back its client too.           *)
(* Approvals are counted: each is still a login, became a code, or was spent.  *)

Tokens == [client : Ids, number : 1..MaxTokens]

OAuthTyped ==
    /\ registered \in SUBSET Ids
    /\ pending \in [Ids -> {"none", "asked", "approved"}]
    /\ codes \in SUBSET [client : Ids, login : Nat] /\ IsFiniteSet(codes)
    /\ access \in SUBSET Tokens /\ refresh \in SUBSET Tokens /\ expired \in SUBSET Tokens
    /\ disk \in [clients : SUBSET Ids, access : SUBSET Tokens, refresh : SUBSET Tokens]
    /\ given \in [ids : Nat, logins : Nat, tokens : Nat]
    /\ held \in [Ids -> Nat] /\ stranded \in SUBSET Ids
    /\ approved \in [Ids -> Nat] /\ spent \in [Ids -> Nat]

\* A number that was not given out is on no token, so a new token is not an expired one.
NumbersGiven ==
    \A t \in access \union refresh \union expired \union disk.access \union disk.refresh :
        t.number <= given.tokens

\* A token that a client holds has not expired.
HeldIsAlive == \A c \in Ids : held[c] # 0 => [client |-> c, number |-> held[c]] \notin expired

\* A token has its client beside it.
TokensHaveClients ==
    /\ \A t \in access \union refresh : t.client \in registered
    /\ \A t \in disk.access \union disk.refresh : t.client \in disk.clients

CodesOf(c) == {code \in codes : code.client = c}

ApprovalsCounted ==
    \A c \in Ids :
        spent[c] + Cardinality(CodesOf(c)) + (IF pending[c] = "approved" THEN 1 ELSE 0) <= approved[c]

OAuthInv ==
    /\ OAuthTyped
    /\ NumbersGiven
    /\ HeldIsAlive
    /\ TokensHaveClients
    /\ StaysConnected
    /\ ApprovalsCounted

\* Nobody is registered to begin with.
LEMMA OAuthStarts == OAuthInit => OAuthInv
<1>. SUFFICES ASSUME OAuthInit PROVE OAuthInv
  OBVIOUS
<1>1. OAuthTyped /\ NumbersGiven /\ HeldIsAlive /\ TokensHaveClients /\ StaysConnected
  BY FS_EmptySet DEF OAuthInit, Saved, OAuthTyped, NumbersGiven, HeldIsAlive, TokensHaveClients,
                     StaysConnected
<1>2. ASSUME NEW c \in Ids PROVE Cardinality(CodesOf(c)) = 0
  BY FS_EmptySet DEF OAuthInit, CodesOf
<1>3. ApprovalsCounted
  BY <1>2 DEF OAuthInit, ApprovalsCounted
<1>. QED  BY <1>1, <1>3 DEF OAuthInv

\* A client's codes are finitely many.
LEMMA CodesAreFinite ==
    ASSUME OAuthTyped, NEW c \in Ids
    PROVE  IsFiniteSet(CodesOf(c)) /\ Cardinality(CodesOf(c)) \in Nat
<1>1. CodesOf(c) \in SUBSET codes
  BY DEF CodesOf
<1>. QED  BY <1>1, FS_Subset, FS_CardinalityType DEF OAuthTyped

\* The file is the old one, or what memory says now.
LEMMA SavedFile ==
    ASSUME Saves \/ SaveFails
    PROVE  disk' = disk \/ disk' = [clients |-> registered', access |-> access', refresh |-> refresh']
BY DEF Saves, SaveFails, Saved

\* A step that leaves logins, codes and approvals alone, takes away no token that a client
\* counts on and no client that has a token, and lets nobody hold another.
LEMMA TokensKeepOAuth ==
    ASSUME OAuthInv, OAuthTyped',
           disk' = disk \/ disk' = [clients |-> registered', access |-> access', refresh |-> refresh'],
           access' \in SUBSET access, refresh' \in SUBSET refresh, given'.tokens = given.tokens,
           expired' \in SUBSET (expired \union access \union refresh \union disk.access \union disk.refresh),
           UNCHANGED <<codes, approved, spent>>,
           \A c \in Ids : pending'[c] = "approved" => pending[c] = "approved",
           \A t \in access \union refresh : t.client \in registered',
           \A c \in Ids : held'[c] # 0 =>
               held'[c] = held[c] /\ [client |-> c, number |-> held[c]] \notin expired',
           \A c \in Ids : held'[c] # 0 /\ c \notin stranded' =>
               c \notin stranded /\ [client |-> c, number |-> held[c]] \in refresh'
    PROVE  OAuthInv'
<1>1. NumbersGiven'
  BY DEF OAuthInv, OAuthTyped, NumbersGiven
<1>2. HeldIsAlive'
  BY DEF HeldIsAlive
<1>3. StaysConnected'
  <2>. SUFFICES ASSUME NEW c \in Ids, held'[c] # 0, c \notin stranded'
                PROVE  LET token == [client |-> c, number |-> held'[c]]
                       IN  /\ token \in refresh' /\ c \in registered'
                           /\ token \in disk'.refresh /\ c \in disk'.clients
    BY DEF StaysConnected, HeldToken
  <2>. DEFINE token == [client |-> c, number |-> held[c]]
  <2>1. held'[c] = held[c] /\ c \notin stranded /\ token \in refresh'
    OBVIOUS
  <2>2. token \in disk.refresh /\ c \in disk.clients
    BY <2>1 DEF OAuthInv, StaysConnected, HeldToken
  <2>3. token \in access \union refresh /\ token.client = c
    BY <2>1
  <2>4. c \in registered'
    <3>. HIDE DEF token
    <3>. QED  BY <2>3
  <2>. QED  BY <2>1, <2>2, <2>4
<1>4. ApprovalsCounted'
  <2>1. ASSUME NEW c \in Ids PROVE CodesOf(c)' = CodesOf(c)
    BY DEF CodesOf
  <2>. QED  BY <2>1, CodesAreFinite DEF OAuthInv, OAuthTyped, ApprovalsCounted
<1>5. TokensHaveClients'
  BY DEF OAuthInv, TokensHaveClients
<1>. QED  BY <1>1, <1>2, <1>3, <1>4, <1>5 DEF OAuthInv

\* Numbers have a least one among them.
LEMMA LeastNumber == ASSUME NEW D \in SUBSET Nat, D # {} PROVE \E d \in D : \A e \in D : d <= e
<1>. DEFINE less == OpToRel(<, Nat)
<1>1. IsWellFoundedOn(less, Nat)
  BY NatLessThanWellFounded
<1>2. \A T : T \subseteq Nat /\ T # {} => \E x \in T : \A y \in T : ~ (<<y, x>> \in less)
  <2>. HIDE DEF less
  <2>. QED  BY <1>1, WFMin, Zenon
<1>3. D \subseteq Nat
  OBVIOUS
<1>4. PICK d \in D : \A e \in D : ~ (<<e, d>> \in less)
  BY <1>2, <1>3, Zenon
<1>5. \A a, b \in Nat : <<a, b>> \in less <=> a < b
  BY DEF OpToRel
<1>. HIDE DEF less
<1>6. ASSUME NEW e \in D PROVE d <= e
  <2>1. d \in Nat /\ e \in Nat /\ ~ (e < d)
    BY <1>4, <1>5
  <2>. QED  BY <2>1
<1>. QED  BY <1>6

\* Who makes room for a newcomer has no token, so nobody loses what it counts on.
LEMMA RegistrationKeepsOAuth ==
    ASSUME OAuthInv, Registers
    PROVE  OAuthInv'
<1>. DEFINE disposable == registered \ Connected
            oldest == CHOOSE d \in disposable : \A e \in disposable : d <= e
            full == Cardinality(registered) >= MaxClients
<1>1. /\ given.ids < MaxIds
      /\ full => disposable # {}
      /\ given' = [given EXCEPT !.ids = given.ids + 1]
      /\ registered' = (IF full THEN registered \ {oldest} ELSE registered) \union {given.ids + 1}
      /\ pending' = IF full THEN [pending EXCEPT ![oldest] = "none"] ELSE pending
      /\ UNCHANGED <<codes, access, refresh, expired, held, stranded, approved, spent>>
      /\ Saves \/ SaveFails
  BY DEF Registers, heldVars
<1>2. disk' = disk \/ disk' = [clients |-> registered', access |-> access', refresh |-> refresh']
  BY <1>1, SavedFile
<1>3. given.ids + 1 \in Ids /\ given'.tokens = given.tokens
      /\ given' \in [ids : Nat, logins : Nat, tokens : Nat]
  <2>1. given \in [ids : Nat, logins : Nat, tokens : Nat] /\ given.ids \in Nat
    BY DEF OAuthInv, OAuthTyped
  <2>2. given.ids + 1 \in Nat /\ given.ids + 1 \in 1..MaxIds
    BY <1>1, <2>1, OAuthBounds
  <2>. QED  BY <1>1, <2>1, <2>2 DEF Ids
<1>4. full => oldest \in disposable
  <2>. HIDE DEF full
  <2>1. disposable \in SUBSET Nat
    <3>1. Ids \in SUBSET Nat
      BY OAuthBounds DEF Ids
    <3>. QED  BY <3>1 DEF OAuthInv, OAuthTyped
  <2>2. full => \E d \in disposable : \A e \in disposable : d <= e
    <3>. HIDE DEF disposable
    <3>. QED  BY <1>1, <2>1, LeastNumber
  <2>. QED  BY <2>2
<1>. HIDE DEF oldest, full
<1>5. /\ registered' \in SUBSET Ids
      /\ pending' \in [Ids -> {"none", "asked", "approved"}]
      /\ \A c \in Ids : pending'[c] = "approved" => pending[c] = "approved"
  BY <1>1, <1>3, <1>4 DEF OAuthInv, OAuthTyped
<1>6. OAuthTyped'
  BY <1>1, <1>2, <1>3, <1>5 DEF OAuthInv, OAuthTyped
<1>7. ASSUME NEW t \in access \union refresh PROVE t.client \in registered'
  <2>1. t.client \in registered /\ t.client \notin disposable
    BY DEF Connected, OAuthInv, TokensHaveClients
  <2>. QED  BY <1>1, <1>4, <2>1
<1>8. \A c \in Ids : held'[c] # 0 =>
          held'[c] = held[c] /\ [client |-> c, number |-> held[c]] \notin expired'
  BY <1>1 DEF OAuthInv, HeldIsAlive
<1>9. \A c \in Ids : held'[c] # 0 /\ c \notin stranded' =>
          c \notin stranded /\ [client |-> c, number |-> held[c]] \in refresh'
  BY <1>1 DEF OAuthInv, StaysConnected, HeldToken
<1>. QED  BY <1>1, <1>2, <1>3, <1>5, <1>6, <1>7, <1>8, <1>9, TokensKeepOAuth

\* Who lets go of a token held that one; the others hold what they held.
LEMMA LettingGo ==
    ASSUME OAuthTyped, NEW token, LetsGo(token)
    PROVE  /\ held' \in [Ids -> Nat] /\ stranded' \in SUBSET Ids
           /\ \A c \in Ids : held'[c] # 0 =>
                 /\ held'[c] = held[c] /\ [client |-> c, number |-> held[c]] # token
                 /\ c \in stranded => c \in stranded'
<1>. DEFINE gone == {c \in Ids : held[c] # 0 /\ [client |-> c, number |-> held[c]] = token}
<1>1. held' = [c \in Ids |-> IF c \in gone THEN 0 ELSE held[c]] /\ stranded' = stranded \ gone
  BY DEF LetsGo, HeldToken
<1>2. \A c \in Ids : c \notin gone /\ held[c] # 0 => [client |-> c, number |-> held[c]] # token
  OBVIOUS
<1>. HIDE DEF gone
<1>. QED  BY <1>1, <1>2 DEF OAuthTyped

\* A pair of tokens is issued with a number of its own; only its client's tokens are dropped
\* that were alive, and what that client counts on now is in the file.
LEMMA IssueKeepsTokens ==
    ASSUME OAuthInv, NEW c \in Ids, c \in registered, NEW spared \in SUBSET refresh,
           \A t \in refresh \ spared : t.client = c,
           Issues(c, spared), UNCHANGED <<registered, expired>>
    PROVE  /\ disk' \in [clients : SUBSET Ids, access : SUBSET Tokens, refresh : SUBSET Tokens]
           /\ access' \in SUBSET Tokens /\ refresh' \in SUBSET Tokens
           /\ given' \in [ids : Nat, logins : Nat, tokens : Nat]
           /\ held' \in [Ids -> Nat] /\ stranded' \in SUBSET Ids
           /\ NumbersGiven' /\ HeldIsAlive' /\ TokensHaveClients' /\ StaysConnected'
<1>. DEFINE token == [client |-> c, number |-> given.tokens + 1]
<1>1. /\ given.tokens < MaxTokens
      /\ given' = [given EXCEPT !.tokens = given.tokens + 1]
      /\ access' = (access \ expired) \union {token}
      /\ refresh' = (spared \ expired) \union {token}
      /\ \/ Saves /\ held' = [held EXCEPT ![c] = token.number] /\ stranded' = stranded \ {c}
         \/ /\ held' = held
            /\ stranded' = stranded \union
                  {d \in {c} : held[d] # 0 /\ [client |-> d, number |-> held[d]] \notin spared}
      /\ Saves \/ SaveFails
  BY DEF Issues, HeldToken
<1>2. disk' = disk \/ disk' = [clients |-> registered', access |-> access', refresh |-> refresh']
  BY <1>1, SavedFile
<1>3. /\ token \in Tokens /\ token.client = c /\ token.number = given.tokens + 1
      /\ given' \in [ids : Nat, logins : Nat, tokens : Nat] /\ given'.tokens = given.tokens + 1
  BY <1>1, OAuthBounds DEF OAuthInv, OAuthTyped, Tokens
<1>4. /\ held' \in [Ids -> Nat] /\ stranded' \in SUBSET Ids
      /\ \A d \in Ids : d # c => held'[d] = held[d] /\ (d \in stranded' <=> d \in stranded)
  BY <1>1, <1>3 DEF OAuthInv, OAuthTyped
<1>5. token \notin expired
  BY <1>3 DEF OAuthInv, OAuthTyped, NumbersGiven
<1>6. /\ access' \in SUBSET Tokens /\ refresh' \in SUBSET Tokens
      /\ disk' \in [clients : SUBSET Ids, access : SUBSET Tokens, refresh : SUBSET Tokens]
  BY <1>1, <1>2, <1>3 DEF OAuthInv, OAuthTyped
<1>7. NumbersGiven'
  <2>1. \A t \in access \union refresh \union expired \union disk.access \union disk.refresh :
            t \in Tokens /\ t.number <= given.tokens
    BY DEF OAuthInv, OAuthTyped, NumbersGiven
  <2>2. \A t \in access' \union refresh' \union expired' \union disk'.access \union disk'.refresh :
            t = token \/ t \in access \union refresh \union expired \union disk.access \union disk.refresh
    BY <1>1, <1>2
  <2>3. given.tokens \in Nat /\ \A t \in Tokens : t.number \in Nat
    BY DEF OAuthInv, OAuthTyped, Tokens
  <2>. HIDE DEF token
  <2>. QED  BY <1>3, <2>1, <2>2, <2>3 DEF NumbersGiven
<1>8. ASSUME NEW d \in Ids, held'[d] # 0, held'[d] = held[d], d \notin stranded,
             [client |-> d, number |-> held[d]] \in spared
      PROVE  LET t == [client |-> d, number |-> held'[d]]
             IN  /\ t \in refresh' /\ d \in registered'
                 /\ t \in disk'.refresh /\ d \in disk'.clients
  <2>. DEFINE t == [client |-> d, number |-> held[d]]
  <2>1. t \notin expired /\ t \in refresh /\ d \in registered /\ t \in disk.refresh /\ d \in disk.clients
    BY <1>8 DEF OAuthInv, StaysConnected, HeldIsAlive, HeldToken
  <2>. HIDE DEF token
  <2>. QED  BY <1>1, <1>2, <1>8, <2>1
<1>9. ASSUME NEW d \in Ids, held'[d] # 0, d \notin stranded'
      PROVE  LET t == [client |-> d, number |-> held'[d]]
             IN  /\ t \in refresh' /\ d \in registered'
                 /\ t \in disk'.refresh /\ d \in disk'.clients
  <2>1. CASE d = c /\ held' # held
    <3>1. Saves /\ held'[c] = token.number
      BY <1>1, <2>1 DEF OAuthInv, OAuthTyped
    <3>2. disk' = [clients |-> registered', access |-> access', refresh |-> refresh']
      BY <3>1 DEF Saves, Saved
    <3>3. [client |-> d, number |-> held'[d]] = token
      BY <2>1, <3>1
    <3>. QED  BY <1>1, <2>1, <3>2, <3>3
  <2>2. CASE d = c /\ held' = held
    <3>1. CASE Saves /\ held' = [held EXCEPT ![c] = token.number]
      <4>1. held'[c] = token.number
        BY <3>1 DEF OAuthInv, OAuthTyped
      <4>2. disk' = [clients |-> registered', access |-> access', refresh |-> refresh']
        BY <3>1 DEF Saves, Saved
      <4>3. [client |-> d, number |-> held'[d]] = token
        BY <2>2, <4>1
      <4>. QED  BY <1>1, <2>2, <4>2, <4>3
    <3>2. CASE stranded' = stranded \union
                  {e \in {c} : held[e] # 0 /\ [client |-> e, number |-> held[e]] \notin spared}
      <4>1. held'[d] = held[d] /\ d \notin stranded /\ [client |-> d, number |-> held[d]] \in spared
        BY <1>9, <2>2, <3>2
      <4>. QED  BY <1>8, <1>9, <4>1
    <3>. QED  BY <1>1, <3>1, <3>2
  <2>3. CASE d # c
    <3>1. held'[d] = held[d] /\ d \notin stranded
      BY <1>4, <1>9, <2>3
    <3>2. [client |-> d, number |-> held[d]] \in refresh
      BY <1>9, <3>1 DEF OAuthInv, StaysConnected, HeldToken
    <3>3. [client |-> d, number |-> held[d]] \in spared
      BY <2>3, <3>2
    <3>. QED  BY <1>8, <1>9, <3>1, <3>3
  <2>. QED  BY <2>1, <2>2, <2>3
<1>10. StaysConnected'
  BY <1>9 DEF StaysConnected, HeldToken
<1>11. ASSUME NEW d \in Ids, held'[d] # 0 PROVE [client |-> d, number |-> held'[d]] \notin expired
  <2>1. CASE held'[d] = held[d]
    BY <1>11, <2>1 DEF OAuthInv, HeldIsAlive
  <2>2. CASE held'[d] # held[d]
    <3>1. d = c /\ held'[d] = token.number
      BY <1>1, <1>4, <2>2 DEF OAuthInv, OAuthTyped
    <3>2. [client |-> d, number |-> held'[d]] = token
      BY <3>1
    <3>. QED  BY <1>5, <3>2
  <2>. QED  BY <2>1, <2>2
<1>12. HeldIsAlive'
  BY <1>11 DEF HeldIsAlive
<1>13. TokensHaveClients'
  <2>1. \A t \in access' \union refresh' : t = token \/ t \in access \union refresh
    BY <1>1
  <2>2. \A t \in access' \union refresh' : t.client \in registered'
    <3>. HIDE DEF token
    <3>. QED  BY <1>3, <2>1 DEF OAuthInv, TokensHaveClients
  <2>. HIDE DEF token
  <2>. QED  BY <1>2, <2>2 DEF OAuthInv, TokensHaveClients
<1>. QED  BY <1>3, <1>4, <1>6, <1>7, <1>10, <1>12, <1>13

\* A code is bought with one approval, and spent once.
LEMMA LoginKeepsOAuth ==
    ASSUME OAuthInv, NEW c \in Ids, LogsIn(c) \/ Completes(c)
    PROVE  OAuthInv'
<1>1. /\ UNCHANGED <<registered, access, refresh, disk, expired, held, stranded, spent>>
      /\ given'.tokens = given.tokens
      /\ given' \in [ids : Nat, logins : Nat, tokens : Nat]
  BY DEF LogsIn, Completes, heldVars, OAuthInv, OAuthTyped
<1>2. NumbersGiven' /\ HeldIsAlive' /\ TokensHaveClients' /\ StaysConnected'
  BY <1>1 DEF OAuthInv, NumbersGiven, HeldIsAlive, TokensHaveClients, StaysConnected, HeldToken
<1>3. \A d \in Ids : CodesOf(d) \in SUBSET codes /\ IsFiniteSet(CodesOf(d)) /\ Cardinality(CodesOf(d)) \in Nat
  BY CodesAreFinite DEF OAuthInv, CodesOf
<1>4. CASE LogsIn(c)
  <2>1. /\ pending[c] = "asked" /\ pending' = [pending EXCEPT ![c] = "approved"]
        /\ approved' = [approved EXCEPT ![c] = approved[c] + 1] /\ UNCHANGED codes
    BY <1>4 DEF LogsIn
  <2>2. OAuthTyped'
    BY <1>1, <2>1 DEF OAuthInv, OAuthTyped
  <2>3. ASSUME NEW d \in Ids
        PROVE  spent'[d] + Cardinality(CodesOf(d))' + (IF pending'[d] = "approved" THEN 1 ELSE 0) <= approved'[d]
    <3>1. CodesOf(d)' = CodesOf(d)
      BY <2>1 DEF CodesOf
    <3>2. /\ spent[d] + Cardinality(CodesOf(d)) + (IF pending[d] = "approved" THEN 1 ELSE 0) <= approved[d]
          /\ spent[d] \in Nat /\ approved[d] \in Nat /\ Cardinality(CodesOf(d)) \in Nat
      BY <1>3 DEF OAuthInv, OAuthTyped, ApprovalsCounted
    <3>3. CASE d = c
      <4>1. pending'[d] = "approved" /\ approved'[d] = approved[d] + 1 /\ spent'[d] = spent[d]
        BY <1>1, <2>1, <3>3 DEF OAuthInv, OAuthTyped
      <4>2. spent[d] + Cardinality(CodesOf(d)) <= approved[d]
        BY <2>1, <3>2, <3>3
      <4>. QED  BY <3>1, <3>2, <4>1, <4>2
    <3>4. CASE d # c
      <4>1. pending'[d] = pending[d] /\ approved'[d] = approved[d] /\ spent'[d] = spent[d]
        BY <1>1, <2>1, <3>4 DEF OAuthInv, OAuthTyped
      <4>. QED  BY <3>1, <3>2, <4>1
    <3>. QED  BY <3>3, <3>4
  <2>. QED  BY <1>2, <2>2, <2>3 DEF OAuthInv, ApprovalsCounted
<1>5. CASE Completes(c)
  <2>. DEFINE code == [client |-> c, login |-> approved[c]]
  <2>1. /\ pending[c] = "approved" /\ pending' = [pending EXCEPT ![c] = "none"]
        /\ codes' = codes \union {code} /\ UNCHANGED <<approved, given>>
    BY <1>5 DEF Completes, heldVars
  <2>2. code \in [client : Ids, login : Nat] /\ code.client = c
    BY DEF OAuthInv, OAuthTyped
  <2>. HIDE DEF code
  <2>3. IsFiniteSet(codes')
    BY <2>1, FS_AddElement DEF OAuthInv, OAuthTyped
  <2>4. OAuthTyped'
    BY <1>1, <2>1, <2>2, <2>3 DEF OAuthInv, OAuthTyped
  <2>5. ASSUME NEW d \in Ids
        PROVE  spent'[d] + Cardinality(CodesOf(d))' + (IF pending'[d] = "approved" THEN 1 ELSE 0) <= approved'[d]
    <3>2. /\ spent[d] + Cardinality(CodesOf(d)) + (IF pending[d] = "approved" THEN 1 ELSE 0) <= approved[d]
          /\ spent[d] \in Nat /\ approved[d] \in Nat /\ Cardinality(CodesOf(d)) \in Nat
      BY <1>3 DEF OAuthInv, OAuthTyped, ApprovalsCounted
    <3>3. CASE d = c
      <4>1. pending'[d] = "none" /\ approved'[d] = approved[d] /\ spent'[d] = spent[d]
        BY <1>1, <2>1, <3>3 DEF OAuthInv, OAuthTyped
      <4>2. CodesOf(d)' = CodesOf(d) \union {code}
        BY <2>1, <2>2, <3>3 DEF CodesOf
      <4>3. Cardinality(CodesOf(d))' <= Cardinality(CodesOf(d)) + 1 /\ Cardinality(CodesOf(d))' \in Nat
        <5>. DEFINE D == CodesOf(d)
        <5>1. IsFiniteSet(D) /\ Cardinality(D) \in Nat
          BY <1>3
        <5>. HIDE DEF D
        <5>2. Cardinality(D \union {code}) = IF code \in D THEN Cardinality(D) ELSE Cardinality(D) + 1
          BY <5>1, FS_AddElement
        <5>3. Cardinality(D \union {code}) <= Cardinality(D) + 1 /\ Cardinality(D \union {code}) \in Nat
          BY <5>1, <5>2
        <5>. QED  BY <4>2, <5>3 DEF D
      <4>4. spent[d] + Cardinality(CodesOf(d)) + 1 <= approved[d]
        BY <2>1, <3>2, <3>3
      <4>. QED  BY <3>2, <4>1, <4>3, <4>4
    <3>4. CASE d # c
      <4>1. pending'[d] = pending[d] /\ approved'[d] = approved[d] /\ spent'[d] = spent[d]
        BY <1>1, <2>1, <3>4 DEF OAuthInv, OAuthTyped
      <4>2. CodesOf(d)' = CodesOf(d)
        BY <2>1, <2>2, <3>4 DEF CodesOf
      <4>. QED  BY <3>2, <4>1, <4>2
    <3>. QED  BY <3>3, <3>4
  <2>. QED  BY <1>2, <2>4, <2>5 DEF OAuthInv, ApprovalsCounted
<1>. QED  BY <1>4, <1>5

\* A code is exchanged for one pair of tokens.
LEMMA ExchangeKeepsOAuth ==
    ASSUME OAuthInv, NEW code \in codes, ExchangesCode(code)
    PROVE  OAuthInv'
<1>. DEFINE c == code.client
<1>1. /\ c \in Ids /\ c \in registered
      /\ codes' = codes \ {code}
      /\ spent' = [spent EXCEPT ![c] = spent[c] + 1]
      /\ UNCHANGED <<registered, pending, expired, approved>>
      /\ Issues(c, refresh)
  BY DEF ExchangesCode, OAuthInv, OAuthTyped
<1>. HIDE DEF c
<1>2. /\ disk' \in [clients : SUBSET Ids, access : SUBSET Tokens, refresh : SUBSET Tokens]
      /\ access' \in SUBSET Tokens /\ refresh' \in SUBSET Tokens
      /\ given' \in [ids : Nat, logins : Nat, tokens : Nat]
      /\ held' \in [Ids -> Nat] /\ stranded' \in SUBSET Ids
      /\ NumbersGiven' /\ HeldIsAlive' /\ TokensHaveClients' /\ StaysConnected'
  BY <1>1, IssueKeepsTokens
<1>3. IsFiniteSet(codes')
  BY <1>1, FS_RemoveElement DEF OAuthInv, OAuthTyped
<1>4. OAuthTyped'
  <2>1. spent' \in [Ids -> Nat]
    BY <1>1 DEF OAuthInv, OAuthTyped
  <2>2. codes' \in SUBSET [client : Ids, login : Nat]
    BY <1>1 DEF OAuthInv, OAuthTyped
  <2>. QED  BY <1>1, <1>2, <1>3, <2>1, <2>2 DEF OAuthInv, OAuthTyped
<1>5. ASSUME NEW d \in Ids
      PROVE  spent'[d] + Cardinality(CodesOf(d))' + (IF pending'[d] = "approved" THEN 1 ELSE 0) <= approved'[d]
  <2>1. IsFiniteSet(CodesOf(d)) /\ Cardinality(CodesOf(d)) \in Nat
    BY CodesAreFinite DEF OAuthInv
  <2>2. /\ spent[d] + Cardinality(CodesOf(d)) + (IF pending[d] = "approved" THEN 1 ELSE 0) <= approved[d]
        /\ spent[d] \in Nat /\ approved[d] \in Nat
    BY DEF OAuthInv, OAuthTyped, ApprovalsCounted
  <2>3. pending'[d] = pending[d] /\ approved'[d] = approved[d]
    BY <1>1
  <2>4. CASE d = c
    <3>1. CodesOf(d)' = CodesOf(d) \ {code} /\ code \in CodesOf(d)
      BY <1>1, <2>4 DEF CodesOf, c
    <3>2. Cardinality(CodesOf(d))' = Cardinality(CodesOf(d)) - 1
      <4>. DEFINE D == CodesOf(d)
      <4>1. IsFiniteSet(D) /\ code \in D
        BY <2>1, <3>1
      <4>. HIDE DEF D
      <4>2. Cardinality(D \ {code}) = Cardinality(D) - 1
        BY <4>1, FS_RemoveElement
      <4>. QED  BY <3>1, <4>2 DEF D
    <3>3. spent'[d] = spent[d] + 1
      BY <1>1, <2>4 DEF OAuthInv, OAuthTyped
    <3>. QED  BY <2>1, <2>2, <2>3, <3>2, <3>3
  <2>5. CASE d # c
    <3>1. CodesOf(d)' = CodesOf(d)
      BY <1>1, <2>5 DEF CodesOf, c
    <3>2. spent'[d] = spent[d]
      BY <1>1, <2>5 DEF OAuthInv, OAuthTyped
    <3>. QED  BY <2>2, <2>3, <3>1, <3>2
  <2>. QED  BY <2>4, <2>5
<1>. QED  BY <1>2, <1>4, <1>5 DEF OAuthInv, ApprovalsCounted

\* A refresh token is exchanged for a pair of its client's own.
LEMMA RefreshKeepsOAuth ==
    ASSUME OAuthInv, NEW token \in access \union refresh, Refreshes(token)
    PROVE  OAuthInv'
<1>1. /\ token \in refresh /\ token.client \in Ids /\ token.client \in registered
      /\ UNCHANGED <<registered, pending, codes, expired, approved, spent>>
      /\ Issues(token.client, refresh \ {token})
  BY DEF Refreshes, OAuthInv, OAuthTyped, Tokens
<1>2. refresh \ {token} \in SUBSET refresh /\ \A t \in refresh \ (refresh \ {token}) : t.client = token.client
  OBVIOUS
<1>3. /\ disk' \in [clients : SUBSET Ids, access : SUBSET Tokens, refresh : SUBSET Tokens]
      /\ access' \in SUBSET Tokens /\ refresh' \in SUBSET Tokens
      /\ given' \in [ids : Nat, logins : Nat, tokens : Nat]
      /\ held' \in [Ids -> Nat] /\ stranded' \in SUBSET Ids
      /\ NumbersGiven' /\ HeldIsAlive' /\ TokensHaveClients' /\ StaysConnected'
  BY <1>1, <1>2, IssueKeepsTokens
<1>4. OAuthTyped'
  BY <1>1, <1>3 DEF OAuthInv, OAuthTyped
<1>5. ApprovalsCounted'
  BY <1>1 DEF OAuthInv, ApprovalsCounted, CodesOf
<1>. QED  BY <1>3, <1>4, <1>5 DEF OAuthInv

\* A restart finds in the file what the clients count on, and any token it brings back; logins and codes are gone.
LEMMA RestartKeepsOAuth ==
    ASSUME OAuthInv, ServerRestarts
    PROVE  OAuthInv'
<1>1. /\ registered' = disk.clients /\ access' = disk.access /\ refresh' = disk.refresh
      /\ pending' = [c \in Ids |-> "none"] /\ codes' = {}
      /\ stranded' = {c \in stranded : [client |-> c, number |-> held[c]] \notin disk.refresh}
      /\ UNCHANGED <<disk, given, expired, held, approved, spent>>
  BY DEF ServerRestarts, HeldToken
<1>2. OAuthTyped'
  BY <1>1, FS_EmptySet DEF OAuthInv, OAuthTyped
<1>3. NumbersGiven' /\ HeldIsAlive' /\ TokensHaveClients'
  BY <1>1 DEF OAuthInv, NumbersGiven, HeldIsAlive, TokensHaveClients
<1>5. ASSUME NEW c \in Ids, held[c] # 0, c \notin stranded'
      PROVE  [client |-> c, number |-> held[c]] \in disk.refresh /\ c \in disk.clients
  <2>. DEFINE token == [client |-> c, number |-> held[c]]
  <2>1. token \in disk.refresh
    BY <1>1, <1>5 DEF OAuthInv, StaysConnected, HeldToken
  <2>2. token.client = c
    OBVIOUS
  <2>3. token.client \in disk.clients
    <3>. HIDE DEF token
    <3>. QED  BY <2>1 DEF OAuthInv, TokensHaveClients
  <2>. QED  BY <2>1, <2>2, <2>3
<1>6. StaysConnected'
  BY <1>1, <1>5 DEF StaysConnected, HeldToken
<1>4. ASSUME NEW c \in Ids
      PROVE  spent'[c] + Cardinality(CodesOf(c))' + (IF pending'[c] = "approved" THEN 1 ELSE 0) <= approved'[c]
  <2>1. Cardinality(CodesOf(c))' = 0
    BY <1>1, FS_EmptySet DEF CodesOf
  <2>2. pending'[c] = "none" /\ spent'[c] = spent[c] /\ approved'[c] = approved[c]
    BY <1>1
  <2>3. /\ spent[c] + Cardinality(CodesOf(c)) + (IF pending[c] = "approved" THEN 1 ELSE 0) <= approved[c]
        /\ spent[c] \in Nat /\ approved[c] \in Nat /\ Cardinality(CodesOf(c)) \in Nat
    BY CodesAreFinite DEF OAuthInv, OAuthTyped, ApprovalsCounted
  <2>. QED  BY <2>1, <2>2, <2>3
<1>. QED  BY <1>2, <1>3, <1>4, <1>6 DEF OAuthInv, ApprovalsCounted

\* Every step keeps the invariant.
LEMMA OAuthSteps == OAuthInv /\ [OAuthNext]_oauthVars => OAuthInv'
<1>. SUFFICES ASSUME OAuthInv, [OAuthNext]_oauthVars PROVE OAuthInv'
  OBVIOUS
<1>. USE DEF heldVars
<1>0. /\ \A c \in Ids : held[c] # 0 => [client |-> c, number |-> held[c]] \notin expired
      /\ \A c \in Ids : held[c] # 0 /\ c \notin stranded =>
            [client |-> c, number |-> held[c]] \in refresh
      /\ \A t \in access \union refresh : t.client \in registered
  BY DEF OAuthInv, StaysConnected, HeldIsAlive, TokensHaveClients, HeldToken
<1>1. CASE Registers
  BY <1>1, RegistrationKeepsOAuth
<1>2. ASSUME NEW c \in Ids, Authorizes(c) PROVE OAuthInv'
  <2>1. /\ UNCHANGED <<registered, codes, access, refresh, disk, given, expired, held, stranded, approved, spent>>
        /\ pending' \in [Ids -> {"none", "asked", "approved"}]
        /\ \A d \in Ids : pending'[d] = "approved" => pending[d] = "approved"
    BY <1>2 DEF Authorizes, OAuthInv, OAuthTyped
  <2>2. OAuthTyped'
    BY <2>1 DEF OAuthInv, OAuthTyped
  <2>. QED  BY <1>0, <2>1, <2>2, TokensKeepOAuth
<1>3. ASSUME NEW c \in Ids, LogsIn(c) \/ Completes(c) PROVE OAuthInv'
  BY <1>3, LoginKeepsOAuth
<1>4. ASSUME NEW code \in codes, ExchangesCode(code) PROVE OAuthInv'
  BY <1>4, ExchangeKeepsOAuth
<1>5. ASSUME NEW token \in access \union refresh, Refreshes(token) PROVE OAuthInv'
  BY <1>5, RefreshKeepsOAuth
<1>6. ASSUME NEW token \in access \union refresh, FindsExpired(token) PROVE OAuthInv'
  <2>1. /\ token \in expired
        /\ access' \in SUBSET access /\ refresh' \in SUBSET refresh /\ refresh \ expired \in SUBSET refresh'
        /\ UNCHANGED <<registered, pending, codes, given, expired, held, stranded, approved, spent>>
        /\ Saves \/ SaveFails
    BY <1>6 DEF FindsExpired
  <2>2. disk' = disk \/ disk' = [clients |-> registered', access |-> access', refresh |-> refresh']
    BY <2>1, SavedFile
  <2>3. OAuthTyped'
    BY <2>1, <2>2 DEF OAuthInv, OAuthTyped
  <2>. QED  BY <1>0, <2>1, <2>2, <2>3, TokensKeepOAuth
<1>7. ASSUME NEW token \in access \union refresh, Revokes(token) PROVE OAuthInv'
  <2>1. /\ access' \in SUBSET access /\ refresh' \in SUBSET refresh
        /\ UNCHANGED <<registered, pending, codes, given, expired, approved, spent>>
        /\ Saves \/ SaveFails
    BY <1>7 DEF Revokes
  <2>2. disk' = disk \/ disk' = [clients |-> registered', access |-> access', refresh |-> refresh']
    BY <2>1, SavedFile
  <2>3. /\ held' \in [Ids -> Nat] /\ stranded' \in SUBSET Ids
        /\ \A c \in Ids : held'[c] # 0 => held'[c] = held[c]
        /\ \A c \in Ids : held'[c] # 0 /\ c \notin stranded' =>
              c \notin stranded /\ [client |-> c, number |-> held[c]] \in refresh'
    <3>1. CASE refresh' = refresh /\ held' = held /\ stranded' = stranded
      BY <1>0, <3>1 DEF OAuthInv, OAuthTyped
    <3>2. CASE refresh' = refresh \ {token} /\ LetsGo(token)
      <4>1. /\ held' \in [Ids -> Nat] /\ stranded' \in SUBSET Ids
            /\ \A c \in Ids : held'[c] # 0 =>
                  /\ held'[c] = held[c] /\ [client |-> c, number |-> held[c]] # token
                  /\ c \in stranded => c \in stranded'
        BY <3>2, LettingGo DEF OAuthInv
      <4>. QED  BY <1>0, <3>2, <4>1
    <3>. QED  BY <1>7, <3>1, <3>2 DEF Revokes
  <2>4. OAuthTyped'
    BY <2>1, <2>2, <2>3 DEF OAuthInv, OAuthTyped
  <2>. QED  BY <1>0, <2>1, <2>2, <2>3, <2>4, TokensKeepOAuth
<1>8. ASSUME NEW token \in access \union refresh \union disk.access \union disk.refresh,
             TokenExpires(token)
      PROVE  OAuthInv'
  <2>1. /\ expired' = expired \union {token} /\ LetsGo(token)
        /\ UNCHANGED <<registered, pending, codes, access, refresh, disk, given, approved, spent>>
    BY <1>8 DEF TokenExpires, memoryVars
  <2>2. /\ held' \in [Ids -> Nat] /\ stranded' \in SUBSET Ids
        /\ \A c \in Ids : held'[c] # 0 =>
              /\ held'[c] = held[c] /\ [client |-> c, number |-> held[c]] # token
              /\ c \in stranded => c \in stranded'
    BY <2>1, LettingGo DEF OAuthInv
  <2>3. token \in Tokens
    BY DEF OAuthInv, OAuthTyped
  <2>4. OAuthTyped'
    BY <2>1, <2>2, <2>3 DEF OAuthInv, OAuthTyped
  <2>5. /\ \A c \in Ids : held'[c] # 0 =>
              held'[c] = held[c] /\ [client |-> c, number |-> held[c]] \notin expired'
        /\ \A c \in Ids : held'[c] # 0 /\ c \notin stranded' =>
              c \notin stranded /\ [client |-> c, number |-> held[c]] \in refresh'
    BY <1>0, <2>1, <2>2
  <2>. QED  BY <1>0, <2>1, <2>2, <2>4, <2>5, TokensKeepOAuth
<1>9. ASSUME NEW token \in access \union refresh, AccessLapses(token) PROVE OAuthInv'
  <2>1. /\ access' = access \ {token}
        /\ UNCHANGED <<registered, pending, codes, refresh, given, expired, held, stranded, approved, spent>>
        /\ Saves \/ SaveFails
    BY <1>9 DEF AccessLapses
  <2>2. disk' = disk \/ disk' = [clients |-> registered', access |-> access', refresh |-> refresh']
    BY <2>1, SavedFile
  <2>3. OAuthTyped'
    BY <2>1, <2>2 DEF OAuthInv, OAuthTyped
  <2>. QED  BY <1>0, <2>1, <2>2, <2>3, TokensKeepOAuth
<1>10. CASE ServerRestarts
  BY <1>10, RestartKeepsOAuth
<1>11. CASE UNCHANGED oauthVars
  <2>1. UNCHANGED <<registered, pending, codes, access, refresh, disk, given, expired, held, stranded, approved, spent>>
    BY <1>11 DEF oauthVars, memoryVars
  <2>2. OAuthTyped'
    BY <2>1 DEF OAuthInv, OAuthTyped
  <2>. QED  BY <1>0, <2>1, <2>2, TokensKeepOAuth
<1>. QED  BY <1>1, <1>2, <1>3, <1>4, <1>5, <1>6, <1>7, <1>8, <1>9, <1>10, <1>11 DEF OAuthNext

\* Who is connected stays so through other clients' requests, failed saves and restarts,
\* until its own refresh goes unanswered, and an approval connects once: for any limits and
\* any number of clients.
THEOREM ConnectionsStay == OAuthSpec => []ConnectionsHold
<1>1. OAuthInv => ConnectionsHold
  <2>. SUFFICES ASSUME OAuthInv, NEW c \in Ids PROVE spent[c] <= approved[c]
    BY DEF ConnectionsHold, ApprovalSpentOnce, OAuthInv
  <2>1. /\ spent[c] + Cardinality(CodesOf(c)) + (IF pending[c] = "approved" THEN 1 ELSE 0) <= approved[c]
        /\ spent[c] \in Nat /\ approved[c] \in Nat /\ Cardinality(CodesOf(c)) \in Nat
    BY CodesAreFinite DEF OAuthInv, OAuthTyped, ApprovalsCounted
  <2>. QED  BY <2>1
<1>. QED  BY <1>1, OAuthStarts, OAuthSteps, PTL DEF OAuthSpec

-----------------------------------------------------------------------------
(* The forward proxy.  A direction that was copied to its end has delivered    *)
(* everything, save what a TLS client's closing cut short, and that happens    *)
(* only after the answer has been delivered.                                   *)

ProxyTyped ==
    /\ DOMAIN place = Connections /\ DOMAIN hello = Connections
    /\ kind \in [Connections -> {"tls", "tcp"}]
    /\ sent \in [Connections -> [Sides -> Nat]] /\ got \in [Connections -> [Sides -> Nat]]
    /\ ended \in [Connections -> SUBSET Sides] /\ piped \in [Connections -> SUBSET Sides]

Served == {c \in Connections : place[c] \notin {"none", "gone", "rejecting"}}

SeatsCounted == IsFiniteSet(Busy) /\ Cardinality(Served) <= MaxConnections

\* The client is told of the tunnel only when its bytes wait in the socket.
ToldInTime(c) ==
    /\ hello[c] # "lost"
    /\ place[c] = "upgrading" => kind[c] = "tls"
    /\ place[c] \in {"announcing", "upgrading"} /\ kind[c] = "tls" => c \in paused

Delivered(c) ==
    /\ "remote" \in piped[c] => "remote" \in ended[c] /\ got[c]["client"] = sent[c]["remote"]
    /\ "client" \in piped[c] /\ c \notin shut =>
          "client" \in ended[c] /\ got[c]["remote"] = sent[c]["client"]
    /\ c \in shut => kind[c] = "tls" /\ "remote" \in piped[c]
    /\ place[c] = "gone" /\ c \notin cut =>
          /\ got[c]["client"] = sent[c]["remote"]
          /\ kind[c] = "tcp" => got[c]["remote"] = sent[c]["client"]

ProxyInv ==
    /\ ProxyTyped
    /\ SeatsCounted
    /\ \A c \in Connections : ToldInTime(c) /\ Delivered(c)

\* Nobody is connected to begin with.
LEMMA ProxyStarts == ProxyInit => ProxyInv
<1>. SUFFICES ASSUME ProxyInit PROVE ProxyInv
  OBVIOUS
<1>1. ProxyTyped
  BY DEF ProxyInit, ProxyTyped
<1>2. SeatsCounted
  <2>1. Busy = {} /\ Served = {}
    BY DEF ProxyInit, Busy, Live, Served
  <2>. QED  BY <2>1, FS_EmptySet, ProxyBounds DEF SeatsCounted
<1>3. ASSUME NEW c \in Connections PROVE ToldInTime(c) /\ Delivered(c)
  BY DEF ProxyInit, ToldInTime, Delivered
<1>. QED  BY <1>1, <1>2, <1>3 DEF ProxyInv

\* A step of one connection leaves what is said of the others; a seat is taken only
\* while there is one.
LEMMA OneConnection ==
    ASSUME ProxyInv, NEW c \in Connections, ProxyTyped', UNCHANGED kind,
           \A d \in Connections \ {c} :
               /\ place'[d] = place[d] /\ hello'[d] = hello[d]
               /\ sent'[d] = sent[d] /\ got'[d] = got[d]
               /\ ended'[d] = ended[d] /\ piped'[d] = piped[d]
               /\ (d \in paused' <=> d \in paused) /\ (d \in shut' <=> d \in shut)
               /\ (d \in cut' <=> d \in cut),
           \/ place[c] \notin {"none", "gone", "rejecting"}
           \/ place'[c] \in {"none", "gone", "rejecting"}
           \/ Cardinality(Busy) < MaxConnections,
           ToldInTime(c)', Delivered(c)'
    PROVE  ProxyInv'
<1>1. ASSUME NEW d \in Connections PROVE ToldInTime(d)' /\ Delivered(d)'
  BY DEF ProxyInv, ToldInTime, Delivered
<1>2. SeatsCounted'
  <2>1. Busy' \in SUBSET (Busy \union {c}) /\ Served \in SUBSET Busy
    BY DEF Busy, Live, Served
  <2>2. IsFiniteSet(Busy')
    <3>1. IsFiniteSet(Busy \union {c})
      BY FS_AddElement DEF ProxyInv, SeatsCounted
    <3>. QED  BY <2>1, <3>1, FS_Subset
  <2>3. IsFiniteSet(Served) /\ Cardinality(Served) \in Nat /\ Cardinality(Served) <= Cardinality(Busy)
        /\ Cardinality(Busy) \in Nat
    <3>1. IsFiniteSet(Busy)
      BY DEF ProxyInv, SeatsCounted
    <3>. QED  BY <2>1, <3>1, FS_Subset, FS_CardinalityType
  <2>4. CASE Served' \in SUBSET Served
    <3>1. Cardinality(Served') <= Cardinality(Served) /\ Cardinality(Served') \in Nat
      BY <2>3, <2>4, FS_Subset, FS_CardinalityType
    <3>. QED  BY <2>2, <2>3, <3>1, ProxyBounds DEF ProxyInv, SeatsCounted
  <2>5. CASE Served' \notin SUBSET Served
    <3>1. Cardinality(Busy) < MaxConnections /\ Served' \in SUBSET (Served \union {c})
      BY <2>5 DEF Served
    <3>2. /\ IsFiniteSet(Served \union {c}) /\ Cardinality(Served \union {c}) \in Nat
          /\ Cardinality(Served \union {c}) <= Cardinality(Served) + 1
      <4>. DEFINE D == Served
      <4>1. IsFiniteSet(D) /\ Cardinality(D) \in Nat
        BY <2>3
      <4>. HIDE DEF D
      <4>2. /\ IsFiniteSet(D \union {c})
            /\ Cardinality(D \union {c}) = IF c \in D THEN Cardinality(D) ELSE Cardinality(D) + 1
        BY <4>1, FS_AddElement
      <4>3. Cardinality(D \union {c}) \in Nat /\ Cardinality(D \union {c}) <= Cardinality(D) + 1
        BY <4>1, <4>2
      <4>. QED  BY <4>2, <4>3 DEF D
    <3>3. Cardinality(Served') <= Cardinality(Served \union {c}) /\ Cardinality(Served') \in Nat
      BY <3>1, <3>2, FS_Subset, FS_CardinalityType
    <3>. QED  BY <2>2, <2>3, <3>1, <3>2, <3>3, ProxyBounds DEF SeatsCounted
  <2>. QED  BY <2>4, <2>5
<1>. QED  BY <1>1, <1>2 DEF ProxyInv

\* A connection that fails asks nothing more of its tunnel.
LEMMA FailingKeepsProxy ==
    ASSUME ProxyInv, NEW c \in Connections, Fails(c)
    PROVE  ProxyInv'
<1>1. /\ place' = [place EXCEPT ![c] = "gone"] /\ hello' = [hello EXCEPT ![c] = "unsent"]
      /\ paused' = paused \ {c} /\ shut' = shut \ {c} /\ cut' = cut \union {c}
      /\ ended' = [ended EXCEPT ![c] = {}] /\ piped' = [piped EXCEPT ![c] = {}]
      /\ sent' = [sent EXCEPT ![c] = [s \in Sides |-> 0]]
      /\ got' = [got EXCEPT ![c] = [s \in Sides |-> 0]]
      /\ UNCHANGED kind
  BY DEF Fails, Forget, HandlerGoes
<1>2. /\ place'[c] = "gone" /\ hello'[c] = "unsent" /\ piped'[c] = {}
      /\ c \notin shut' /\ c \in cut'
      /\ \A d \in Connections \ {c} :
            /\ place'[d] = place[d] /\ hello'[d] = hello[d]
            /\ sent'[d] = sent[d] /\ got'[d] = got[d]
            /\ ended'[d] = ended[d] /\ piped'[d] = piped[d]
  BY <1>1 DEF ProxyInv, ProxyTyped
<1>3. ProxyTyped'
  BY <1>1 DEF ProxyInv, ProxyTyped
<1>4. ToldInTime(c)' /\ Delivered(c)'
  BY <1>2 DEF ToldInTime, Delivered
<1>. QED  BY <1>1, <1>2, <1>3, <1>4, OneConnection

\* On its way to the tunnel a handler moves no data.
LEMMA AdvanceKeepsProxy ==
    ASSUME ProxyInv, NEW c \in Connections, NEW to, HandlerGoes(c, to), to # "gone",
           UNCHANGED <<kind, sent, got, ended, piped, shut, cut>>,
           DOMAIN hello' = Connections,
           \A d \in Connections \ {c} : hello'[d] = hello[d] /\ (d \in paused' <=> d \in paused),
           \/ place[c] \notin {"none", "gone", "rejecting"}
           \/ to = "rejecting"
           \/ Cardinality(Busy) < MaxConnections,
           hello'[c] # "lost",
           to = "upgrading" => kind[c] = "tls",
           to \in {"announcing", "upgrading"} /\ kind[c] = "tls" => c \in paused'
    PROVE  ProxyInv'
<1>1. /\ place'[c] = to /\ DOMAIN place' = Connections
      /\ \A d \in Connections \ {c} : place'[d] = place[d]
  BY DEF HandlerGoes, ProxyInv, ProxyTyped
<1>2. ProxyTyped'
  BY <1>1 DEF ProxyInv, ProxyTyped
<1>3. ToldInTime(c)' /\ Delivered(c)'
  BY <1>1 DEF ProxyInv, ToldInTime, Delivered
<1>. QED  BY <1>1, <1>2, <1>3, OneConnection

\* In the tunnel only what is in hand is copied, and only what is copied ends.
LEMMA SplicingKeepsProxy ==
    ASSUME ProxyInv, NEW c \in Connections, NEW s \in Sides,
           Sends(c, s) \/ Copies(c, s) \/ PipeEnds(c, s)
    PROVE  ProxyInv'
<1>. USE DEF flowVars
<1>0. /\ place[c] = "splicing" /\ UNCHANGED <<place, kind, hello, paused, cut>>
      /\ s \in {"client", "remote"}
  BY DEF Sends, Copies, PipeEnds, Sides
<1>1. Delivered(c) /\ ToldInTime(c) /\ ProxyTyped
  BY DEF ProxyInv
<1>2. ToldInTime(c)'
  BY <1>0, <1>1 DEF ToldInTime
<1>3. CASE Sends(c, s)
  <2>1. /\ s \notin ended[c] /\ UNCHANGED <<got, piped, shut>>
        /\ \/ sent' = [sent EXCEPT ![c][s] = sent[c][s] + 1] /\ UNCHANGED ended
           \/ ended' = [ended EXCEPT ![c] = ended[c] \union {s}] /\ UNCHANGED sent
        /\ c \notin shut \/ s = "remote"
    BY <1>3 DEF Sends
  <2>2. ProxyTyped'
    <3>1. sent[c] \in [Sides -> Nat] /\ sent[c][s] + 1 \in Nat
      BY <1>1 DEF ProxyTyped
    <3>. DEFINE more == [sent[c] EXCEPT ![s] = sent[c][s] + 1]
    <3>2. more \in [Sides -> Nat]
      BY <3>1
    <3>3. sent' \in [Connections -> [Sides -> Nat]]
      <4>1. sent' = [sent EXCEPT ![c] = more] \/ sent' = sent
        BY <2>1
      <4>. HIDE DEF more
      <4>. QED  BY <1>1, <3>2, <4>1 DEF ProxyTyped
    <3>4. ended' \in [Connections -> SUBSET Sides]
      <4>1. ended \in [Connections -> SUBSET Sides] /\ ended[c] \union {s} \in SUBSET Sides
        BY <1>1 DEF ProxyTyped
      <4>. QED  BY <2>1, <4>1
    <3>. QED  BY <1>0, <1>1, <2>1, <3>3, <3>4 DEF ProxyTyped
  <2>3. /\ \A d \in Connections \ {c} : sent'[d] = sent[d] /\ ended'[d] = ended[d]
        /\ \A r \in Sides : r # s => sent'[c][r] = sent[c][r]
        /\ \A r \in Sides : r \in ended[c] => r \in ended'[c]
    BY <1>1, <2>1 DEF ProxyTyped
  <2>4. Delivered(c)'
    BY <1>0, <1>1, <2>1, <2>3 DEF Delivered, Sides
  <2>. QED  BY <1>0, <1>2, <2>1, <2>2, <2>3, <2>4, OneConnection
<1>4. CASE Copies(c, s)
  <2>1. /\ s \notin piped[c] /\ UNCHANGED <<sent, ended, piped, shut>>
        /\ got' = [got EXCEPT ![c][Other(s)] = got[c][Other(s)] + 1]
        /\ s = "client" \/ c \notin shut
    BY <1>4 DEF Copies
  <2>2. Other(s) \in Sides /\ (s = "client" => Other(s) = "remote") /\ (s = "remote" => Other(s) = "client")
    BY <1>0 DEF Other, Sides
  <2>3. /\ \A d \in Connections \ {c} : got'[d] = got[d]
        /\ \A r \in Sides : r # Other(s) => got'[c][r] = got[c][r]
        /\ ProxyTyped'
    BY <1>0, <1>1, <2>1, <2>2 DEF ProxyTyped
  <2>4. Delivered(c)'
    BY <1>0, <1>1, <2>1, <2>2, <2>3 DEF Delivered, Sides
  <2>. QED  BY <1>0, <1>2, <2>1, <2>3, <2>4, OneConnection
<1>5. CASE PipeEnds(c, s)
  <2>1. /\ s \notin piped[c] /\ UNCHANGED <<sent, got, ended>>
        /\ \/ s \in ended[c] /\ got[c][Other(s)] = sent[c][s]
           \/ c \in shut
        /\ piped' = [piped EXCEPT ![c] = piped[c] \union {s}]
        /\ shut' = IF s = "remote" /\ kind[c] = "tls" THEN shut \union {c} ELSE shut
    BY <1>5 DEF PipeEnds
  <2>2. (s = "client" => Other(s) = "remote") /\ (s = "remote" => Other(s) = "client")
    BY <1>0 DEF Other
  <2>3. /\ \A d \in Connections \ {c} : piped'[d] = piped[d] /\ (d \in shut' <=> d \in shut)
        /\ piped'[c] = piped[c] \union {s}
        /\ ProxyTyped'
    BY <1>0, <1>1, <2>1 DEF ProxyTyped
  <2>4. Delivered(c)'
    BY <1>0, <1>1, <2>1, <2>2, <2>3 DEF Delivered, Sides, ProxyTyped
  <2>. QED  BY <1>0, <1>2, <2>1, <2>3, <2>4, OneConnection
<1>. QED  BY <1>3, <1>4, <1>5

\* A tunnel that ends by itself has carried both directions to their ends.
LEMMA EndKeepsProxy ==
    ASSUME ProxyInv, NEW c \in Connections, SpliceEnds(c)
    PROVE  ProxyInv'
<1>1. /\ place[c] = "splicing" /\ piped[c] = Sides
      /\ place' = [place EXCEPT ![c] = "gone"] /\ hello' = [hello EXCEPT ![c] = "unsent"]
      /\ paused' = paused \ {c} /\ shut' = shut \ {c}
      /\ ended' = [ended EXCEPT ![c] = {}] /\ piped' = [piped EXCEPT ![c] = {}]
      /\ UNCHANGED <<kind, sent, got, cut>>
  BY DEF SpliceEnds, Forget, HandlerGoes
<1>2. /\ place'[c] = "gone" /\ hello'[c] = "unsent" /\ piped'[c] = {} /\ c \notin shut'
      /\ \A d \in Connections \ {c} :
            /\ place'[d] = place[d] /\ hello'[d] = hello[d]
            /\ ended'[d] = ended[d] /\ piped'[d] = piped[d]
      /\ ProxyTyped'
  BY <1>1 DEF ProxyInv, ProxyTyped
<1>3. /\ got[c]["client"] = sent[c]["remote"]
      /\ kind[c] = "tcp" => got[c]["remote"] = sent[c]["client"]
  BY <1>1 DEF ProxyInv, Delivered, Sides
<1>4. ToldInTime(c)' /\ Delivered(c)'
  BY <1>1, <1>2, <1>3 DEF ToldInTime, Delivered
<1>. QED  BY <1>1, <1>2, <1>4, OneConnection

\* Every step keeps the invariant.
LEMMA ProxySteps == ProxyInv /\ [ProxyNext]_proxyVars => ProxyInv'
<1>. SUFFICES ASSUME ProxyInv, [ProxyNext]_proxyVars PROVE ProxyInv'
  OBVIOUS
<1>. USE DEF flowVars
<1>0. \A c \in Connections : ToldInTime(c) /\ DOMAIN hello = Connections /\ kind[c] \in {"tls", "tcp"}
  BY DEF ProxyInv, ProxyTyped
<1>1. ASSUME NEW c \in Connections, Fails(c) PROVE ProxyInv'
  BY <1>1, FailingKeepsProxy
<1>2. ASSUME NEW c \in Connections, Accepts(c) PROVE ProxyInv'
  <2>1. CASE HandlerGoes(c, "rejecting")
    BY <1>0, <1>2, <2>1, AdvanceKeepsProxy DEF Accepts, ToldInTime
  <2>2. CASE HandlerGoes(c, "head") /\ ~ (Cardinality(Busy) >= MaxConnections)
    <3>1. Cardinality(Busy) < MaxConnections
      BY <2>2, FS_CardinalityType, ProxyBounds DEF ProxyInv, SeatsCounted
    <3>. QED  BY <1>0, <1>2, <2>2, <3>1, AdvanceKeepsProxy DEF Accepts, ToldInTime
  <2>. QED  BY <1>2, <2>1, <2>2 DEF Accepts
<1>3. ASSUME NEW c \in Connections, ReadsHead(c) PROVE ProxyInv'
  BY <1>0, <1>1, <1>3, AdvanceKeepsProxy DEF ReadsHead, ToldInTime
<1>4. ASSUME NEW c \in Connections, Dials(c) PROVE ProxyInv'
  <2>1. CASE kind[c] = "tls"
    BY <1>0, <1>1, <1>4, <2>1, AdvanceKeepsProxy DEF Dials, ToldInTime
  <2>2. CASE kind[c] # "tls"
    BY <1>0, <1>1, <1>4, <2>2, AdvanceKeepsProxy DEF Dials, ToldInTime
  <2>. QED  BY <2>1, <2>2
<1>5. ASSUME NEW c \in Connections, Mints(c) PROVE ProxyInv'
  BY <1>0, <1>5, AdvanceKeepsProxy DEF Mints, ToldInTime
<1>6. ASSUME NEW c \in Connections, SaysEstablished(c) PROVE ProxyInv'
  <2>1. CASE kind[c] = "tls"
    BY <1>0, <1>6, <2>1, AdvanceKeepsProxy DEF SaysEstablished, ToldInTime
  <2>2. CASE kind[c] # "tls"
    BY <1>0, <1>6, <2>2, AdvanceKeepsProxy DEF SaysEstablished, ToldInTime
  <2>. QED  BY <2>1, <2>2
<1>7. ASSUME NEW c \in Connections, StartsTls(c) PROVE ProxyInv'
  <2>1. /\ HandlerGoes(c, "handshake") /\ place[c] = "upgrading" /\ paused' = paused \ {c}
        /\ hello' = [hello EXCEPT ![c] = IF hello[c] = "socket" THEN "met" ELSE hello[c]]
        /\ UNCHANGED <<kind, sent, got, ended, piped, shut, cut>>
    BY <1>7 DEF StartsTls
  <2>2. /\ DOMAIN hello' = Connections /\ hello'[c] # "lost"
        /\ \A d \in Connections \ {c} : hello'[d] = hello[d]
    BY <1>0, <2>1 DEF ToldInTime
  <2>. QED  BY <2>1, <2>2, AdvanceKeepsProxy
<1>8. ASSUME NEW c \in Connections, Handshakes(c) PROVE ProxyInv'
  BY <1>0, <1>1, <1>8, AdvanceKeepsProxy DEF Handshakes, ToldInTime
<1>9. ASSUME NEW c \in Connections, ClientHello(c) PROVE ProxyInv'
  <2>1. /\ place[c] \in {"upgrading", "handshake"} /\ kind[c] = "tls"
        /\ hello' = [hello EXCEPT ![c] = IF place[c] = "handshake" THEN "met"
                                         ELSE IF c \in paused THEN "socket" ELSE "lost"]
        /\ UNCHANGED <<place, kind, paused, sent, got, ended, piped, shut, cut>>
    BY <1>9 DEF ClientHello
  <2>2. /\ DOMAIN hello' = Connections /\ hello'[c] # "lost"
        /\ \A d \in Connections \ {c} : hello'[d] = hello[d]
    BY <1>0, <2>1 DEF ToldInTime
  <2>3. ProxyTyped' /\ Delivered(c)' /\ ToldInTime(c)'
    BY <2>1, <2>2 DEF ProxyInv, ProxyTyped, Delivered, ToldInTime
  <2>. QED  BY <2>1, <2>2, <2>3, OneConnection
<1>10. ASSUME NEW c \in Connections, NEW s \in Sides, Sends(c, s) \/ Copies(c, s) \/ PipeEnds(c, s)
       PROVE  ProxyInv'
  BY <1>10, SplicingKeepsProxy
<1>11. ASSUME NEW c \in Connections, SpliceEnds(c) PROVE ProxyInv'
  BY <1>11, EndKeepsProxy
<1>12. ASSUME NEW c \in Connections, Rejects(c) \/ HandshakeTimesOut(c) \/ IdlesOut(c) \/ CutOff(c)
       PROVE  ProxyInv'
  BY <1>1, <1>12 DEF Rejects, HandshakeTimesOut, IdlesOut, CutOff
<1>13. CASE UNCHANGED proxyVars
  <2>1. UNCHANGED <<place, kind, hello, paused, sent, got, ended, piped, shut, cut>>
    BY <1>13 DEF proxyVars
  <2>. QED  BY <2>1 DEF ProxyInv, ProxyTyped, SeatsCounted, Busy, Live, Served, ToldInTime, Delivered
<1>. QED  BY <1>2, <1>3, <1>4, <1>5, <1>6, <1>7, <1>8, <1>9, <1>10, <1>11, <1>12, <1>13
          DEF ProxyNext, Handler

\* However many connect, no more are served than there are seats, no client's first
\* message is lost, and no tunnel that ends by itself keeps back a part of an answer:
\* for any number of connections and whatever their peers do.
THEOREM ProxyServesWhole == ProxySpec => []ServedWhole
<1>1. ProxyInv => ServedWhole
  BY DEF ProxyInv, SeatsCounted, Served, ToldInTime, Delivered, ServedWhole, ServedWithinLimits,
         AnswersArriveWhole
<1>. QED  BY <1>1, ProxyStarts, ProxySteps, PTL DEF ProxySpec

================================================================================

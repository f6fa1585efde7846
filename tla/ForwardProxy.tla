------------------------------ MODULE ForwardProxy ------------------------------
(***************************************************************************)
(* The CONNECT proxy, src/proxy/forward.py: connections to the listed      *)
(* hosts are TLS-terminated and spliced into the router, all others are    *)
(* tunnelled blindly.  A handler is a task; it can be cancelled wherever   *)
(* it waits.  Data is counted in chunks, in both directions; a chunk is in *)
(* the hands of its sender, on its way, or with its receiver.              *)
(*                                                                         *)
(* What matters of TLS: the client starts it once it has been told the     *)
(* tunnel stands, its first message must meet a server that listens, and   *)
(* a TLS connection cannot be closed in one direction only.                *)
(***************************************************************************)
EXTENDS Naturals, FiniteSets

CONSTANTS
    Connections,      \* the connections clients open
    MaxConnections,   \* _MAX_CONNECTIONS
    Chunks            \* bound: chunks a side sends

ASSUME ProxyBounds == MaxConnections \in Nat

VARIABLES
    place,     \* connection -> where its handler is
    kind,      \* connection -> "tls" (intercepted) or "tcp" (tunnelled)
    hello,     \* connection -> the client's first TLS message: "unsent", "socket", "lost", "met"
    paused,    \* connections whose bytes stay in the socket
    sent,      \* connection -> side -> chunks sent
    got,       \* connection -> side -> chunks of the other side received
    ended,     \* connection -> sides that have sent their last chunk
    piped,     \* connection -> sides whose direction has been copied to its end
    shut,      \* connections closed towards the client
    cut        \* history: connections that did not end by themselves

proxyVars == <<place, kind, hello, paused, sent, got, ended, piped, shut, cut>>
flowVars == <<sent, got, ended, piped>>

Sides == {"client", "remote"}
Other(s) == IF s = "client" THEN "remote" ELSE "client"
Live(c) == place[c] \notin {"none", "gone"}
Busy == {c \in Connections : Live(c)}

ProxyInit ==
    /\ place = [c \in Connections |-> "none"]
    /\ kind \in [Connections -> {"tls", "tcp"}]
    /\ hello = [c \in Connections |-> "unsent"]
    /\ paused = {}
    /\ sent = [c \in Connections |-> [s \in Sides |-> 0]]
    /\ got = [c \in Connections |-> [s \in Sides |-> 0]]
    /\ ended = [c \in Connections |-> {}]
    /\ piped = [c \in Connections |-> {}]
    /\ shut = {}
    /\ cut = {}

-----------------------------------------------------------------------------
(* The handler *)

HandlerGoes(c, to) == place' = [place EXCEPT ![c] = to]

\* _accept: the handler is registered before anything else runs; one too many is
\* only told so.
Accepts(c) ==
    /\ place[c] = "none"
    /\ HandlerGoes(c, IF Cardinality(Busy) >= MaxConnections THEN "rejecting" ELSE "head")
    /\ UNCHANGED <<kind, hello, paused, flowVars, shut, cut>>

\* The end of a handler: both its writers are closed, what they hold is flushed;
\* what was carried to the end is remembered.
Forget(c) ==
    /\ HandlerGoes(c, "gone")
    /\ hello' = [hello EXCEPT ![c] = "unsent"]
    /\ paused' = paused \ {c}
    /\ shut' = shut \ {c}
    /\ ended' = [ended EXCEPT ![c] = {}]
    /\ piped' = [piped EXCEPT ![c] = {}]
    /\ UNCHANGED kind

\* It failed, or was made to end.
Fails(c) ==
    /\ Forget(c)
    /\ cut' = cut \union {c}
    /\ sent' = [sent EXCEPT ![c] = [s \in Sides |-> 0]]
    /\ got' = [got EXCEPT ![c] = [s \in Sides |-> 0]]

Rejects(c) ==
    /\ place[c] = "rejecting"
    /\ Fails(c)

\* _dispatch: a CONNECT request is read, in time, and its target dialled.
ReadsHead(c) ==
    /\ place[c] = "head"
    /\ \/ HandlerGoes(c, "dialing") /\ UNCHANGED <<kind, hello, paused, flowVars, shut, cut>>
       \/ Fails(c)

Dials(c) ==
    /\ place[c] = "dialing"
    /\ \/ /\ HandlerGoes(c, IF kind[c] = "tls" THEN "minting" ELSE "announcing")
          /\ UNCHANGED <<kind, hello, paused, flowVars, shut, cut>>
       \/ Fails(c)

\* _intercept mints the certificate on a worker thread, then stops reading.
Mints(c) ==
    /\ place[c] = "minting"
    /\ paused' = paused \union {c}
    /\ HandlerGoes(c, "announcing")
    /\ UNCHANGED <<kind, hello, flowVars, shut, cut>>

SaysEstablished(c) ==
    /\ place[c] = "announcing"
    /\ HandlerGoes(c, IF kind[c] = "tls" THEN "upgrading" ELSE "splicing")
    /\ UNCHANGED <<kind, hello, paused, flowVars, shut, cut>>

\* The client is told; from here on it may talk TLS.
ClientHello(c) ==
    /\ kind[c] = "tls"
    /\ place[c] \in {"upgrading", "handshake"}
    /\ hello[c] = "unsent"
    /\ hello' = [hello EXCEPT ![c] =
                    IF place[c] = "handshake" THEN "met"
                    ELSE IF c \in paused THEN "socket" ELSE "lost"]
    /\ UNCHANGED <<place, kind, paused, flowVars, shut, cut>>

\* start_tls resumes reading, and finds what waited in the socket.
StartsTls(c) ==
    /\ place[c] = "upgrading"
    /\ HandlerGoes(c, "handshake")
    /\ paused' = paused \ {c}
    /\ hello' = [hello EXCEPT ![c] = IF @ = "socket" THEN "met" ELSE @]
    /\ UNCHANGED <<kind, flowVars, shut, cut>>

Handshakes(c) ==
    /\ place[c] = "handshake"
    /\ hello[c] = "met"
    /\ \/ HandlerGoes(c, "splicing") /\ UNCHANGED <<kind, hello, paused, flowVars, shut, cut>>
       \/ Fails(c)

\* The client has 30 seconds; one that opened a spare connection says nothing.
HandshakeTimesOut(c) ==
    /\ place[c] = "handshake"
    /\ hello[c] # "met"
    /\ Fails(c)

-----------------------------------------------------------------------------
(* _splice: one pipe for each direction *)

Sends(c, s) ==
    /\ place[c] = "splicing" /\ s \notin ended[c]
    /\ c \notin shut \/ s = "remote"
    /\ \/ /\ sent[c][s] < Chunks
          /\ sent' = [sent EXCEPT ![c][s] = @ + 1]
          /\ UNCHANGED ended
       \/ /\ ended' = [ended EXCEPT ![c] = @ \union {s}]
          /\ UNCHANGED sent
    /\ UNCHANGED <<place, kind, hello, paused, got, piped, shut, cut>>

Copies(c, s) ==
    /\ place[c] = "splicing" /\ s \notin piped[c]
    /\ got[c][Other(s)] < sent[c][s]
    /\ s = "client" \/ c \notin shut
    /\ got' = [got EXCEPT ![c][Other(s)] = @ + 1]
    /\ UNCHANGED <<place, kind, hello, paused, sent, ended, piped, shut, cut>>

\* Mutant: the end of either direction closes the client's connection.
MutPipeEnds(c, s) ==
    /\ place[c] = "splicing" /\ s \notin piped[c]
    /\ \/ s \in ended[c] /\ got[c][Other(s)] = sent[c][s]
       \/ c \in shut
    /\ piped' = [piped EXCEPT ![c] = @ \union {s}]
    /\ shut' = shut \union {c}
    /\ UNCHANGED <<place, kind, hello, paused, sent, got, ended, cut>>

\* The end of one direction is passed on; towards a TLS client it closes the whole
\* connection, which ends the other pipe too.
PipeEnds(c, s) ==
    /\ place[c] = "splicing" /\ s \notin piped[c]
    /\ \/ s \in ended[c] /\ got[c][Other(s)] = sent[c][s]
       \/ c \in shut
    /\ piped' = [piped EXCEPT ![c] = @ \union {s}]
    /\ shut' = IF s = "remote" /\ kind[c] = "tls" THEN shut \union {c} ELSE shut
    /\ UNCHANGED <<place, kind, hello, paused, sent, got, ended, cut>>

SpliceEnds(c) ==
    /\ place[c] = "splicing"
    /\ piped[c] = Sides
    /\ Forget(c)
    /\ UNCHANGED <<sent, got, cut>>

\* Mutant: the idle timer waits for one direction to end.
MutIdlesOut(c) ==
    /\ place[c] = "splicing"
    /\ piped[c] \notin {{}, Sides}
    /\ Fails(c)

\* Neither side has moved for the whole interval; a side that is only slow has.
IdlesOut(c) ==
    /\ place[c] = "splicing"
    /\ piped[c] # Sides
    /\ \A s \in Sides : got[c][Other(s)] = sent[c][s]
    /\ Fails(c)

\* The client resets its connection, or stop() cancels the handler.
CutOff(c) ==
    /\ Live(c)
    /\ Fails(c)

Handler(c) ==
    \/ Rejects(c) \/ ReadsHead(c) \/ Dials(c) \/ Mints(c) \/ SaysEstablished(c)
    \/ StartsTls(c) \/ Handshakes(c) \/ HandshakeTimesOut(c)
    \/ SpliceEnds(c) \/ IdlesOut(c)
    \/ \E s \in Sides : Copies(c, s) \/ PipeEnds(c, s)

ProxyNext ==
    \E c \in Connections :
       \/ Accepts(c) \/ Handler(c) \/ ClientHello(c) \/ CutOff(c)
       \/ \E s \in Sides : Sends(c, s)

\* A handler goes on, its deadlines pass, and neither needs anything of the peers.
ProxyFairness == \A c \in Connections : WF_proxyVars(Handler(c))

ProxySpec == ProxyInit /\ [][ProxyNext]_proxyVars /\ ProxyFairness

-----------------------------------------------------------------------------
(* Properties *)

\* However many connect, at most MaxConnections are served at a time, and a client's
\* first TLS message is never taken by a reader that cannot use it.
ServedWithinLimits ==
    /\ Cardinality({c \in Connections : place[c] \notin {"none", "gone", "rejecting"}}) <= MaxConnections
    /\ \A c \in Connections : hello[c] # "lost"

\* A side that has sent its last chunk still gets the whole answer: unless somebody
\* hangs up, is cut off or falls silent, a tunnel ends with everything delivered that
\* the remote side sent, and towards a plain tunnel in the other direction too.
AnswersArriveWhole ==
    \A c \in Connections :
        (place[c] = "gone" /\ c \notin cut) =>
           /\ got[c]["client"] = sent[c]["remote"]
           /\ kind[c] = "tcp" => got[c]["remote"] = sent[c]["client"]

\* Each connection that is served is served whole.
ServedWhole == ServedWithinLimits /\ AnswersArriveWhole

\* No tunnel outlives its peers: whatever they do or leave undone, it is closed.
TunnelsEnd == \A c \in Connections : []<>(~Live(c))
=============================================================================

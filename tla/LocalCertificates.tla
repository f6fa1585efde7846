---------------------------- MODULE LocalCertificates ----------------------------
(***************************************************************************)
(* The certificates the forward proxy shows (ca.py): a CA and, per host, a *)
(* leaf signed by it, each a certificate and a key in two files, and the   *)
(* TLS contexts built from them.  Each file is replaced at once, but the   *)
(* router may die between two of them, and worker threads ask for contexts *)
(* at the same time.  A key pair is a number.                              *)
(***************************************************************************)
EXTENDS Naturals, FiniteSets

CONSTANTS
    Workers,    \* worker threads
    Hosts,
    MaxPairs    \* bound: key pairs ever generated

VARIABLES
    caKey, caCert,   \* the pair whose key, whose certificate is on disk
    leafKey,         \* host -> the pair whose key is on disk
    leafCert,        \* host -> [pair, signer] of the certificate on disk
    contexts,        \* host -> [pair, signer] of the cached context
    lock,            \* who holds the lock, or Nobody
    step,            \* worker -> what it does next
    host,            \* worker -> what it was asked for
    pair             \* worker -> the pair it is writing

caFiles == <<caKey, caCert>>
leafFiles == <<leafKey, leafCert>>
certVars == <<caKey, caCert, leafKey, leafCert, contexts, lock, step, host, pair>>

Nobody == "nobody"
ASSUME WorkerAssumption == Nobody \notin Workers

Missing == 0
NoCert == [pair |-> Missing, signer |-> Missing]

Init ==
    /\ caKey = Missing /\ caCert = Missing
    /\ leafKey = [h \in Hosts |-> Missing]
    /\ leafCert = [h \in Hosts |-> NoCert]
    /\ contexts = [h \in Hosts |-> NoCert]
    /\ lock = Nobody
    /\ step = [w \in Workers |-> "idle"]
    /\ host \in [Workers -> Hosts]
    /\ pair = [w \in Workers |-> Missing]

\* The lowest number no file, context or worker has.
Used == {caKey, caCert} \union {leafKey[h] : h \in Hosts} \union {pair[w] : w \in Workers}
        \union UNION {{leafCert[h].pair, leafCert[h].signer} : h \in Hosts}
        \union UNION {{contexts[h].pair, contexts[h].signer} : h \in Hosts}
Fresh == CHOOSE n \in 1..MaxPairs :
            n \notin Used /\ \A m \in 1..MaxPairs : m < n => m \in Used

WorkerGoes(w, to) == step' = [step EXCEPT ![w] = to]
Generates(w) == pair' = [pair EXCEPT ![w] = Fresh]

-----------------------------------------------------------------------------
(* server_ssl_context                                                        *)

Asks(w, h) ==
    /\ step[w] = "idle"
    /\ host' = [host EXCEPT ![w] = h]
    /\ WorkerGoes(w, "asking")
    /\ UNCHANGED <<caFiles, leafFiles, contexts, lock, pair>>

\* A cached context is returned as it is.
Enters(w) ==
    /\ step[w] = "asking"
    /\ lock = Nobody
    /\ lock' = w
    /\ WorkerGoes(w, IF contexts[host[w]] # NoCert THEN "shown" ELSE "ca")
    /\ UNCHANGED <<caFiles, leafFiles, contexts, host, pair>>

\* Mutant: a CA whose files are there is used.
MutCAIsUsable == caKey # Missing /\ caCert # Missing

CAIsUsable == caKey # Missing /\ caCert = caKey

EnsuresCA(w) ==
    /\ step[w] = "ca"
    /\ IF CAIsUsable THEN WorkerGoes(w, "leaf") /\ UNCHANGED pair
                     ELSE WorkerGoes(w, "ca_key") /\ Generates(w)
    /\ UNCHANGED <<caFiles, leafFiles, contexts, lock, host>>

WritesCAKey(w) ==
    /\ step[w] = "ca_key"
    /\ caKey' = pair[w]
    /\ WorkerGoes(w, "ca_cert")
    /\ UNCHANGED <<caCert, leafFiles, contexts, lock, host, pair>>

WritesCACert(w) ==
    /\ step[w] = "ca_cert"
    /\ caCert' = pair[w]
    /\ WorkerGoes(w, "leaf")
    /\ UNCHANGED <<caKey, leafFiles, contexts, lock, host, pair>>

\* The leaf verifies against the certificate of the CA; its dates are not looked at.
LeafIsUsable(h) ==
    /\ leafKey[h] # Missing
    /\ leafCert[h] = [pair |-> leafKey[h], signer |-> caCert]

EnsuresLeaf(w) ==
    /\ step[w] = "leaf"
    /\ IF LeafIsUsable(host[w])
       THEN WorkerGoes(w, "loading") /\ UNCHANGED <<contexts, pair>>
       ELSE /\ contexts' = [contexts EXCEPT ![host[w]] = NoCert]
            /\ WorkerGoes(w, "leaf_key") /\ Generates(w)
    /\ UNCHANGED <<caFiles, leafFiles, lock, host>>

WritesLeafKey(w) ==
    /\ step[w] = "leaf_key"
    /\ leafKey' = [leafKey EXCEPT ![host[w]] = pair[w]]
    /\ WorkerGoes(w, "leaf_cert")
    /\ UNCHANGED <<caFiles, leafCert, contexts, lock, host, pair>>

\* Signed with the key of the CA that was loaded with its certificate.
WritesLeafCert(w) ==
    /\ step[w] = "leaf_cert"
    /\ leafCert' = [leafCert EXCEPT ![host[w]] = [pair |-> pair[w], signer |-> caKey]]
    /\ WorkerGoes(w, "loading")
    /\ UNCHANGED <<caFiles, leafKey, contexts, lock, host, pair>>

Loads(w) ==
    /\ step[w] = "loading"
    /\ contexts' = [contexts EXCEPT ![host[w]] = leafCert[host[w]]]
    /\ WorkerGoes(w, "built")
    /\ UNCHANGED <<caFiles, leafFiles, lock, host, pair>>

ReturnsContext(w) ==
    /\ step[w] \in {"built", "shown"}
    /\ lock' = Nobody
    /\ WorkerGoes(w, "idle")
    /\ pair' = [pair EXCEPT ![w] = Missing]
    /\ UNCHANGED <<caFiles, leafFiles, contexts, host>>

-----------------------------------------------------------------------------
(* The router dies, wherever its workers are; files are lost by hand         *)

Dies ==
    /\ contexts' = [h \in Hosts |-> NoCert]
    /\ lock' = Nobody
    /\ step' = [w \in Workers |-> "idle"]
    /\ pair' = [w \in Workers |-> Missing]
    /\ UNCHANGED <<caFiles, leafFiles, host>>

\* One that cannot be read counts as missing.  No hand is in the directory while it is
\* being written.
Loses ==
    /\ lock = Nobody
    /\ \/ caKey' = Missing /\ UNCHANGED <<caCert, leafFiles>>
       \/ caCert' = Missing /\ UNCHANGED <<caKey, leafFiles>>
       \/ \E h \in Hosts : /\ leafKey' = [leafKey EXCEPT ![h] = Missing]
                           /\ UNCHANGED <<caFiles, leafCert>>
    /\ UNCHANGED <<contexts, lock, step, host, pair>>

Next ==
    \/ \E w \in Workers :
          \/ \E h \in Hosts : Asks(w, h)
          \/ Enters(w) \/ EnsuresCA(w) \/ WritesCAKey(w) \/ WritesCACert(w)
          \/ EnsuresLeaf(w) \/ WritesLeafKey(w) \/ WritesLeafCert(w) \/ Loads(w) \/ ReturnsContext(w)
    \/ Dies \/ Loses

Spec == Init /\ [][Next]_certVars

-----------------------------------------------------------------------------
\* Wherever the router died before, and whoever minted beside it: a context that was built
\* has a certificate for its own key, which a client that trusts the CA's certificate on
\* disk verifies ("That state signs leaves the published cert cannot verify", ca.py:135).
\* Nothing of the kind is true of a context that was cached ("shown").
BuiltVerifies ==
    \A w \in Workers : step[w] = "built" =>
        contexts[host[w]] = [pair |-> leafKey[host[w]], signer |-> caCert]

=============================================================================

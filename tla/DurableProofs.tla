---------------------------- MODULE DurableProofs ----------------------------
(***************************************************************************)
(* Proofs about what outlives a process: the state file of the breakers    *)
(* (StatePublish.tla), for any breakers, any finite set of threads that    *)
(* publish for them, any reasons, and disks that fail or do not; the       *)
(* weekly mail (WeeklyDelivery.tla); the certificates that the forward     *)
(* proxy shows (LocalCertificates.tla); and the desktop application that   *)
(* is patched (DesktopPatch.tla).  They share no state; each has its own   *)
(* section, with its own invariant.                                        *)
(***************************************************************************)
EXTENDS StatePublish, WeeklyDelivery, LocalCertificates, DesktopPatch, FiniteSetTheorems, TLAPS

-----------------------------------------------------------------------------
(* The state file.  The argument follows a publication that meets no other: *)
(* its payload is what the registry says until it ends, the temporary name  *)
(* stands for the file it has open, that file is not the published one, and *)
(* what it holds is that payload alone.  While nothing has overlapped every *)
(* publication in progress is of that kind.                                 *)

\* A thread has a file open exactly while it writes.
WritersWrite == \A w \in Threads : writes[w] # None <=> place[w] = "writing"

\* A solitary publication is in progress, and no other is; without an overlap
\* there is no publication in progress but a solitary one.
SolitaryIsAlone ==
    \A w \in Threads :
        /\ w \in solitary => place[w] # "idle" /\ \A v \in Threads \ {w} : place[v] = "idle"
        /\ ~overlapped /\ place[w] # "idle" => w \in solitary

\* The registry says what the breakers say, and before all are constructed they
\* are closed.
RegistryIsTrue == registry = failing /\ (built # Breakers => failing = Closed)

\* The temporary name never stands for the published file.
NamesDiffer == tmp # None => tmp # state

\* What a solitary publication has done so far.
SolitaryProgress ==
    \A w \in solitary :
        /\ place[w] \in {"opening", "writing", "replacing"} => reasons[w] = registry
        /\ place[w] = "writing" => tmp # None /\ tmp = writes[w] /\ content[tmp] = {}
        /\ place[w] = "replacing" /\ tmp # None => content[tmp] = {reasons[w]}

\* What makes the file right once it has settled.
SettlesRight == Settled => state # None /\ content[state] = {failing}

PublishInv ==
    /\ PublishTypeOK
    /\ WritersWrite
    /\ SolitaryIsAlone
    /\ RegistryIsTrue
    /\ NamesDiffer
    /\ SolitaryProgress
    /\ WholeUnlessOverlapped
    /\ SettlesRight

-----------------------------------------------------------------------------
\* A new file is none that anything stands for: there is one more of them than
\* threads, and the thread that opens one has none open.
LEMMA UnusedIsFresh ==
    ASSUME OwnerAssumption, PublishTypeOK, NEW w \in Threads, writes[w] = None
    PROVE  Unused \in Files /\ Unused # state /\ \A v \in Threads : writes[v] # Unused
<1>1. \E f \in Files : f # state /\ \A v \in Threads : writes[v] # f
  <2>. SUFFICES ASSUME \A f \in Files : f = state \/ \E v \in Threads : writes[v] = f
                PROVE  FALSE
    OBVIOUS
  <2>. DEFINE g == [f \in Files |-> IF f = state THEN w
                                    ELSE CHOOSE v \in Threads : writes[v] = f]
  <2>1. Cardinality(Threads) \in Nat /\ IsFiniteSet(Threads)
    BY FS_CardinalityType DEF OwnerAssumption
  <2>2. IsFiniteSet(Files) /\ Cardinality(Files) = Cardinality(Threads) + 1
    BY <2>1, FS_Interval DEF Files
  <2>3. \A f \in Files : f # state => g[f] \in Threads /\ writes[g[f]] = f
    OBVIOUS
  <2>4. g \in [Files -> Threads]
    BY <2>3
  <2>5. PICK x, y \in Files : x # y /\ g[x] = g[y]
    <3>. HIDE DEF g
    <3>. QED  BY <2>1, <2>2, <2>4, FS_PigeonHole
  <2>6. None \notin Files
    BY DEF OwnerAssumption
  <2>7. \A f \in Files : f = state => g[f] = w
    OBVIOUS
  <2>. HIDE DEF g
  <2>. QED  BY <2>3, <2>5, <2>6, <2>7
<1>. QED  BY <1>1 DEF Unused

\* What Keeps keeps of the named and the open files.
LEMMA KeepsFacts ==
    ASSUME NEW c \in [Files -> SUBSET Snapshots], Keeps(c)
    PROVE  /\ content' \in [Files -> SUBSET Snapshots]
           /\ \A f \in Files : f \in {tmp', state'} => content'[f] = c[f]
BY DEF Keeps

-----------------------------------------------------------------------------
(* The steps *)

\* There is no file, no publication and no open breaker to begin with.
LEMMA PublishStarts == OwnerAssumption /\ PublishInit => PublishInv
<1>. SUFFICES ASSUME OwnerAssumption, PublishInit PROVE PublishInv
  OBVIOUS
<1>1. Closed \in Snapshots
  BY DEF Closed, Snapshots
<1>2. PublishTypeOK
  BY <1>1 DEF PublishInit, PublishTypeOK
<1>3. WritersWrite /\ SolitaryIsAlone /\ RegistryIsTrue /\ NamesDiffer /\ SolitaryProgress
  BY DEF PublishInit, WritersWrite, SolitaryIsAlone, RegistryIsTrue, NamesDiffer, SolitaryProgress
<1>4. WholeUnlessOverlapped /\ SettlesRight
  BY DEF PublishInit, WholeUnlessOverlapped, ReadersSeeWhole, SettlesRight, Settled
<1>. QED  BY <1>2, <1>3, <1>4 DEF PublishInv

\* A publication that begins is solitary, or an overlap is on record.
LEMMA BeginsStep ==
    ASSUME OwnerAssumption, PublishInv, NEW w \in Threads, place[w] = "idle", Begins(w),
           failing' \in Snapshots, registry' = failing', built # Breakers => failing' = Closed,
           UNCHANGED <<built, reasons, writes, tmp, state, content>>
    PROVE  PublishInv'
<1>. USE DEF PublishInv
<1>1. /\ place' = [place EXCEPT ![w] = "listed"]
      /\ place'[w] = "listed" /\ \A v \in Threads \ {w} : place'[v] = place[v]
      /\ published' = published
  BY DEF Begins, PublisherGoes, PublishTypeOK
<1>2. \/ solitary' = {w} /\ overlapped' = overlapped /\ \A v \in Threads : place[v] = "idle"
      \/ solitary' = {} /\ overlapped' = TRUE
  BY DEF Begins
<1>3. PublishTypeOK'
  BY <1>1, <1>2 DEF PublishTypeOK
<1>4. WritersWrite'
  BY <1>1 DEF WritersWrite
<1>5. SolitaryIsAlone'
  BY <1>1, <1>2 DEF SolitaryIsAlone
<1>6. RegistryIsTrue' /\ NamesDiffer'
  BY DEF RegistryIsTrue, NamesDiffer
<1>7. SolitaryProgress'
  BY <1>1, <1>2 DEF SolitaryProgress
<1>8. WholeUnlessOverlapped'
  BY <1>2 DEF WholeUnlessOverlapped, ReadersSeeWhole
<1>9. SettlesRight'
  BY <1>1 DEF SettlesRight, Settled
<1>. QED  BY <1>3, <1>4, <1>5, <1>6, <1>7, <1>8, <1>9

\* A breaker that is constructed or flips is in the registry as it is.
LEMMA FlipStep ==
    ASSUME OwnerAssumption, PublishInv, NEW w \in Threads, Constructs(w) \/ Flips(w)
    PROVE  PublishInv'
<1>1. Owner[w] \in Breakers
  BY DEF OwnerAssumption
<1>2. CASE Constructs(w)
  <2>1. failing = Closed /\ registry = failing /\ built # Breakers
    BY <1>1, <1>2 DEF Constructs, PublishInv, RegistryIsTrue
  <2>2. registry' = registry
    BY <1>1, <1>2, <2>1 DEF Constructs, Closed
  <2>. QED  BY <1>2, <2>1, <2>2, BeginsStep DEF Constructs, PublishInv, PublishTypeOK
<1>3. CASE Flips(w)
  <2>1. failing' \in Snapshots /\ registry' = failing'
    BY <1>1, <1>3 DEF Flips, PublishInv, PublishTypeOK, RegistryIsTrue, Snapshots
  <2>. QED  BY <1>3, <2>1, BeginsStep DEF Flips
<1>. QED  BY <1>2, <1>3

\* A solitary publication takes the registry as it is.
LEMMA SnapshotStep ==
    ASSUME OwnerAssumption, PublishInv, NEW w \in Threads, Snapshot(w)
    PROVE  PublishInv'
<1>. USE DEF PublishInv
<1>1. /\ place' = [place EXCEPT ![w] = "opening"] /\ place[w] = "listed"
      /\ place'[w] = "opening" /\ \A v \in Threads \ {w} : place'[v] = place[v]
      /\ reasons' = [reasons EXCEPT ![w] = registry]
      /\ reasons'[w] = registry /\ \A v \in Threads \ {w} : reasons'[v] = reasons[v]
      /\ UNCHANGED <<built, failing, registry, writes, tmp, state, content>>
      /\ UNCHANGED <<published, solitary, overlapped>>
  BY DEF Snapshot, PublisherGoes, PublishTypeOK, publishHistory
<1>2. PublishTypeOK'
  BY <1>1 DEF PublishTypeOK
<1>3. WritersWrite'
  BY <1>1 DEF WritersWrite
<1>4. SolitaryIsAlone'
  BY <1>1 DEF SolitaryIsAlone
<1>5. RegistryIsTrue' /\ NamesDiffer'
  BY <1>1 DEF RegistryIsTrue, NamesDiffer
<1>6. SolitaryProgress'
  BY <1>1 DEF SolitaryProgress, PublishTypeOK
<1>7. WholeUnlessOverlapped'
  BY <1>1 DEF WholeUnlessOverlapped, ReadersSeeWhole
<1>8. SettlesRight'
  BY <1>1 DEF SettlesRight, Settled
<1>. QED  BY <1>2, <1>3, <1>4, <1>5, <1>6, <1>7, <1>8

\* The file a publication truncates is not the published one.
LEMMA OpensTmpStep ==
    ASSUME OwnerAssumption, PublishInv, NEW w \in Threads, OpensTmp(w)
    PROVE  PublishInv'
<1>. USE DEF PublishInv
<1>. DEFINE f == IF tmp = None THEN Unused ELSE tmp
<1>1. f \in Files /\ f # state /\ f # None
  <2>1. writes[w] = None
    BY DEF OpensTmp, WritersWrite
  <2>2. None \notin Files
    BY DEF OwnerAssumption
  <2>. QED  BY <2>1, <2>2, UnusedIsFresh DEF NamesDiffer, PublishTypeOK
<1>2. /\ place' = [place EXCEPT ![w] = "writing"] /\ place[w] = "opening"
      /\ tmp' = f
      /\ content' = [content EXCEPT ![f] = {}]
      /\ writes' = [writes EXCEPT ![w] = f]
      /\ UNCHANGED <<built, failing, registry, reasons, state>>
      /\ UNCHANGED <<published, solitary, overlapped>>
  BY DEF OpensTmp, PublisherGoes, publishHistory
<1>. HIDE DEF f
<1>3. /\ place'[w] = "writing" /\ \A v \in Threads \ {w} : place'[v] = place[v]
      /\ writes'[w] = f /\ \A v \in Threads \ {w} : writes'[v] = writes[v]
      /\ content'[f] = {}
      /\ state # None => content'[state] = content[state]
  BY <1>1, <1>2 DEF PublishTypeOK
<1>4. PublishTypeOK'
  BY <1>1, <1>2 DEF PublishTypeOK
<1>5. WritersWrite'
  BY <1>1, <1>3 DEF WritersWrite
<1>6. SolitaryIsAlone'
  BY <1>2, <1>3 DEF SolitaryIsAlone
<1>7. RegistryIsTrue' /\ NamesDiffer'
  BY <1>1, <1>2 DEF RegistryIsTrue, NamesDiffer
<1>8. SolitaryProgress'
  <2>. SUFFICES ASSUME NEW v \in solitary
                PROVE  /\ place'[v] \in {"opening", "writing", "replacing"} => reasons'[v] = registry'
                       /\ place'[v] = "writing" => /\ tmp' # None /\ tmp' = writes'[v]
                                                   /\ content'[tmp'] = {}
                       /\ place'[v] = "replacing" /\ tmp' # None =>
                              content'[tmp'] = {reasons'[v]}
    BY <1>2 DEF SolitaryProgress
  <2>1. v = w
    BY <1>2 DEF SolitaryIsAlone, PublishTypeOK
  <2>2. reasons'[w] = registry'
    BY <1>2, <2>1 DEF SolitaryProgress
  <2>3. tmp' # None /\ tmp' = writes'[w]
    BY <1>1, <1>2, <1>3
  <2>4. content'[tmp'] = {}
    BY <1>2, <1>3
  <2>. QED  BY <1>3, <2>1, <2>2, <2>3, <2>4
<1>9. WholeUnlessOverlapped'
  BY <1>2, <1>3 DEF WholeUnlessOverlapped, ReadersSeeWhole
<1>10. SettlesRight'
  BY <1>3 DEF SettlesRight, Settled
<1>. QED  BY <1>4, <1>5, <1>6, <1>7, <1>8, <1>9, <1>10

\* A solitary publication leaves its payload alone in the file it opened.
LEMMA WritesStep ==
    ASSUME OwnerAssumption, PublishInv, NEW w \in Threads, Writes(w)
    PROVE  PublishInv'
<1>. USE DEF PublishInv
<1>. DEFINE f == writes[w]
<1>1. f \in Files /\ None \notin Files
  BY DEF Writes, WritersWrite, PublishTypeOK, OwnerAssumption
<1>2. /\ place' = [place EXCEPT ![w] = "replacing"] /\ place[w] = "writing"
      /\ writes' = [writes EXCEPT ![w] = None]
      /\ UNCHANGED <<built, failing, registry, reasons, tmp, state>>
      /\ UNCHANGED <<published, solitary, overlapped>>
  BY DEF Writes, PublisherGoes, publishHistory
<1>3. /\ place'[w] = "replacing" /\ \A v \in Threads \ {w} : place'[v] = place[v]
      /\ writes'[w] = None /\ \A v \in Threads \ {w} : writes'[v] = writes[v]
  BY <1>2 DEF PublishTypeOK
<1>4. PICK tail \in {{}, content[f]} :
          Keeps([content EXCEPT ![f] = {reasons[w]} \union tail])
  BY DEF Writes
<1>. DEFINE c == [content EXCEPT ![f] = {reasons[w]} \union tail]
<1>5. /\ c \in [Files -> SUBSET Snapshots]
      /\ c[f] = {reasons[w]} \union tail
      /\ \A g \in Files \ {f} : c[g] = content[g]
  BY <1>1, <1>4 DEF PublishTypeOK
<1>. HIDE DEF c, f
<1>6. /\ content' \in [Files -> SUBSET Snapshots]
      /\ \A g \in Files : g \in {tmp', state'} => content'[g] = c[g]
  BY <1>4, <1>5, KeepsFacts DEF c
<1>7. PublishTypeOK'
  BY <1>2, <1>6 DEF PublishTypeOK
<1>8. WritersWrite'
  BY <1>3 DEF WritersWrite
<1>9. SolitaryIsAlone'
  BY <1>2, <1>3 DEF SolitaryIsAlone
<1>10. RegistryIsTrue' /\ NamesDiffer'
  BY <1>2 DEF RegistryIsTrue, NamesDiffer
<1>11. w \in solitary => /\ tmp = f /\ tmp # None /\ tmp # state
                         /\ content'[tmp] = {reasons[w]} /\ reasons[w] = registry
                         /\ state # None => content'[state] = content[state]
  <2>. SUFFICES ASSUME w \in solitary
                PROVE  /\ tmp = f /\ tmp # None /\ tmp # state
                       /\ content'[tmp] = {reasons[w]} /\ reasons[w] = registry
                       /\ state # None => content'[state] = content[state]
    OBVIOUS
  <2>1. tmp = f /\ tmp # None /\ content[f] = {} /\ reasons[w] = registry
    BY <1>2 DEF SolitaryProgress, f
  <2>2. tail = {}
    BY <1>4, <2>1
  <2>. QED  BY <1>1, <1>2, <1>5, <1>6, <2>1, <2>2 DEF NamesDiffer, PublishTypeOK
<1>12. SolitaryProgress'
  <2>. SUFFICES ASSUME NEW v \in solitary
                PROVE  /\ place'[v] \in {"opening", "writing", "replacing"} => reasons'[v] = registry'
                       /\ place'[v] = "writing" => /\ tmp' # None /\ tmp' = writes'[v]
                                                   /\ content'[tmp'] = {}
                       /\ place'[v] = "replacing" /\ tmp' # None =>
                              content'[tmp'] = {reasons'[v]}
    BY <1>2 DEF SolitaryProgress
  <2>1. v = w
    BY <1>2 DEF SolitaryIsAlone, PublishTypeOK
  <2>. QED  BY <1>2, <1>3, <1>11, <2>1
<1>13. WholeUnlessOverlapped'
  BY <1>2, <1>11 DEF WholeUnlessOverlapped, ReadersSeeWhole, SolitaryIsAlone
<1>14. SettlesRight'
  BY <1>3 DEF SettlesRight, Settled
<1>. QED  BY <1>7, <1>8, <1>9, <1>10, <1>12, <1>13, <1>14

\* A publication that ends is no longer solitary, and its breaker is constructed.
LEMMA PublicationEndsFacts ==
    ASSUME OwnerAssumption, PublishInv, NEW w \in Threads, PublicationEnds(w), place[w] # "idle",
           UNCHANGED failing,
           writes' = [writes EXCEPT ![w] = None]
    PROVE  /\ place' \in [Threads -> {"idle", "listed", "opening", "writing", "replacing"}]
           /\ place'[w] = "idle" /\ \A v \in Threads \ {w} : place'[v] = place[v]
           /\ reasons' \in [Threads -> Snapshots]
           /\ \A v \in Threads \ {w} : reasons'[v] = reasons[v]
           /\ writes' \in [Threads -> Files \union {None}]
           /\ solitary' = solitary \ {w}
           /\ w \in solitary => solitary' = {}
           /\ built' \in SUBSET Breakers /\ (built' # Breakers => failing' = Closed)
           /\ WritersWrite'
<1>. USE DEF PublishInv
<1>1. Owner[w] \in Breakers /\ Closed \in Snapshots
  BY DEF OwnerAssumption, Closed, Snapshots
<1>2. /\ place' = [place EXCEPT ![w] = "idle"]
      /\ reasons' = [reasons EXCEPT ![w] = Closed]
      /\ built' = built \union {Owner[w]}
      /\ solitary' = solitary \ {w}
  BY DEF PublicationEnds, PublisherGoes
<1>3. w \in solitary => solitary' = {}
  BY <1>2 DEF SolitaryIsAlone, PublishTypeOK
<1>4. built' \in SUBSET Breakers /\ (built' # Breakers => failing' = Closed)
  BY <1>1, <1>2 DEF PublishTypeOK, RegistryIsTrue
<1>5. WritersWrite'
  BY <1>2 DEF WritersWrite, PublishTypeOK
<1>. QED  BY <1>1, <1>2, <1>3, <1>4, <1>5 DEF PublishTypeOK

\* What a solitary publication puts in place is what the breakers say.
LEMMA ReplacesStep ==
    ASSUME OwnerAssumption, PublishInv, NEW w \in Threads, Replaces(w)
    PROVE  PublishInv'
<1>. USE DEF PublishInv
<1>1. /\ place[w] = "replacing" /\ tmp # None /\ tmp \in Files
      /\ state' = tmp /\ tmp' = None /\ published' = TRUE
      /\ overlapped' = (overlapped /\ w \notin solitary)
      /\ UNCHANGED <<failing, registry, writes>>
      /\ PublicationEnds(w) /\ Keeps(content)
  BY DEF Replaces, PublishTypeOK
<1>2. writes' = [writes EXCEPT ![w] = None]
  <2>1. writes[w] = None
    BY <1>1 DEF WritersWrite
  <2>. QED  BY <1>1, <2>1 DEF PublishTypeOK
<1>3. /\ place' \in [Threads -> {"idle", "listed", "opening", "writing", "replacing"}]
      /\ place'[w] = "idle" /\ \A v \in Threads \ {w} : place'[v] = place[v]
      /\ reasons' \in [Threads -> Snapshots]
      /\ \A v \in Threads \ {w} : reasons'[v] = reasons[v]
      /\ writes' \in [Threads -> Files \union {None}]
      /\ solitary' = solitary \ {w}
      /\ w \in solitary => solitary' = {}
      /\ built' \in SUBSET Breakers /\ (built' # Breakers => failing' = Closed)
      /\ WritersWrite'
  BY <1>1, <1>2, PublicationEndsFacts
<1>4. content' \in [Files -> SUBSET Snapshots] /\ content'[tmp] = content[tmp]
  BY <1>1, KeepsFacts DEF PublishTypeOK
<1>5. PublishTypeOK'
  BY <1>1, <1>3, <1>4 DEF PublishTypeOK
<1>6. RegistryIsTrue' /\ NamesDiffer'
  BY <1>1, <1>3 DEF RegistryIsTrue, NamesDiffer
<1>7. SolitaryIsAlone'
  BY <1>1, <1>3 DEF SolitaryIsAlone, PublishTypeOK
<1>8. SolitaryProgress'
  BY <1>1, <1>3 DEF SolitaryProgress, SolitaryIsAlone, PublishTypeOK
<1>9. ~overlapped' => content'[state'] = {failing'} /\ Whole(content'[state'])
  <2>. SUFFICES ASSUME ~overlapped' PROVE content'[state'] = {failing'} /\ Whole(content'[state'])
    OBVIOUS
  <2>1. w \in solitary
    BY <1>1 DEF SolitaryIsAlone
  <2>2. content[tmp] = {failing} /\ failing \in Snapshots
    BY <1>1, <2>1 DEF SolitaryProgress, RegistryIsTrue, PublishTypeOK
  <2>. QED  BY <1>1, <1>4, <2>2 DEF Whole
<1>10. WholeUnlessOverlapped' /\ SettlesRight'
  BY <1>1, <1>9 DEF WholeUnlessOverlapped, ReadersSeeWhole, SettlesRight, Settled, Whole
<1>. QED  BY <1>3, <1>5, <1>6, <1>7, <1>8, <1>10

\* A publication that fails leaves the published file alone.
LEMMA ErrsStep ==
    ASSUME OwnerAssumption, PublishInv, NEW w \in Threads, Errs(w)
    PROVE  PublishInv'
<1>. USE DEF PublishInv
<1>1. /\ place[w] # "idle" /\ published' = FALSE
      /\ writes' = [writes EXCEPT ![w] = None]
      /\ UNCHANGED <<failing, registry, tmp, state, overlapped>>
      /\ PublicationEnds(w) /\ Keeps(content)
  BY DEF Errs
<1>2. /\ place' \in [Threads -> {"idle", "listed", "opening", "writing", "replacing"}]
      /\ place'[w] = "idle" /\ \A v \in Threads \ {w} : place'[v] = place[v]
      /\ reasons' \in [Threads -> Snapshots]
      /\ \A v \in Threads \ {w} : reasons'[v] = reasons[v]
      /\ writes' \in [Threads -> Files \union {None}]
      /\ solitary' = solitary \ {w}
      /\ w \in solitary => solitary' = {}
      /\ built' \in SUBSET Breakers /\ (built' # Breakers => failing' = Closed)
      /\ WritersWrite'
  BY <1>1, PublicationEndsFacts
<1>3. /\ content' \in [Files -> SUBSET Snapshots]
      /\ \A f \in Files : f \in {tmp, state} => content'[f] = content[f]
  BY <1>1, KeepsFacts DEF PublishTypeOK
<1>4. PublishTypeOK'
  BY <1>1, <1>2, <1>3 DEF PublishTypeOK
<1>5. RegistryIsTrue' /\ NamesDiffer'
  BY <1>1, <1>2 DEF RegistryIsTrue, NamesDiffer
<1>6. SolitaryIsAlone'
  BY <1>1, <1>2 DEF SolitaryIsAlone, PublishTypeOK
<1>7. SolitaryProgress'
  BY <1>1, <1>2 DEF SolitaryProgress, SolitaryIsAlone, PublishTypeOK
<1>8. WholeUnlessOverlapped' /\ SettlesRight'
  BY <1>1, <1>3 DEF WholeUnlessOverlapped, ReadersSeeWhole, SettlesRight, Settled, Whole, PublishTypeOK
<1>. QED  BY <1>2, <1>4, <1>5, <1>6, <1>7, <1>8

\* A restart leaves the published file alone, and no publication in progress.
LEMMA RestartsStep ==
    ASSUME OwnerAssumption, PublishInv, Restarts
    PROVE  PublishInv'
<1>. USE DEF PublishInv
<1>1. Closed \in Snapshots
  BY DEF Closed, Snapshots
<1>2. /\ content' \in [Files -> SUBSET Snapshots]
      /\ \A f \in Files : f \in {tmp, state} => content'[f] = content[f]
  BY KeepsFacts DEF PublishTypeOK, Restarts
<1>3. PublishTypeOK'
  BY <1>1, <1>2 DEF PublishTypeOK, Restarts
<1>4. WritersWrite' /\ SolitaryIsAlone' /\ RegistryIsTrue' /\ NamesDiffer' /\ SolitaryProgress'
  BY DEF Restarts, WritersWrite, SolitaryIsAlone, RegistryIsTrue, NamesDiffer, SolitaryProgress
<1>5. WholeUnlessOverlapped' /\ SettlesRight'
  BY <1>2 DEF Restarts, WholeUnlessOverlapped, ReadersSeeWhole, SettlesRight, Settled, Whole, PublishTypeOK
<1>. QED  BY <1>3, <1>4, <1>5

\* The invariant is inductive.
LEMMA PublishStep == OwnerAssumption /\ PublishInv /\ [PublishNext]_publishVars => PublishInv'
<1>. SUFFICES ASSUME OwnerAssumption, PublishInv, [PublishNext]_publishVars PROVE PublishInv'
  OBVIOUS
<1>1. ASSUME NEW w \in Threads,
             \/ Constructs(w) \/ Flips(w) \/ Snapshot(w) \/ OpensTmp(w) \/ Writes(w)
             \/ Replaces(w) \/ Errs(w)
      PROVE  PublishInv'
  BY <1>1, FlipStep, SnapshotStep, OpensTmpStep, WritesStep, ReplacesStep, ErrsStep
<1>2. CASE UNCHANGED publishVars
  BY <1>2 DEF publishVars, publishHistory, PublishInv, PublishTypeOK, WritersWrite, SolitaryIsAlone, RegistryIsTrue,
              NamesDiffer, SolitaryProgress, WholeUnlessOverlapped, ReadersSeeWhole, Whole,
              SettlesRight, Settled
<1>. QED  BY <1>1, <1>2, RestartsStep DEF PublishNext

\* The invariant holds throughout.
THEOREM PublishCorrect == OwnerAssumption => (PublishSpec => []PublishInv)
<1>. SUFFICES ASSUME OwnerAssumption PROVE PublishSpec => []PublishInv
  OBVIOUS
<1>1. PublishInit => PublishInv
  BY PublishStarts
<1>2. PublishInv /\ [PublishNext]_publishVars => PublishInv'
  BY PublishStep
<1>. QED  BY <1>1, <1>2, PTL DEF PublishSpec

\* A consumer reads a whole file at every moment until two publications have met,
\* and after the next one that met no other reads what the breakers say, through
\* file errors, crashes and restarts.
THEOREM ConsumersReadTruth == OwnerAssumption => (PublishSpec => []StateFileIsSound)
<1>1. PublishInv => StateFileIsSound
  BY DEF PublishInv, StateFileIsSound, FileSettles, SettlesRight
<1>. QED  BY <1>1, PublishCorrect, PTL

-----------------------------------------------------------------------------
(* The weekly mail.  Whoever sends holds the lock, has put the attempt on      *)
(* record, and found the week unsettled: no letter of it is out.  That a       *)
(* dispatch's week is one of Weeks takes arithmetic of division; nothing here  *)
(* depends on it.                                                              *)

Sending == {"sending", "accepted"}

DispatchShaped ==
    /\ DOMAIN delivery = Weeks
    /\ DOMAIN dispatch = Dispatches
    /\ \A d \in Dispatches : DOMAIN dispatch[d] = {"at", "now", "built"}

\* A dispatch runs in the hour it began in, and not before the mail is due.
DispatchInTime ==
    \A d \in Dispatches : dispatch[d].at # "idle" =>
        dispatch[d].now = clock /\ clock >= Nominal(WeekAt(clock))

\* The lock admits one sender.
OneSender ==
    \A d, e \in Dispatches : dispatch[d].at \in Sending /\ dispatch[e].at \in Sending => d = e

\* What a sender holds when it sends.
SenderIsReady ==
    \A d \in Dispatches : LET now == dispatch[d].now
                              k == WeekAt(now) IN
        /\ dispatch[d].at = "sending" =>
              /\ now <= Deadline(k)
              /\ SnapshotFresh(dispatch[d].built, k, now)
              /\ k \in Weeks => \A m \in letters : m.week # k
        /\ dispatch[d].at \in Sending /\ k \in Weeks => delivery[k] = "attempted"

\* A week of which a letter is out is settled, and has one letter.
LettersSettle ==
    /\ \A m \in letters : m.week \in Weeks => delivery[m.week] \in {"attempted", "sent"}
    /\ \A m, n \in letters : m.week = n.week /\ m.week \in Weeks => m = n

MailInv ==
    /\ DispatchShaped
    /\ DispatchInTime
    /\ OneSender
    /\ SenderIsReady
    /\ LettersSettle
    /\ MailIsTimely

\* Nothing runs to begin with.
LEMMA MailStarts == MailInit => MailInv
BY DEF MailInit, MailInv, DispatchShaped, DispatchInTime, OneSender, SenderIsReady, LettersSettle,
       MailIsTimely, Resting, Sending

\* What leaves the dispatches, the record and the letters alone keeps the invariant.
LEMMA MacKeepsMail ==
    ASSUME MailInv, UNCHANGED mailVars,
           clock' = clock \/ \A d \in Dispatches : dispatch[d] = Resting
    PROVE  MailInv'
BY DEF mailVars, MailInv, DispatchShaped, DispatchInTime, OneSender, SenderIsReady, LettersSettle,
       MailIsTimely, Resting, Sending

\* A dispatch that returns leaves the rest as it was.
LEMMA ReturnKeepsMail ==
    ASSUME MailInv, NEW d \in Dispatches, DispatchReturns(d), UNCHANGED <<clock, letters>>,
           \/ UNCHANGED delivery
           \/ /\ delivery' = [delivery EXCEPT ![WeekAt(clock)] = "sent"]
              /\ dispatch[d].at = "accepted"
           \/ /\ delivery' = [delivery EXCEPT ![WeekAt(clock)] = "skipped"]
              /\ delivery[WeekAt(clock)] \notin Final
              /\ ~Locked
    PROVE  MailInv'
<1>1. /\ dispatch'[d] = Resting /\ DOMAIN dispatch' = Dispatches
      /\ \A e \in Dispatches : e # d => dispatch'[e] = dispatch[e]
  BY DEF DispatchReturns, MailInv, DispatchShaped
<1>2. DOMAIN delivery' = Weeks
      /\ \A k \in Weeks : k # WeekAt(clock) => delivery'[k] = delivery[k]
  BY DEF MailInv, DispatchShaped
<1>3. DispatchShaped' /\ DispatchInTime' /\ OneSender'
  BY <1>1, <1>2 DEF MailInv, DispatchShaped, DispatchInTime, OneSender, Resting, Sending
<1>4. ASSUME NEW e \in Dispatches, dispatch'[e].at \in Sending
      PROVE  e # d /\ dispatch'[e] = dispatch[e] /\ UNCHANGED delivery
  <2>1. e # d /\ dispatch'[e] = dispatch[e]
    BY <1>1, <1>4 DEF Resting, Sending
  <2>. QED  BY <1>4, <2>1 DEF MailInv, OneSender, Locked, Sending
<1>5. SenderIsReady'
  BY <1>4 DEF MailInv, SenderIsReady, Sending
<1>6. LettersSettle'
  <2>1. ASSUME NEW m \in letters, m.week \in Weeks PROVE delivery'[m.week] \in {"attempted", "sent"}
    BY <1>2, <2>1 DEF MailInv, LettersSettle, DispatchShaped, Final
  <2>. QED  BY <2>1 DEF MailInv, LettersSettle
<1>7. MailIsTimely'
  BY DEF MailInv, MailIsTimely
<1>. QED  BY <1>3, <1>5, <1>6, <1>7 DEF MailInv

\* A dispatch that begins takes the time.
LEMMA BeginKeepsMail ==
    ASSUME MailInv, NEW d \in Dispatches, DispatchBegins(d)
    PROVE  MailInv'
<1>1. /\ dispatch'[d] = [at |-> "locking", now |-> clock, built |-> Unbuilt]
      /\ DOMAIN dispatch' = Dispatches
      /\ \A e \in Dispatches : e # d => dispatch'[e] = dispatch[e]
      /\ UNCHANGED <<clock, delivery, letters>>
  BY DEF DispatchBegins, MailInv, DispatchShaped
<1>2. clock >= Nominal(WeekAt(clock))
  BY DEF DispatchBegins
<1>3. DispatchShaped' /\ DispatchInTime' /\ OneSender'
  BY <1>1, <1>2 DEF MailInv, DispatchShaped, DispatchInTime, OneSender, Sending
<1>4. SenderIsReady'
  BY <1>1 DEF MailInv, SenderIsReady, Sending
<1>. QED  BY <1>1, <1>3, <1>4 DEF MailInv, LettersSettle, MailIsTimely

\* Whoever is admitted finds the lock free and the week unsettled.
LEMMA AdmissionKeepsMail ==
    ASSUME MailInv, NEW d \in Dispatches, Admits(d)
    PROVE  MailInv'
<1>. DEFINE k == WeekAt(clock)
<1>1. /\ dispatch[d].at = "locking" /\ dispatch[d].now = clock
      /\ clock >= Nominal(k) /\ clock <= Deadline(k)
      /\ SnapshotFresh(received[k], k, clock) /\ delivery[k] \notin Final /\ ~Locked
      /\ delivery' = [delivery EXCEPT ![k] = "attempted"]
      /\ dispatch' = [dispatch EXCEPT ![d].at = "sending", ![d].built = received[k]]
      /\ UNCHANGED <<clock, letters>>
  BY DEF Admits, MailInv, DispatchInTime
<1>2. /\ dispatch'[d].at = "sending" /\ dispatch'[d].now = clock
      /\ dispatch'[d].built = received[k]
      /\ DOMAIN dispatch' = Dispatches /\ DOMAIN dispatch'[d] = {"at", "now", "built"}
      /\ \A e \in Dispatches : e # d => dispatch'[e] = dispatch[e]
  BY <1>1 DEF MailInv, DispatchShaped
<1>3. /\ DOMAIN delivery' = Weeks
      /\ k \in Weeks => delivery'[k] = "attempted"
      /\ \A j \in Weeks : j # k => delivery'[j] = delivery[j]
  BY <1>1 DEF MailInv, DispatchShaped
<1>4. \A e \in Dispatches : e # d => dispatch'[e].at \notin Sending
  BY <1>1, <1>2 DEF Locked, Sending
<1>5. k \in Weeks => \A m \in letters : m.week # k
  BY <1>1 DEF MailInv, LettersSettle, Final
<1>6. DispatchShaped' /\ DispatchInTime' /\ OneSender'
  BY <1>1, <1>2, <1>3, <1>4 DEF MailInv, DispatchShaped, DispatchInTime, OneSender
<1>7. SenderIsReady'
  BY <1>1, <1>2, <1>3, <1>4, <1>5 DEF SenderIsReady, Sending
<1>8. LettersSettle'
  BY <1>1, <1>3 DEF MailInv, LettersSettle
<1>. QED  BY <1>1, <1>6, <1>7, <1>8 DEF MailInv, MailIsTimely

\* The letter that goes out is the first of its week, and in time.
LEMMA SendingKeepsMail ==
    ASSUME MailInv, NEW d \in Dispatches, SendsMail(d)
    PROVE  MailInv'
<1>. DEFINE k == WeekAt(clock)
            letter == [week |-> k, copy |-> Cardinality({m \in letters : m.week = k}),
                       built |-> dispatch[d].built, sent |-> clock]
<1>1. /\ dispatch[d].at = "sending" /\ dispatch[d].now = clock /\ clock >= Nominal(k)
      /\ \/ letters' = letters \union {letter}
         \/ UNCHANGED letters
      /\ \/ dispatch' = [dispatch EXCEPT ![d].at = "accepted"]
         \/ DispatchReturns(d)
      /\ UNCHANGED <<clock, delivery>>
  BY DEF SendsMail, MailInv, DispatchInTime
<1>2. /\ clock <= Deadline(k)
      /\ SnapshotFresh(dispatch[d].built, k, clock)
      /\ k \in Weeks => delivery[k] = "attempted" /\ \A m \in letters : m.week # k
  BY <1>1 DEF MailInv, SenderIsReady, Sending
<1>3. /\ letter.week = k /\ letter.built = dispatch[d].built /\ letter.sent = clock
  OBVIOUS
<1>. HIDE DEF letter
<1>4. MailIsTimely'
  BY <1>1, <1>2, <1>3 DEF MailInv, MailIsTimely, SnapshotFresh
<1>5. LettersSettle'
  BY <1>1, <1>2, <1>3 DEF MailInv, LettersSettle
<1>6. /\ DOMAIN dispatch' = Dispatches
      /\ \A e \in Dispatches : e # d => dispatch'[e] = dispatch[e]
      /\ DOMAIN dispatch'[d] = {"at", "now", "built"}
      /\ dispatch'[d].at \in {"accepted", "idle"}
      /\ dispatch'[d].at # "idle" => dispatch'[d].now = clock
  BY <1>1 DEF DispatchReturns, Resting, MailInv, DispatchShaped
<1>7. DispatchShaped' /\ DispatchInTime'
  BY <1>1, <1>6 DEF MailInv, DispatchShaped, DispatchInTime
<1>8. \A e \in Dispatches : e # d => dispatch'[e].at \notin Sending
  BY <1>1, <1>6 DEF MailInv, OneSender, Sending
<1>9. OneSender'
  BY <1>8 DEF OneSender
<1>10. SenderIsReady'
  BY <1>1, <1>2, <1>6, <1>8 DEF SenderIsReady, Sending
<1>. QED  BY <1>4, <1>5, <1>7, <1>9, <1>10 DEF MailInv

\* Every step keeps the invariant.
LEMMA MailSteps == MailInv /\ [MailNext]_weeklyVars => MailInv'
<1>. SUFFICES ASSUME MailInv, [MailNext]_weeklyVars PROVE MailInv'
  OBVIOUS
<1>1. CASE Collects \/ Builds \/ Uploads \/ Moves \/ CollectorDies \/ \E k \in Weeks : MovesLate(k)
  BY <1>1, MacKeepsMail DEF Collects, Builds, Uploads, Moves, CollectorDies, MovesLate
<1>2. CASE ClockTicks
  BY <1>2, MacKeepsMail DEF ClockTicks
<1>3. ASSUME NEW d \in Dispatches, DispatchBegins(d) \/ Admits(d) \/ SendsMail(d) PROVE MailInv'
  BY <1>3, BeginKeepsMail, AdmissionKeepsMail, SendingKeepsMail
<1>4. ASSUME NEW d \in Dispatches, Declines(d) PROVE MailInv'
  BY <1>4, ReturnKeepsMail DEF Declines, MailInv, DispatchInTime
<1>5. ASSUME NEW d \in Dispatches, Records(d) PROVE MailInv'
  BY <1>5, ReturnKeepsMail DEF Records, MailInv, DispatchInTime
<1>6. ASSUME NEW d \in Dispatches, DispatchDies(d) PROVE MailInv'
  BY <1>6, ReturnKeepsMail DEF DispatchDies
<1>7. CASE UNCHANGED weeklyVars
  BY <1>7, MacKeepsMail DEF weeklyVars
<1>. QED  BY <1>1, <1>2, <1>3, <1>4, <1>5, <1>6, <1>7 DEF MailNext

\* Each week is mailed at most once, whatever dies, overlaps or goes unanswered, and
\* with a fresh snapshot of its own, within its three days: for any number of dispatches
\* that run at a time, and any weeks.
THEOREM MailStaysRight == MailSpec => []MailIsRight
<1>1. MailInv => MailIsRight
  <2>. SUFFICES ASSUME MailInv, NEW k \in Weeks
                PROVE  LET mails == {m \in letters : m.week = k}
                       IN  /\ Cardinality(mails) <= 1
                           /\ mails # {} => delivery[k] \in {"attempted", "sent"}
    BY DEF MailIsRight, MailedOnce, MailInv
  <2>. DEFINE mails == {m \in letters : m.week = k}
  <2>1. mails # {} => delivery[k] \in {"attempted", "sent"}
    BY DEF MailInv, LettersSettle
  <2>2. mails = {} \/ \E m : mails = {m}
    BY DEF MailInv, LettersSettle
  <2>3. Cardinality(mails) <= 1
    <3>. HIDE DEF mails
    <3>1. Cardinality(mails) \in {0, 1}
      BY <2>2, FS_EmptySet, FS_Singleton
    <3>. QED  BY <3>1
  <2>. QED  BY <2>1, <2>3
<1>. QED  BY <1>1, MailStarts, MailSteps, PTL DEF MailSpec

-----------------------------------------------------------------------------
(* The certificates.  Whoever is past the lock is alone there, so what a step  *)
(* established of the files is still true at the next: first that the CA's key *)
(* belongs to its certificate, then that the leaf's key does to its own, and   *)
(* that the CA signed it.  Nothing is assumed of the files a worker finds.     *)

\* The functions the argument updates have their domains.
Shaped ==
    /\ DOMAIN step = Workers
    /\ DOMAIN pair = Workers
    /\ host \in [Workers -> Hosts]
    /\ DOMAIN leafKey = Hosts
    /\ DOMAIN leafCert = Hosts
    /\ DOMAIN contexts = Hosts

\* A worker past the lock holds it.
Alone == \A w \in Workers : step[w] \notin {"idle", "asking"} => lock = w

\* What a worker knows of the files at each step.
HalfWritten(w) == step[w] = "ca_cert" => caKey = pair[w]
CAPaired(w) == step[w] \in {"leaf", "leaf_key", "leaf_cert", "loading", "built"} => caCert = caKey
LeafKeyed(w) == step[w] = "leaf_cert" => leafKey[host[w]] = pair[w]
Signed(w) == [pair |-> leafKey[host[w]], signer |-> caCert]
LeafSigned(w) == step[w] \in {"loading", "built"} => leafCert[host[w]] = Signed(w)
Built(w) == step[w] = "built" => contexts[host[w]] = Signed(w)

Known(w) == HalfWritten(w) /\ CAPaired(w) /\ LeafKeyed(w) /\ LeafSigned(w) /\ Built(w)

CertificateInv == Shaped /\ Alone /\ \A w \in Workers : Known(w)

\* Everybody is idle to begin with, and nothing is claimed of the idle.
LEMMA CertificateInit == Init => CertificateInv
BY DEF Init, CertificateInv, Shaped, Alone, Known, HalfWritten, CAPaired, LeafKeyed,
       LeafSigned, Built

\* While one worker is past the lock the others know nothing that could be spoilt.
LEMMA OthersWait ==
    ASSUME CertificateInv, NEW w \in Workers, step[w] \notin {"idle", "asking"},
           NEW v \in Workers, v # w
    PROVE  step[v] \in {"idle", "asking"}
BY DEF CertificateInv, Alone

\* So a step of that worker under its lock needs to be looked at for itself only.
LEMMA LockedStep ==
    ASSUME CertificateInv, NEW w \in Workers, step[w] \notin {"idle", "asking"},
           NEW to, WorkerGoes(w, to), UNCHANGED lock, Shaped', Known(w)'
    PROVE  CertificateInv'
<1>1. \A v \in Workers : v # w => step'[v] \in {"idle", "asking"}
  BY OthersWait DEF CertificateInv, Shaped, WorkerGoes
<1>2. Alone'
  BY <1>1 DEF CertificateInv, Alone
<1>3. \A v \in Workers : Known(v)'
  BY <1>1 DEF Known, HalfWritten, CAPaired, LeafKeyed, LeafSigned, Built
<1>4. QED
  BY <1>2, <1>3 DEF CertificateInv

\* A new request moves its idle worker to the lock.
LEMMA AsksStep ==
    ASSUME CertificateInv, NEW w \in Workers, NEW h \in Hosts, Asks(w, h)
    PROVE  CertificateInv'
<1>1. Shaped'
  BY DEF Asks, WorkerGoes, CertificateInv, Shaped, caFiles, leafFiles
<1>2. Alone'
  BY DEF Asks, WorkerGoes, CertificateInv, Shaped, Alone
<1>3. ASSUME NEW v \in Workers PROVE Known(v)'
  <2>1. CASE v = w
    <3>1. step'[v] = "asking"
      BY <2>1 DEF Asks, WorkerGoes, CertificateInv, Shaped
    <3>2. QED
      BY <3>1 DEF Known, HalfWritten, CAPaired, LeafKeyed, LeafSigned, Built
  <2>2. CASE v # w
    <3>1. step'[v] = step[v] /\ host'[v] = host[v]
      BY <2>2 DEF Asks, WorkerGoes, CertificateInv, Shaped
    <3>2. Known(v)
      BY DEF CertificateInv
    <3>3. QED
      BY <3>1, <3>2 DEF Asks, caFiles, leafFiles, Known, HalfWritten, CAPaired, LeafKeyed,
                        LeafSigned, Built, Signed
  <2>3. QED
    BY <2>1, <2>2
<1>4. QED
  BY <1>1, <1>2, <1>3 DEF CertificateInv

\* Whoever takes the free lock is the only one past it, and knows nothing yet.
LEMMA EntersStep ==
    ASSUME CertificateInv, NEW w \in Workers, Enters(w)
    PROVE  CertificateInv'
<1>1. PICK to \in {"shown", "ca"} : WorkerGoes(w, to)
  BY DEF Enters
<1>2. \A v \in Workers : v # w => step'[v] \in {"idle", "asking"}
  BY <1>1, WorkerAssumption DEF Enters, WorkerGoes, CertificateInv, Shaped, Alone
<1>3. step'[w] \in {"shown", "ca"}
  BY <1>1 DEF WorkerGoes, CertificateInv, Shaped
<1>4. Shaped'
  BY <1>1 DEF Enters, WorkerGoes, CertificateInv, Shaped, caFiles, leafFiles
<1>5. Alone'
  BY <1>2 DEF Enters, Alone
<1>6. \A v \in Workers : Known(v)'
  BY <1>2, <1>3 DEF Known, HalfWritten, CAPaired, LeafKeyed, LeafSigned, Built
<1>7. QED
  BY <1>4, <1>5, <1>6 DEF CertificateInv

\* The CA that was found goes with its certificate; a new one is begun.
LEMMA EnsuresCAStep ==
    ASSUME CertificateInv, NEW w \in Workers, EnsuresCA(w)
    PROVE  CertificateInv'
<1>1. PICK to \in {"leaf", "ca_key"} : WorkerGoes(w, to) /\ (to = "leaf" => CAIsUsable)
  BY DEF EnsuresCA
<1>2. Shaped'
  BY <1>1 DEF EnsuresCA, WorkerGoes, Generates, CertificateInv, Shaped, caFiles, leafFiles
<1>3. step'[w] = to
  BY <1>1 DEF WorkerGoes, CertificateInv, Shaped
<1>4. Known(w)'
  BY <1>1, <1>3 DEF EnsuresCA, CAIsUsable, caFiles, Known, HalfWritten, CAPaired,
                    LeafKeyed, LeafSigned, Built
<1>5. QED
  BY <1>1, <1>2, <1>4, LockedStep DEF EnsuresCA

\* Its key first, then its certificate.
LEMMA WritesCAStep ==
    ASSUME CertificateInv, NEW w \in Workers, WritesCAKey(w) \/ WritesCACert(w)
    PROVE  CertificateInv'
<1>1. Shaped'
  BY DEF WritesCAKey, WritesCACert, WorkerGoes, CertificateInv, Shaped, leafFiles
<1>2. CASE WritesCAKey(w)
  <2>1. step'[w] = "ca_cert"
    BY <1>2 DEF WritesCAKey, WorkerGoes, CertificateInv, Shaped
  <2>2. Known(w)'
    BY <1>2, <2>1 DEF WritesCAKey, Known, HalfWritten, CAPaired, LeafKeyed, LeafSigned, Built
  <2>3. QED
    BY <1>1, <1>2, <2>2, LockedStep DEF WritesCAKey
<1>3. CASE WritesCACert(w)
  <2>1. step'[w] = "leaf"
    BY <1>3 DEF WritesCACert, WorkerGoes, CertificateInv, Shaped
  <2>2. caKey = pair[w]
    BY <1>3 DEF WritesCACert, CertificateInv, Known, HalfWritten
  <2>3. Known(w)'
    BY <1>3, <2>1, <2>2 DEF WritesCACert, Known, HalfWritten, CAPaired, LeafKeyed,
                            LeafSigned, Built
  <2>4. QED
    BY <1>1, <1>3, <2>3, LockedStep DEF WritesCACert
<1>4. QED
  BY <1>2, <1>3

\* A leaf that is used was found to verify; a new one is begun.
LEMMA EnsuresLeafStep ==
    ASSUME CertificateInv, NEW w \in Workers, EnsuresLeaf(w)
    PROVE  CertificateInv'
<1>1. PICK to \in {"loading", "leaf_key"} :
        WorkerGoes(w, to) /\ (to = "loading" => LeafIsUsable(host[w]))
  BY DEF EnsuresLeaf
<1>2. Shaped'
  BY <1>1 DEF EnsuresLeaf, WorkerGoes, Generates, CertificateInv, Shaped, leafFiles
<1>3. step'[w] = to
  BY <1>1 DEF WorkerGoes, CertificateInv, Shaped
<1>4. caCert = caKey
  BY DEF EnsuresLeaf, CertificateInv, Known, CAPaired
<1>5. Known(w)'
  BY <1>1, <1>3, <1>4 DEF EnsuresLeaf, LeafIsUsable, caFiles, leafFiles, Known, HalfWritten,
                          CAPaired, LeafKeyed, LeafSigned, Built, Signed
<1>6. QED
  BY <1>1, <1>2, <1>5, LockedStep DEF EnsuresLeaf

\* Its key first; then its certificate, signed with a key that belongs to the CA's own.
LEMMA WritesLeafStep ==
    ASSUME CertificateInv, NEW w \in Workers, WritesLeafKey(w) \/ WritesLeafCert(w)
    PROVE  CertificateInv'
<1>1. Shaped'
  BY DEF WritesLeafKey, WritesLeafCert, WorkerGoes, CertificateInv, Shaped, caFiles
<1>2. caCert = caKey
  BY DEF WritesLeafKey, WritesLeafCert, CertificateInv, Known, CAPaired
<1>3. host[w] \in Hosts
  BY DEF CertificateInv, Shaped
<1>4. CASE WritesLeafKey(w)
  <2>1. step'[w] = "leaf_cert" /\ leafKey'[host[w]] = pair[w]
    BY <1>3, <1>4 DEF WritesLeafKey, WorkerGoes, CertificateInv, Shaped
  <2>2. Known(w)'
    BY <1>2, <1>4, <2>1 DEF WritesLeafKey, caFiles, Known, HalfWritten, CAPaired, LeafKeyed,
                            LeafSigned, Built
  <2>3. QED
    BY <1>1, <1>4, <2>2, LockedStep DEF WritesLeafKey
<1>5. CASE WritesLeafCert(w)
  <2>1. step'[w] = "loading"
    BY <1>5 DEF WritesLeafCert, WorkerGoes, CertificateInv, Shaped
  <2>2. leafKey[host[w]] = pair[w]
    BY <1>5 DEF WritesLeafCert, CertificateInv, Known, LeafKeyed
  <2>3. leafCert'[host[w]] = [pair |-> pair[w], signer |-> caKey]
    BY <1>3, <1>5 DEF WritesLeafCert, CertificateInv, Shaped
  <2>4. Known(w)'
    BY <1>2, <1>5, <2>1, <2>2, <2>3 DEF WritesLeafCert, caFiles, Known, HalfWritten,
                            CAPaired, LeafKeyed, LeafSigned, Built, Signed
  <2>5. QED
    BY <1>1, <1>5, <2>4, LockedStep DEF WritesLeafCert
<1>6. QED
  BY <1>4, <1>5

\* The context is built from what was just found or written.
LEMMA LoadsStep ==
    ASSUME CertificateInv, NEW w \in Workers, Loads(w)
    PROVE  CertificateInv'
<1>1. Shaped'
  BY DEF Loads, WorkerGoes, CertificateInv, Shaped, caFiles, leafFiles
<1>2. step'[w] = "built"
  BY DEF Loads, WorkerGoes, CertificateInv, Shaped
<1>3. caCert = caKey /\ leafCert[host[w]] = Signed(w)
  BY DEF Loads, CertificateInv, Known, CAPaired, LeafSigned
<1>4. contexts'[host[w]] = leafCert[host[w]]
  BY DEF Loads, CertificateInv, Shaped
<1>5. Known(w)'
  BY <1>2, <1>3, <1>4 DEF Loads, caFiles, leafFiles, Known, HalfWritten, CAPaired,
                          LeafKeyed, LeafSigned, Built, Signed
<1>6. QED
  BY <1>1, <1>5, LockedStep DEF Loads

\* When nobody is past the lock, nothing is claimed of anybody.
LEMMA NobodyInside ==
    ASSUME Shaped', \A w \in Workers : step'[w] \in {"idle", "asking"}
    PROVE  CertificateInv'
BY DEF CertificateInv, Alone, Known, HalfWritten, CAPaired, LeafKeyed, LeafSigned, Built

\* So a worker that leaves, a death, and a file lost while nobody is inside spoil nothing.
LEMMA LeavesStep ==
    ASSUME CertificateInv, NEW w \in Workers, ReturnsContext(w)
    PROVE  CertificateInv'
<1>1. Shaped'
  BY DEF ReturnsContext, WorkerGoes, CertificateInv, Shaped, caFiles, leafFiles
<1>2. \A v \in Workers : step'[v] \in {"idle", "asking"}
  BY OthersWait DEF ReturnsContext, WorkerGoes, CertificateInv, Shaped
<1>3. QED
  BY <1>1, <1>2, NobodyInside

LEMMA DiesStep == ASSUME CertificateInv, Dies PROVE CertificateInv'
<1>1. Shaped'
  BY DEF Dies, CertificateInv, Shaped, caFiles, leafFiles
<1>2. \A v \in Workers : step'[v] \in {"idle", "asking"}
  BY DEF Dies
<1>3. QED
  BY <1>1, <1>2, NobodyInside

LEMMA LosesStep == ASSUME CertificateInv, Loses PROVE CertificateInv'
<1>1. Shaped'
  BY DEF Loses, CertificateInv, Shaped, caFiles, leafFiles
<1>2. \A v \in Workers : step'[v] \in {"idle", "asking"}
  BY WorkerAssumption DEF Loses, CertificateInv, Alone
<1>3. QED
  BY <1>1, <1>2, NobodyInside

\* Every step keeps the invariant.
LEMMA CertificateStep == CertificateInv /\ [Next]_certVars => CertificateInv'
<1> SUFFICES ASSUME CertificateInv, [Next]_certVars PROVE CertificateInv'
  OBVIOUS
<1>1. ASSUME NEW w \in Workers, NEW h \in Hosts, Asks(w, h) PROVE CertificateInv'
  BY <1>1, AsksStep
<1>2. ASSUME NEW w \in Workers, Enters(w) PROVE CertificateInv'
  BY <1>2, EntersStep
<1>3. ASSUME NEW w \in Workers, EnsuresCA(w) PROVE CertificateInv'
  BY <1>3, EnsuresCAStep
<1>4. ASSUME NEW w \in Workers, WritesCAKey(w) \/ WritesCACert(w) PROVE CertificateInv'
  BY <1>4, WritesCAStep
<1>5. ASSUME NEW w \in Workers, EnsuresLeaf(w) PROVE CertificateInv'
  BY <1>5, EnsuresLeafStep
<1>6. ASSUME NEW w \in Workers, WritesLeafKey(w) \/ WritesLeafCert(w) PROVE CertificateInv'
  BY <1>6, WritesLeafStep
<1>7. ASSUME NEW w \in Workers, Loads(w) PROVE CertificateInv'
  BY <1>7, LoadsStep
<1>8. ASSUME NEW w \in Workers, ReturnsContext(w) PROVE CertificateInv'
  BY <1>8, LeavesStep
<1>9. CASE Dies
  BY <1>9, DiesStep
<1>10. CASE Loses
  BY <1>10, LosesStep
<1>11. CASE UNCHANGED certVars
  BY <1>11 DEF certVars, caFiles, leafFiles, CertificateInv, Shaped, Alone, Known,
               HalfWritten, CAPaired, LeafKeyed, LeafSigned, Built, Signed
<1>12. QED
  BY <1>1, <1>2, <1>3, <1>4, <1>5, <1>6, <1>7, <1>8, <1>9, <1>10, <1>11 DEF Next

\* A context that was just built shows a certificate for its own key, signed by the CA
\* whose certificate is on disk (server_ssl_context), for any workers and hosts.
THEOREM BuiltAlwaysVerifies == Spec => []BuiltVerifies
<1>1. CertificateInv => BuiltVerifies
  BY DEF CertificateInv, Known, Built, Signed, BuiltVerifies
<1>2. QED
  BY <1>1, CertificateInit, CertificateStep, PTL DEF Spec

-----------------------------------------------------------------------------
(* The desktop patcher.  Until the exchange the bundle in place is the one the *)
(* patcher has looked at, or an update; after it that bundle is in the staging *)
(* directory, and what is in place is the patcher's own, or an update since    *)
(* then.  Inodes tell which: an update's is new.  A run that took the bundle   *)
(* for another version is remembered at the exchange, with the version it put  *)
(* aside.                                                                      *)

Looking == {"looks", "identifies", "verifies", "restores"}
Working == {"secures", "compares", "copies", "patches", "signs", "unpacks", "swaps"}
Swapped == {"inspects", "undoes", "settles"}

States == {"none", "original", "legacy", "patched"}
Bundles == [version : Nat, inode : Nat, archive : States,
            signed : {"no", "openai", "adhoc", "damaged"}]

PatchTyped ==
    /\ app \in Bundles /\ staged \in Bundles
    /\ patcher \in [at : {"idle"} \union Looking \union Working \union Swapped, version : Nat,
                    state : States, live : Bundles, next : Bundles, run : Nat]
    /\ inodes \in Nat /\ updated \in Nat /\ away \in BOOLEAN

Torn(v) == <<"torn", v>> \in history
Excused(v) == <<"torn", v>> \in history \/ <<"ousted", v>> \in history

\* A genuine bundle is an original; a patched one has its original backed up, unless it
\* was patched as another version.
Sound(b) ==
    /\ OpenAI(b) => b.archive = "original"
    /\ b.archive = "patched" => b.version \in originals \/ Torn(b.version)

\* So will a bundle that is being made, unless it is being taken for another version.
SoundToBe(b) ==
    /\ OpenAI(b) => b.archive = "original"
    /\ b.archive = "patched" =>
          \/ b.version \in originals \/ Torn(b.version)
          \/ b.version = patcher.live.version /\ patcher.live.version # patcher.version

BundlesSound ==
    /\ Sound(app) /\ Sound(patcher.live)
    /\ IF patcher.at \in Working
       THEN SoundToBe(staged) /\ SoundToBe(patcher.next)
       ELSE Sound(staged) /\ Sound(patcher.next)

\* A bundle keeps the inode it was made with, and the updater's are new.
InodesGiven ==
    /\ app = Gone => away
    /\ app # Gone => app.inode >= 1
    /\ app.inode <= inodes /\ staged.inode <= inodes
    /\ patcher.live.inode <= inodes /\ patcher.next.inode <= inodes

\* What is being made has the version of the bundle looked at, or the one read first; a
\* run that put aside a bundle of another version is remembered.
VersionKnown ==
    /\ patcher.at \in {"idle", "secures", "compares", "copies", "unpacks"} \union Looking =>
          staged = Gone /\ patcher.next = Gone
    /\ patcher.at \in {"patches", "signs"} =>
          staged.version = patcher.live.version /\ patcher.next = Gone
    /\ patcher.at \in {"swaps"} \union Swapped =>
          patcher.next.version \in {patcher.live.version, patcher.version}
    /\ patcher.at \in Swapped /\ patcher.live.version # patcher.version =>
          Torn(patcher.live.version)

\* Until the exchange the bundle in place is the one looked at, or an update.
WorkStands ==
    /\ patcher.at \in Working =>
          /\ patcher.live.inode >= 1
          /\ app = Gone \/ app = patcher.live \/ (OpenAI(app) /\ app.inode > patcher.live.inode)
    /\ patcher.at \in {"compares", "copies", "patches", "signs"} => patcher.version \in originals
    /\ patcher.at \in {"patches", "signs"} => staged.inode >= 1
    /\ patcher.at = "swaps" => staged = patcher.next /\ staged.inode >= 1 /\ staged.signed # "damaged"

\* After it the one displaced is in the staging directory, and what is in place is the
\* patcher's, or an update since then.
DisplacedIsKnown ==
    patcher.at \in Swapped =>
      /\ staged.inode >= 1
      /\ staged = patcher.live \/ OpenAI(staged)
      /\ \/ app = Gone
         \/ app = patcher.next /\ patcher.at # "undoes"
         \/ OpenAI(app) /\ app.inode > patcher.next.inode /\ app.version = updated

\* The newest version is in place, or aside.
NewestIsThere ==
    ~Excused(updated) /\ ~away =>
      IF patcher.at \in Swapped
      THEN app = patcher.next => updated \in {staged.version} \union kept
      ELSE updated \in {app.version} \union kept

PatchInv ==
    /\ PatchTyped /\ BundlesSound /\ InodesGiven /\ VersionKnown
    /\ WorkStands /\ DisplacedIsKnown /\ NewestIsThere

\* What was installed before is in place, and no run has begun.
LEMMA PatchStarts == PatchInit => PatchInv
<1>. SUFFICES ASSUME PatchInit PROVE PatchInv
  OBVIOUS
<1>1. PICK archive \in {"original", "legacy", "patched"}, signed \in {"openai", "adhoc", "damaged"} :
          (archive = "original" <=> signed = "openai") /\ app = Bundle(1, 1, archive, signed)
  BY DEF PatchInit
<1>2. /\ staged = Gone /\ patcher = Rest /\ inodes = 1 /\ updated = 1 /\ away = FALSE
      /\ kept = {} /\ history = {} /\ (app.archive # "original" => 1 \in originals)
  BY DEF PatchInit
<1>. USE <1>1, <1>2 DEF Bundle, Gone, Rest
<1>3. PatchTyped
  BY DEF PatchTyped, Bundles, States
<1>4. BundlesSound
  BY DEF BundlesSound, Sound, OpenAI, Working
<1>5. InodesGiven
  BY DEF InodesGiven
<1>6. VersionKnown /\ WorkStands /\ DisplacedIsKnown /\ NewestIsThere
  BY DEF VersionKnown, WorkStands, DisplacedIsKnown, NewestIsThere, Looking, Working, Swapped
<1>. QED  BY <1>3, <1>4, <1>5, <1>6 DEF PatchInv

\* A run that ends leaves in place what is there, or what it had displaced.
LEMMA EndKeepsPatch ==
    ASSUME PatchInv, patcher' = [Rest EXCEPT !.run = patcher.run], staged' = Gone,
           UNCHANGED <<originals, inodes, updated, away>>,
           app' = app \/ (app' = staged /\ staged.inode >= 1 /\ patcher.at \notin Working),
           history \in SUBSET history',
           ~Excused(updated)' /\ ~away => updated \in {app'.version} \union kept'
    PROVE  PatchInv'
<1>1. /\ patcher'.at = "idle" /\ patcher'.live = Gone /\ patcher'.next = Gone
      /\ Gone \in Bundles /\ Gone.inode = 0
  BY DEF Rest, Gone, Bundles, States
<1>2. PatchTyped'
  BY <1>1 DEF PatchInv, PatchTyped, Rest, Gone, States
<1>3. BundlesSound'
  <2>1. Sound(Gone)'
    BY DEF Sound, OpenAI, Gone
  <2>2. Sound(app)'
    BY DEF PatchInv, BundlesSound, Sound, Torn, OpenAI
  <2>. QED  BY <1>1, <2>1, <2>2 DEF BundlesSound, Sound, OpenAI, Torn, Working
<1>4. InodesGiven'
  <2>1. app' = Gone => away
    BY <1>1 DEF PatchInv, InodesGiven
  <2>2. app' # Gone => app'.inode >= 1
    BY DEF PatchInv, InodesGiven
  <2>3. app'.inode <= inodes
    BY DEF PatchInv, InodesGiven
  <2>. QED  BY <1>1, <2>1, <2>2, <2>3 DEF InodesGiven, PatchInv, PatchTyped
<1>5. VersionKnown' /\ WorkStands' /\ DisplacedIsKnown' /\ NewestIsThere'
  BY <1>1 DEF VersionKnown, WorkStands, DisplacedIsKnown, NewestIsThere, Excused, Looking, Working, Swapped
<1>. QED  BY <1>2, <1>3, <1>4, <1>5 DEF PatchInv

\* So does one that gives up before the exchange.
LEMMA GivingUpKeepsPatch ==
    ASSUME PatchInv, patcher.at \notin Swapped, RunEnds,
           UNCHANGED <<app, originals, inodes, updated, away, kept, history>>
    PROVE  PatchInv'
BY EndKeepsPatch DEF RunEnds, PatchInv, NewestIsThere, Excused

\* Before the exchange nothing is moved that was in place.
LEMMA WorkKeepsPatch ==
    ASSUME PatchInv, patcher.at \notin Swapped, patcher'.at \notin Swapped,
           UNCHANGED <<app, updated, away, kept, history>>,
           PatchTyped', inodes' >= inodes, originals \in SUBSET originals',
           Sound(patcher.live)',
           patcher'.at \in Working => SoundToBe(staged)' /\ SoundToBe(patcher.next)',
           patcher'.at \notin Working => Sound(staged)' /\ Sound(patcher.next)',
           staged'.inode <= inodes', patcher'.live.inode <= inodes', patcher'.next.inode <= inodes',
           VersionKnown', WorkStands'
    PROVE  PatchInv'
<1>1. Sound(app)'
  BY DEF PatchInv, BundlesSound, Sound, Torn, OpenAI
<1>2. app.inode \in Nat /\ inodes \in Nat /\ inodes' \in Nat /\ app.inode <= inodes
  BY DEF PatchInv, PatchTyped, Bundles, InodesGiven
<1>3. InodesGiven'
  BY <1>2 DEF PatchInv, InodesGiven, Gone
<1>4. DisplacedIsKnown' /\ NewestIsThere'
  BY DEF PatchInv, DisplacedIsKnown, NewestIsThere, Excused
<1>. QED  BY <1>1, <1>3, <1>4 DEF PatchInv, BundlesSound

\* The updater takes the bundle away, or brings one with an inode of its own.
LEMMA UpdaterKeepsPatch ==
    ASSUME PatchInv, UpdateRemoves \/ UpdateInstalls
    PROVE  PatchInv'
<1>. USE DEF PatchInv
<1>1. CASE UpdateRemoves
  <2>1. /\ app' = Gone /\ away' = TRUE
        /\ UNCHANGED <<staged, originals, patcher, inodes, updated, kept, history>>
    BY <1>1 DEF UpdateRemoves
  <2>2. PatchTyped'
    BY <2>1 DEF PatchTyped, Gone, Bundles, States
  <2>3. BundlesSound'
    BY <2>1 DEF BundlesSound, Sound, SoundToBe, OpenAI, Torn, Gone
  <2>4. InodesGiven'
    BY <2>1 DEF InodesGiven, Gone, PatchTyped
  <2>5. VersionKnown' /\ WorkStands' /\ DisplacedIsKnown' /\ NewestIsThere'
    BY <2>1 DEF VersionKnown, WorkStands, DisplacedIsKnown, NewestIsThere, Excused, Torn, OpenAI
  <2>. QED  BY <2>2, <2>3, <2>4, <2>5
<1>2. CASE UpdateInstalls
  <2>1. /\ updated' = updated + 1 /\ away' = FALSE /\ inodes' = inodes + 1
        /\ app' = [version |-> updated', inode |-> inodes', archive |-> "original", signed |-> "openai"]
        /\ UNCHANGED <<staged, originals, patcher, kept, history>>
    BY <1>2 DEF UpdateInstalls, Bundle
  <2>2. /\ app'.version = updated' /\ app'.inode = inodes' /\ OpenAI(app)'
        /\ app' # Gone /\ updated' \in Nat /\ inodes' \in Nat /\ app'.inode >= 1 /\ app'.archive = "original"
        /\ \A n \in Nat : n <= inodes => n <= inodes' /\ app'.inode > n
    BY <2>1 DEF Gone, OpenAI, PatchTyped
  <2>3. PatchTyped'
    <3>1. app' \in Bundles
      BY <2>1, <2>2 DEF Bundles, States
    <3>. QED  BY <2>1, <2>2, <3>1 DEF PatchTyped
  <2>4. /\ staged.inode \in Nat /\ patcher.live.inode \in Nat /\ patcher.next.inode \in Nat
    BY DEF PatchTyped, Bundles
  <2>5. BundlesSound'
    BY <2>1, <2>2 DEF BundlesSound, Sound, SoundToBe, OpenAI, Torn
  <2>6. InodesGiven'
    BY <2>1, <2>2, <2>4 DEF InodesGiven
  <2>7. VersionKnown'
    BY <2>1 DEF VersionKnown, Torn, Looking, Working, Swapped
  <2>8. WorkStands' /\ DisplacedIsKnown'
    BY <2>1, <2>2, <2>4 DEF WorkStands, DisplacedIsKnown, InodesGiven, OpenAI
  <2>9. NewestIsThere'
    <3>1. patcher.at \in Swapped => app' # patcher'.next
      BY <2>1, <2>2, <2>4 DEF InodesGiven
    <3>. QED  BY <2>1, <2>2, <3>1 DEF NewestIsThere
  <2>. QED  BY <2>3, <2>5, <2>6, <2>7, <2>8, <2>9
<1>. QED  BY <1>1, <1>2

\* The first looks: what is remembered is what is there.
LEMMA LookKeepsPatch ==
    ASSUME PatchInv, PatchBegins \/ RestoreBegins \/ LooksAtArchive \/ LooksAtBundle
                     \/ VerifiesPatched \/ RestoreLooks
    PROVE  PatchInv'
<1>. USE DEF Looking, Working, Swapped
<1>1. CASE RunEnds
  <2>1. /\ patcher.at \notin Swapped
        /\ UNCHANGED <<app, originals, inodes, updated, away, kept, history>>
    BY DEF PatchBegins, RestoreBegins, RunBegins, LooksAtArchive, LooksAtBundle, VerifiesPatched,
           RestoreLooks
  <2>. QED  BY <1>1, <2>1, GivingUpKeepsPatch
<1>2. CASE ~RunEnds
  <2>1. /\ UNCHANGED <<app, staged, originals, recorded, inodes, updated, away, kept, history>>
        /\ patcher.at \in {"idle"} \union Looking
    BY <1>2 DEF PatchBegins, RestoreBegins, RunBegins, LooksAtArchive, LooksAtBundle,
                VerifiesPatched, RestoreLooks, PatcherGoes
  <2>2. PatchTyped /\ PatchTyped /\ app.version \in Nat /\ app.archive \in States
    BY DEF PatchInv, PatchTyped, Bundles
  <2>3. \/ /\ patcher'.at \in {"looks", "restores"} /\ patcher'.version = app.version
           /\ patcher'.live = Gone /\ patcher'.next = Gone
           /\ PatchTyped'
        \/ /\ patcher'.at \in {"identifies", "restores"} /\ patcher'.version = patcher.version
           /\ patcher'.live = patcher.live /\ patcher'.next = patcher.next
           /\ patcher.at \in Looking
           /\ PatchTyped'
        \/ /\ patcher'.at \in {"verifies", "secures", "unpacks"}
           /\ patcher'.version = patcher.version
           /\ patcher'.live = app /\ patcher'.next = patcher.next
           /\ patcher.at \in Looking /\ app # Gone
           /\ PatchTyped'
    <3>1. CASE PatchBegins \/ RestoreBegins
      <4>1. PICK first \in {"looks", "restores"} : RunBegins(first)
        BY <3>1 DEF PatchBegins, RestoreBegins
      <4>2. patcher' = [at |-> first, version |-> app.version, state |-> "none", live |-> Gone,
                        next |-> Gone, run |-> patcher.run + 1]
        BY <4>1 DEF RunBegins, Rest
      <4>3. Gone \in Bundles /\ patcher.run + 1 \in Nat
        BY <2>2 DEF PatchTyped, Gone, Bundles, States
      <4>4. PatchTyped'
        BY <2>1, <2>2, <4>2, <4>3 DEF PatchTyped, States
      <4>. QED  BY <4>2, <4>4
    <3>2. CASE LooksAtArchive
      BY <1>2, <2>1, <2>2, <3>2 DEF LooksAtArchive, PatchTyped
    <3>3. CASE LooksAtBundle
      BY <1>2, <2>1, <2>2, <3>3 DEF LooksAtBundle, PatchTyped
    <3>4. CASE VerifiesPatched
      BY <1>2, <2>1, <2>2, <3>4 DEF VerifiesPatched, PatcherGoes, PatchTyped
    <3>5. CASE RestoreLooks
      BY <1>2, <2>1, <2>2, <3>5 DEF RestoreLooks, PatchTyped
    <3>. QED  BY <3>1, <3>2, <3>3, <3>4, <3>5
  <2>4. /\ PatchTyped' /\ patcher'.live \in {Gone, patcher.live, app}
        /\ patcher'.next \in {Gone, patcher.next}
        /\ patcher'.at \in Looking \union {"secures", "unpacks"}
    BY <2>3
  <2>9. staged' = Gone /\ patcher'.next = Gone
    BY <2>1, <2>4 DEF PatchInv, VersionKnown
  <2>5. /\ Sound(patcher.live)' /\ Sound(staged)' /\ Sound(patcher.next)'
        /\ SoundToBe(staged)' /\ SoundToBe(patcher.next)'
    BY <2>1, <2>4, <2>9 DEF PatchInv, BundlesSound, Sound, SoundToBe, OpenAI, Torn, Gone
  <2>6. /\ staged'.inode <= inodes' /\ patcher'.live.inode <= inodes' /\ patcher'.next.inode <= inodes'
        /\ inodes' >= inodes
    BY <2>1, <2>4 DEF PatchInv, InodesGiven, Gone, PatchTyped
  <2>7. VersionKnown'
    BY <2>1, <2>4, <2>9 DEF VersionKnown
  <2>8. WorkStands'
    BY <2>1, <2>3 DEF PatchInv, WorkStands, InodesGiven
  <2>. QED  BY <2>1, <2>4, <2>5, <2>6, <2>7, <2>8, WorkKeepsPatch
<1>. QED  BY <1>1, <1>2

\* A look at the bundle that finds the one remembered finds it in place.
LEMMA UnmovedIsInPlace ==
    ASSUME PatchInv, patcher.at \in Working, Unmoved
    PROVE  app = patcher.live /\ app # Gone /\ app.inode >= 1
BY DEF PatchInv, WorkStands, Unmoved, Same, Gone, PatchTyped, Bundles

\* The steps that prepare the copy.
LEMMA PreparingKeepsPatch ==
    ASSUME PatchInv, Secures \/ Compares \/ CopiesBundle \/ PatchesArchive \/ Signs \/ RestoreCopies
    PROVE  PatchInv'
<1>. USE DEF Looking, Working, Swapped
<1>1. CASE RunEnds
  <2>1. /\ patcher.at \notin Swapped
        /\ UNCHANGED <<app, originals, inodes, updated, away, kept, history>>
    BY <1>1 DEF Secures, Compares, CopiesBundle, PatchesArchive, Signs, RestoreCopies, RunEnds, PatcherGoes,
                Rest
  <2>. QED  BY <1>1, <2>1, GivingUpKeepsPatch
<1>2. CASE ~RunEnds
  <2>1. /\ patcher.at \in Working /\ patcher'.at \in Working
        /\ UNCHANGED <<app, updated, away, kept, history>>
        /\ patcher'.version = patcher.version /\ patcher'.live = patcher.live
    BY <1>2 DEF Secures, Compares, CopiesBundle, PatchesArchive, Signs, RestoreCopies, PatcherGoes,
                PatchInv, PatchTyped
  <2>2. /\ PatchTyped /\ Sound(app) /\ Sound(patcher.live)
        /\ SoundToBe(staged) /\ SoundToBe(patcher.next)
        /\ staged.inode <= inodes /\ patcher.live.inode <= inodes /\ patcher.next.inode <= inodes
        /\ inodes \in Nat /\ staged.inode \in Nat /\ patcher.live.inode \in Nat /\ patcher.next.inode \in Nat
    BY <2>1 DEF PatchInv, BundlesSound, InodesGiven, PatchTyped, Bundles
  <2>3. CASE Secures
    <3>1. /\ patcher.at = "secures" /\ patcher' = [patcher EXCEPT !.at = "compares"] /\ UNCHANGED <<staged, inodes>>
          /\ originals \in SUBSET originals' /\ patcher.version \in originals'
      BY <1>2, <2>3 DEF Secures, PatcherGoes
    <3>2. PatchTyped' /\ patcher'.at = "compares" /\ patcher'.next = patcher.next
      BY <2>1, <2>2, <3>1 DEF PatchTyped
    <3>3. Sound(patcher.live)' /\ SoundToBe(staged)' /\ SoundToBe(patcher.next)'
      BY <2>1, <2>2, <3>1, <3>2 DEF Sound, SoundToBe, OpenAI, Torn
    <3>4. VersionKnown' /\ WorkStands'
      BY <2>1, <2>2, <3>1, <3>2 DEF PatchInv, VersionKnown, WorkStands, Torn
    <3>. QED  BY <2>1, <2>2, <3>1, <3>2, <3>3, <3>4, WorkKeepsPatch
  <2>4. CASE Compares
    <3>1. /\ patcher.at = "compares" /\ patcher' = [patcher EXCEPT !.at = "copies"]
          /\ UNCHANGED <<staged, inodes, originals>>
      BY <1>2, <2>4 DEF Compares, PatcherGoes
    <3>2. PatchTyped' /\ patcher'.at = "copies" /\ patcher'.next = patcher.next
      BY <2>1, <2>2, <3>1 DEF PatchTyped
    <3>3. Sound(patcher.live)' /\ SoundToBe(staged)' /\ SoundToBe(patcher.next)'
      BY <2>1, <2>2, <3>1, <3>2 DEF Sound, SoundToBe, OpenAI, Torn
    <3>4. VersionKnown' /\ WorkStands'
      BY <2>1, <2>2, <3>1, <3>2 DEF PatchInv, VersionKnown, WorkStands, Torn
    <3>. QED  BY <2>1, <2>2, <3>1, <3>2, <3>3, <3>4, WorkKeepsPatch
  <2>5. CASE CopiesBundle
    <3>1. /\ patcher.at = "copies" /\ Unmoved /\ patcher' = [patcher EXCEPT !.at = "patches"]
          /\ inodes' = inodes + 1 /\ staged' = [app EXCEPT !.inode = inodes + 1] /\ UNCHANGED originals
      BY <1>2, <2>5 DEF CopiesBundle, PatcherGoes
    <3>2. app = patcher.live
      BY <3>1, UnmovedIsInPlace
    <3>3. /\ staged' \in Bundles /\ staged'.inode = inodes + 1 /\ staged'.version = app.version
          /\ staged'.archive = app.archive /\ staged'.signed = app.signed
      BY <2>2, <3>1 DEF PatchTyped, Bundles
    <3>4. PatchTyped' /\ patcher'.at = "patches" /\ patcher'.next = patcher.next
      BY <2>1, <2>2, <3>1, <3>3 DEF PatchTyped
    <3>5. Sound(patcher.live)' /\ SoundToBe(staged)' /\ SoundToBe(patcher.next)'
      BY <2>1, <2>2, <3>1, <3>3, <3>4 DEF Sound, SoundToBe, OpenAI, Torn
    <3>6. VersionKnown' /\ WorkStands'
      BY <2>1, <2>2, <3>1, <3>2, <3>3, <3>4 DEF PatchInv, VersionKnown, WorkStands, Torn
    <3>7. /\ inodes' >= inodes /\ staged'.inode <= inodes'
          /\ patcher'.live.inode <= inodes' /\ patcher'.next.inode <= inodes'
      BY <2>1, <2>2, <3>1, <3>3, <3>4
    <3>. QED  BY <2>1, <3>1, <3>4, <3>5, <3>6, <3>7, WorkKeepsPatch
  <2>6. CASE PatchesArchive
    <3>1. /\ patcher.at = "patches" /\ patcher' = [patcher EXCEPT !.at = "signs"]
          /\ staged' = [staged EXCEPT !.archive = "patched", !.signed = "damaged"]
          /\ UNCHANGED <<inodes, originals>>
      BY <2>6 DEF PatchesArchive, PatcherGoes
    <3>2. /\ staged' \in Bundles /\ staged'.inode = staged.inode /\ staged'.version = staged.version
          /\ staged'.signed = "damaged"
      BY <2>2, <3>1 DEF PatchTyped, Bundles, States
    <3>3. PatchTyped' /\ patcher'.at = "signs" /\ patcher'.next = patcher.next
      BY <2>1, <2>2, <3>1, <3>2 DEF PatchTyped
    <3>4. patcher.version \in originals /\ staged.version = patcher.live.version /\ staged.inode >= 1
      BY <3>1 DEF PatchInv, WorkStands, VersionKnown
    <3>5. Sound(patcher.live)' /\ SoundToBe(staged)' /\ SoundToBe(patcher.next)'
      BY <2>1, <2>2, <3>1, <3>2, <3>3, <3>4 DEF Sound, SoundToBe, OpenAI, Torn
    <3>6. VersionKnown' /\ WorkStands'
      BY <2>1, <2>2, <3>1, <3>2, <3>3, <3>4 DEF PatchInv, VersionKnown, WorkStands, Torn
    <3>. QED  BY <2>1, <2>2, <3>1, <3>2, <3>3, <3>5, <3>6, WorkKeepsPatch
  <2>7. CASE Signs
    <3>1. /\ patcher.at = "signs" /\ staged' = [staged EXCEPT !.signed = "adhoc"]
          /\ patcher' = [patcher EXCEPT !.at = "swaps", !.next = staged']
          /\ UNCHANGED <<inodes, originals>>
      BY <1>2, <2>7 DEF Signs
    <3>2. /\ staged' \in Bundles /\ staged'.inode = staged.inode /\ staged'.version = staged.version
          /\ staged'.archive = staged.archive /\ staged'.signed = "adhoc"
      BY <2>2, <3>1 DEF PatchTyped, Bundles
    <3>3. PatchTyped' /\ patcher'.at = "swaps" /\ patcher'.next = staged'
      BY <2>1, <2>2, <3>1, <3>2 DEF PatchTyped
    <3>4. /\ staged.version = patcher.live.version /\ staged.inode >= 1
          /\ UNCHANGED <<inodes, originals>>
      BY <3>1 DEF PatchInv, WorkStands, VersionKnown
    <3>5. Sound(patcher.live)' /\ SoundToBe(staged)' /\ SoundToBe(patcher.next)'
      BY <2>1, <2>2, <3>2, <3>3, <3>4 DEF Sound, SoundToBe, OpenAI, Torn
    <3>6. VersionKnown'
      BY <2>1, <2>2, <3>2, <3>3, <3>4 DEF VersionKnown, Torn
    <3>7. WorkStands'
      BY <2>1, <3>2, <3>3, <3>4 DEF PatchInv, WorkStands, OpenAI
    <3>. QED  BY <2>1, <2>2, <3>2, <3>3, <3>4, <3>5, <3>6, <3>7, WorkKeepsPatch
  <2>8. CASE RestoreCopies
    <3>1. /\ patcher.at = "unpacks" /\ inodes' = inodes + 1
          /\ staged' = Bundle(patcher.version, inodes + 1, "original", "openai")
          /\ patcher' = [patcher EXCEPT !.at = "swaps", !.next = staged']
          /\ UNCHANGED originals
      BY <1>2, <2>8 DEF RestoreCopies
    <3>2. /\ staged' \in Bundles /\ staged'.inode = inodes + 1 /\ staged'.version = patcher.version
          /\ staged'.archive = "original" /\ staged'.signed = "openai"
      BY <2>2, <3>1 DEF Bundle, PatchTyped, Bundles, States
    <3>3. PatchTyped' /\ patcher'.at = "swaps" /\ patcher'.next = staged'
      <4>1. patcher' = [patcher EXCEPT !.at = "swaps", !.next = staged'] /\ inodes' \in Nat
        BY <2>2, <3>1
      <4>. QED  BY <2>1, <2>2, <3>2, <4>1 DEF PatchTyped
    <3>4. Sound(patcher.live)' /\ SoundToBe(staged)' /\ SoundToBe(patcher.next)'
      BY <2>1, <2>2, <3>1, <3>2, <3>3 DEF Sound, SoundToBe, OpenAI, Torn
    <3>5. VersionKnown' /\ WorkStands'
      BY <2>1, <2>2, <3>1, <3>2, <3>3 DEF PatchInv, VersionKnown, WorkStands, Torn
    <3>6. /\ inodes' >= inodes /\ staged'.inode <= inodes'
          /\ patcher'.live.inode <= inodes' /\ patcher'.next.inode <= inodes'
      BY <2>1, <2>2, <3>1, <3>2, <3>3
    <3>. QED  BY <2>1, <3>1, <3>3, <3>4, <3>5, <3>6, WorkKeepsPatch
  <2>. QED  BY <2>3, <2>4, <2>5, <2>6, <2>7, <2>8
<1>. QED  BY <1>1, <1>2

\* The exchange puts the patcher's bundle in place and keeps the one that was there.
LEMMA SwapKeepsPatch ==
    ASSUME PatchInv, Swaps
    PROVE  PatchInv'
<1>. USE DEF Looking, Working, Swapped
<1>0. patcher.at = "swaps" /\ UNCHANGED <<originals, inodes, updated, away, kept>>
  BY DEF Swaps
<1>1. CASE app = Gone
  BY <1>0, <1>1, GivingUpKeepsPatch DEF Swaps
<1>2. CASE app # Gone
  <2>1. /\ app' = staged /\ staged' = app /\ patcher' = [patcher EXCEPT !.at = "inspects"]
        /\ history' = IF patcher.live.version = patcher.version THEN history
                      ELSE history \union {<<"torn", patcher.live.version>>}
    BY <1>2 DEF Swaps, Exchange, PatcherGoes
  <2>2. /\ PatchTyped' /\ patcher'.at = "inspects" /\ patcher'.version = patcher.version
        /\ patcher'.live = patcher.live /\ patcher'.next = patcher.next
    BY <1>0, <2>1 DEF PatchInv, PatchTyped
  <2>3. /\ staged = patcher.next /\ staged.inode >= 1 /\ app.inode >= 1
        /\ app = patcher.live \/ (OpenAI(app) /\ app.inode > patcher.live.inode)
    BY <1>0, <1>2 DEF PatchInv, WorkStands, InodesGiven
  <2>9. /\ history \in SUBSET history'
        /\ patcher.live.version # patcher.version => <<"torn", patcher.live.version>> \in history'
    BY <2>1
  <2>10. Sound(staged)' /\ Sound(patcher.live)'
    BY <1>0, <2>1, <2>2, <2>9 DEF PatchInv, BundlesSound, Sound, OpenAI, Torn
  <2>11. Sound(app)' /\ Sound(patcher.next)'
    <3>1. SoundToBe(staged)
      BY <1>0 DEF PatchInv, BundlesSound
    <3>. QED  BY <1>0, <2>1, <2>2, <2>3, <2>9, <3>1 DEF SoundToBe, Sound, OpenAI, Torn
  <2>4. BundlesSound'
    BY <2>2, <2>10, <2>11 DEF BundlesSound
  <2>5. InodesGiven'
    BY <1>0, <1>2, <2>1, <2>2, <2>3 DEF PatchInv, InodesGiven, Gone
  <2>6. VersionKnown'
    BY <1>0, <2>1, <2>2, <2>9 DEF PatchInv, VersionKnown, Torn
  <2>7. WorkStands' /\ DisplacedIsKnown'
    BY <1>0, <2>1, <2>2, <2>3 DEF WorkStands, DisplacedIsKnown, OpenAI
  <2>8. NewestIsThere'
    BY <1>0, <2>1, <2>2, <2>9 DEF PatchInv, NewestIsThere, Excused
  <2>. QED  BY <2>2, <2>4, <2>5, <2>6, <2>7, <2>8 DEF PatchInv
<1>. QED  BY <1>1, <1>2

\* After the exchange the patcher's place alone changes.
LEMMA InspectingKeepsPatch ==
    ASSUME PatchInv, patcher.at = "inspects",
           NEW to \in {"undoes", "settles"}, PatcherGoes(to), to = "undoes" => app = Gone,
           UNCHANGED <<app, staged, originals, inodes, updated, away, kept, history>>
    PROVE  PatchInv'
<1>. USE DEF Looking, Working, Swapped
<1>1. /\ PatchTyped' /\ patcher'.at = to /\ patcher'.version = patcher.version
      /\ patcher'.live = patcher.live /\ patcher'.next = patcher.next
  BY DEF PatcherGoes, PatchInv, PatchTyped
<1>2. BundlesSound' /\ InodesGiven'
  BY <1>1 DEF PatchInv, BundlesSound, Sound, OpenAI, Torn, InodesGiven
<1>3. VersionKnown' /\ WorkStands'
  BY <1>1 DEF PatchInv, VersionKnown, WorkStands, Torn
<1>4. DisplacedIsKnown' /\ NewestIsThere'
  BY <1>1 DEF PatchInv, DisplacedIsKnown, NewestIsThere, Excused, OpenAI
<1>. QED  BY <1>1, <1>2, <1>3, <1>4 DEF PatchInv

\* Whatever is found in place after the exchange, the newest version stays or goes back.
LEMMA SettlingKeepsPatch ==
    ASSUME PatchInv, FindsUnreadable \/ Undoes \/ FindsReplaced \/ FindsInstalled \/ Settles
    PROVE  PatchInv'
<1>. USE DEF Looking, Working, Swapped
<1>0. patcher.at \in Swapped /\ UNCHANGED <<originals, inodes, updated, away>>
  BY DEF FindsUnreadable, Undoes, FindsReplaced, FindsInstalled, Settles
<1>1. /\ staged.inode >= 1
      /\ staged = patcher.live \/ OpenAI(staged)
      /\ \/ app = Gone
         \/ app = patcher.next /\ patcher.at # "undoes"
         \/ OpenAI(app) /\ app.inode > patcher.next.inode /\ app.version = updated
      /\ app = Gone => away
      /\ ~Excused(updated) /\ ~away => (app = patcher.next => updated \in {staged.version} \union kept)
  BY <1>0 DEF PatchInv, DisplacedIsKnown, InodesGiven, NewestIsThere
<1>2. /\ app.inode \in Nat /\ patcher.next.inode \in Nat
      /\ app # Gone /\ Same(app, patcher.next) => app = patcher.next
      /\ app # Gone /\ ~Same(app, patcher.next) => OpenAI(app) /\ app.version = updated
  BY <1>1 DEF PatchInv, PatchTyped, Bundles, Same
<1>3. CASE FindsUnreadable
  <2>1. CASE PatcherGoes("undoes") /\ UNCHANGED <<staged, kept>>
    BY <1>3, <2>1, InspectingKeepsPatch DEF FindsUnreadable
  <2>2. CASE RunEndsPreserving
    BY <1>0, <1>1, <1>3, <2>2, EndKeepsPatch DEF FindsUnreadable, RunEndsPreserving
  <2>. QED  BY <1>3, <2>1, <2>2 DEF FindsUnreadable
<1>4. CASE Undoes
  <2>1. /\ app' = staged /\ patcher' = [Rest EXCEPT !.run = patcher.run] /\ staged' = Gone
        /\ kept' = (IF app = Gone THEN kept ELSE kept \union {app.version})
        /\ patcher.at = "undoes" /\ UNCHANGED history
    BY <1>4 DEF Undoes
  <2>2. ~away => updated \in kept'
    BY <1>1, <2>1
  <2>. QED  BY <1>0, <1>1, <2>1, <2>2, EndKeepsPatch
<1>5. CASE FindsReplaced
  <2>1. /\ app # Gone /\ ~Same(app, patcher.next) /\ UNCHANGED history
    BY <1>5 DEF FindsReplaced
  <2>2. RunEnds /\ UNCHANGED <<app, kept>>
    BY <1>2, <1>5, <2>1 DEF FindsReplaced
  <2>3. updated = app.version
    BY <1>2, <2>1
  <2>. QED  BY <1>0, <2>1, <2>2, <2>3, EndKeepsPatch DEF RunEnds
<1>6. CASE FindsInstalled
  BY <1>0, <1>6, InspectingKeepsPatch DEF FindsInstalled
<1>7. CASE Settles
  <2>1. CASE Same(staged, patcher.live)
    <3>1. RunEnds /\ UNCHANGED <<app, kept, history>> /\ patcher.at = "settles"
      BY <1>7, <2>1 DEF Settles
    <3>2. /\ patcher.next.version \in {patcher.live.version, patcher.version}
          /\ patcher.live.version # patcher.version => Torn(patcher.live.version)
      BY <3>1 DEF PatchInv, VersionKnown
    <3>3. staged.version = patcher.live.version
      BY <2>1 DEF Same
    <3>4. ~Excused(updated) /\ ~away => updated \in {app.version} \union kept
      BY <1>1, <3>2, <3>3 DEF Torn, Excused
    <3>5. ~Excused(updated)' /\ ~away => updated \in {app'.version} \union kept'
      BY <1>0, <3>1, <3>4 DEF Excused
    <3>. QED  BY <1>0, <3>1, <3>5, EndKeepsPatch DEF RunEnds
  <2>2. CASE ~Same(staged, patcher.live) /\ app # Gone
    <3>1. OpenAI(staged)
      BY <1>1, <2>2 DEF Same
    <3>2. /\ RunEnds /\ app' = staged /\ UNCHANGED kept
          /\ history' = IF Same(app, patcher.next) THEN history ELSE history \union {<<"ousted", app.version>>}
      BY <1>7, <2>2, <3>1 DEF Settles
    <3>3. ~Excused(updated)' /\ ~away => updated \in {app'.version} \union kept'
      BY <1>0, <1>1, <1>2, <2>2, <3>2 DEF Excused
    <3>. QED  BY <1>0, <1>1, <3>2, <3>3, EndKeepsPatch DEF RunEnds
  <2>3. CASE ~Same(staged, patcher.live) /\ app = Gone
    <3>1. RunEndsPreserving /\ UNCHANGED <<app, history>>
      BY <1>7, <2>3 DEF Settles
    <3>. QED  BY <1>0, <1>1, <2>3, <3>1, EndKeepsPatch DEF RunEndsPreserving
  <2>. QED  BY <2>1, <2>2, <2>3
<1>. QED  BY <1>3, <1>4, <1>5, <1>6, <1>7

\* Every step keeps the invariant.
LEMMA PatchSteps == PatchInv /\ [PatchNext]_patchVars => PatchInv'
<1>. SUFFICES ASSUME PatchInv, [PatchNext]_patchVars PROVE PatchInv'
  OBVIOUS
<1>1. CASE PatcherDies
  <2>1. RunEndsPreserving /\ UNCHANGED <<app, originals, inodes, updated, away, history>>
    BY <1>1 DEF PatcherDies
  <2>2. kept' = kept \union {staged.version}
    BY <2>1 DEF RunEndsPreserving
  <2>3. ~Excused(updated) /\ ~away => updated \in {app.version} \union kept'
    <3>1. CASE patcher.at \in Swapped
      BY <2>2, <3>1 DEF PatchInv, NewestIsThere, DisplacedIsKnown, InodesGiven
    <3>2. CASE patcher.at \notin Swapped
      BY <2>2, <3>2 DEF PatchInv, NewestIsThere
    <3>. QED  BY <3>1, <3>2
  <2>4. ~Excused(updated)' /\ ~away => updated \in {app'.version} \union kept'
    BY <2>1, <2>3 DEF Excused
  <2>. QED  BY <2>1, <2>4, EndKeepsPatch DEF RunEndsPreserving
<1>2. CASE UNCHANGED patchVars
  BY <1>2 DEF patchVars, PatchInv, PatchTyped, BundlesSound, Sound, SoundToBe, OpenAI, Torn, InodesGiven,
              VersionKnown, WorkStands, DisplacedIsKnown, NewestIsThere, Excused
<1>. QED  BY <1>1, <1>2, UpdaterKeepsPatch, LookKeepsPatch, PreparingKeepsPatch, SwapKeepsPatch,
             SettlingKeepsPatch DEF PatchNext

\* What the exchange takes from the place of the application, or puts there, carries a
\* signature that holds, unless it is the bundle that was there before.
LEMMA NothingBrokenIsInstalled ==
    ASSUME PatchInv, [PatchNext]_patchVars, app'.signed = "damaged"
    PROVE  app'.inode = app.inode \/ Same(app', patcher.live)
<1>1. CASE UNCHANGED app
  BY <1>1
<1>2. CASE UpdateRemoves \/ UpdateInstalls
  BY <1>2 DEF UpdateRemoves, UpdateInstalls, Gone, Bundle
<1>3. CASE Swaps /\ app' # app
  BY <1>3 DEF Swaps, Exchange, PatchInv, WorkStands
<1>4. CASE (Undoes \/ FindsReplaced \/ Settles) /\ app' # app
  <2>1. app' = staged /\ patcher.at \in Swapped
    BY <1>4 DEF Undoes, FindsReplaced, Settles, Swapped
  <2>2. staged = patcher.live \/ OpenAI(staged)
    BY <2>1 DEF PatchInv, DisplacedIsKnown
  <2>. QED  BY <2>1, <2>2 DEF Same, OpenAI
<1>5. CASE PatcherDies \/ PatchBegins \/ RestoreBegins \/ LooksAtArchive \/ LooksAtBundle \/ VerifiesPatched
           \/ Secures \/ Compares \/ CopiesBundle \/ PatchesArchive \/ Signs
           \/ RestoreLooks \/ RestoreCopies \/ FindsUnreadable \/ FindsInstalled
  BY <1>1, <1>5 DEF PatcherDies, PatchBegins, RestoreBegins, RunBegins, LooksAtArchive, LooksAtBundle,
     VerifiesPatched, Secures, Compares, CopiesBundle, PatchesArchive, Signs, RestoreLooks, RestoreCopies,
     FindsUnreadable, FindsInstalled
<1>. QED  BY <1>1, <1>2, <1>3, <1>4, <1>5 DEF PatchNext, patchVars

\* However often the patcher runs and dies and wherever an update comes between its steps:
\* a patched application has its original and the newest version is in place or put aside,
\* save an update that a run took for the version before, and the second of two that come
\* within one exchange.
THEOREM PatchLosesNothing == PatchSpec => []NothingIsLost
<1>1. PatchInv => NothingIsLost
  BY DEF PatchInv, BundlesSound, Sound, Torn, Excused, NewestIsThere, Swapped, NothingIsLost, CanBeRestored,
         UpdateSurvives
<1>. QED  BY <1>1, PatchStarts, PatchSteps, PTL DEF PatchSpec

\* No step of the patcher puts a bundle in place whose signature does not hold.
THEOREM PatchKeepsAppWhole == PatchSpec => AppStaysWhole
<1>1. PatchSpec => []PatchInv
  BY PatchStarts, PatchSteps, PTL DEF PatchSpec
<1>2. PatchInv /\ [PatchNext]_patchVars
      => [app'.signed = "damaged" => app'.inode = app.inode \/ Same(app', patcher.live)]_patchVars
  BY NothingBrokenIsInstalled
<1>. QED  BY <1>1, <1>2, PTL DEF PatchSpec, AppStaysWhole

================================================================================

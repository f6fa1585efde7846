--------------------------- MODULE TierReleaseProofs ---------------------------
(***************************************************************************)
(* Proofs about TierRelease, for any finite sets of turns on either path.  *)
(***************************************************************************)
EXTENDS TierRelease, FiniteSetTheorems, TLAPS

USE SideAssumption

\* Where a response counts as in flight.
Flying == {"reserved", "serving"}

\* Where a coroutine of either side can be while its unloads are under way.
LoopPlaces(p) ==
    IF SideOf(p) = "claude" THEN {"evicting", "releasing", "draining", "handing"}
                            ELSE {"releasing", "handing"}

\* Only a loop has unloads that are not answered yet.
LoopPlaced == \A p \in Procs : rest[p] # <<>> => pc[p] \in LoopPlaces(p)

\* While Codex holds its state lock for its unloads no Codex slot is taken.
LockExcludes == CodexStateLocked => \A t \in CodexTurns : pc[t] \notin Flying

ReleaseInv ==
    TypeOK /\ LoopPlaced /\ CountsExact /\ LockExcludes /\ DeferralHasHeir

\* What a step may do to one coroutine: it alone moves; a loop of unloads is
\* started on a count of zero, and a state lock taken for such a loop only; a
\* response is counted when it takes off and when it lands.
Moves(p) ==
    /\ \A q \in Procs \ {p} : pc'[q] = pc[q] /\ rest'[q] = rest[q]
    /\ rest'[p] # <<>> => pc'[p] \in LoopPlaces(p)
    /\ pc'[p] # pc[p] /\ pc'[p] \in {"handing", "releasing"} => rest'[p] # <<>>
    /\ BeginsLoop(p) => inflight'[SideOf(p)] = 0
    /\ \/ /\ UNCHANGED inflight
          /\ pc[p] \in Flying <=> pc'[p] \in Flying
       \/ /\ p \in Turns
          /\ pc[p] \notin Flying /\ pc'[p] \in Flying
          /\ Started(SideOf(p))
          /\ SideOf(p) = "codex" => ~CodexStateLocked
       \/ /\ p \in Turns
          /\ pc[p] \in Flying /\ pc'[p] \notin Flying
          /\ inflight' = [inflight EXCEPT ![SideOf(p)] = Less(@)]

\* What a side has claimed or put off stays in its books, or goes to the loop of
\* the coroutine that moves; a Claude turn that ends under an open breaker drops it.
KeepsBooks(p) ==
    \A s \in Sides :
        \/ s = "claude" /\ tripped["claude"]
        \/ claims[s] \union deferred[s] \subseteq
               claims'[s] \union deferred'[s] \union
               (IF SideOf(p) = s THEN Range(rest'[p]) ELSE {})

\* What every step does, stated for the coroutine it moves.
StepOf(p) == TypeOK' /\ DeferralHasHeir' /\ Moves(p) /\ KeepsBooks(p)

-----------------------------------------------------------------------------
(* Sides and loops *)

\* A coroutine is of the side whose turns it is one of, and sides are not turns.
LEMMA SideFacts ==
    /\ \A t \in ClaudeTurns : SideOf(t) = "claude" /\ t \notin CodexTurns
    /\ \A t \in CodexTurns : SideOf(t) = "codex" /\ t \notin ClaudeTurns
    /\ SideOf("claude") = "claude" /\ SideOf("codex") = "codex"
    /\ \A s \in Sides : s \notin Turns
BY DEF SideOf, Turns, Sides

\* The orders of some tiers have exactly these tiers, and none is empty but that of none.
LEMMA OrderFacts ==
    ASSUME NEW tiers \in SUBSET Tiers, NEW order \in SetToSeqs(tiers)
    PROVE  /\ order \in Seq(Tiers)
           /\ Range(order) = tiers
           /\ order = <<>> <=> tiers = {}
<1>. DEFINE D == 1..Cardinality(tiers)
<1>1. IsFiniteSet(tiers) /\ Cardinality(tiers) \in Nat
  <2>1. IsFiniteSet({Narrow} \union {Wide})
    BY FS_Singleton, FS_AddElement
  <2>. QED  BY <2>1, FS_Subset, FS_CardinalityType DEF Tiers
<1>2. order \in [D -> tiers] /\ \A i, j \in D : i # j => order[i] # order[j]
  BY DEF SetToSeqs
<1>3. IsFiniteSet(D) /\ Cardinality(D) = Cardinality(tiers)
  BY <1>1, FS_Interval
<1>4. order \in Surjection(D, tiers)
  <2>1. order \in Injection(D, tiers)
    BY <1>2 DEF Injection, IsInjective
  <2>. QED  BY <1>1, <1>3, <2>1, FS_Injection
<1>5. order \in Seq(Tiers) /\ Len(order) = Cardinality(tiers)
  BY <1>1, <1>2
<1>6. Range(order) = tiers
  BY <1>2, <1>4 DEF Range, Surjection
<1>7. order = <<>> <=> tiers = {}
  BY <1>1, <1>2, <1>5, <1>6, FS_EmptySet DEF Range
<1>. QED  BY <1>5, <1>6, <1>7
-----------------------------------------------------------------------------
(* Counting *)

\* What is in flight on a side is a finite set of turns.
LEMMA InFlightFinite ==
    ASSUME NEW s \in Sides
    PROVE  IsFiniteSet(InFlight(s)) /\ Cardinality(InFlight(s)) \in Nat
BY FS_Subset, FS_CardinalityType DEF InFlight

\* A step that moves one coroutine leaves the counts exact: a response that takes
\* off is one more on its side, one that lands is one less.
LEMMA CountStep ==
    ASSUME TypeOK, CountsExact, NEW p \in Procs, Moves(p)
    PROVE  CountsExact'
<1>. DEFINE side == SideOf(p)
<1>1. side \in Sides
  BY DEF SideOf, Sides
<1>2. CASE UNCHANGED inflight /\ (pc[p] \in Flying <=> pc'[p] \in Flying)
  <2>1. \A s \in Sides : InFlight(s)' = InFlight(s)
    BY <1>2 DEF InFlight, Flying, Moves, Procs
  <2>. QED  BY <1>2, <2>1 DEF CountsExact
<1>3. CASE p \in Turns /\ pc[p] \notin Flying /\ pc'[p] \in Flying /\ Started(side)
  <2>1. /\ InFlight(side)' = InFlight(side) \union {p}
        /\ \A s \in Sides \ {side} : InFlight(s)' = InFlight(s)
    BY <1>3 DEF InFlight, Flying, Moves, Procs
  <2>2. Cardinality(InFlight(side) \union {p}) = Cardinality(InFlight(side)) + 1
    BY <1>1, <1>3, InFlightFinite, FS_AddElement DEF InFlight, Flying
  <2>. QED  BY <1>1, <1>3, <2>1, <2>2 DEF CountsExact, Started, TypeOK
<1>4. CASE /\ p \in Turns /\ pc[p] \in Flying /\ pc'[p] \notin Flying
           /\ inflight' = [inflight EXCEPT ![side] = Less(@)]
  <2>. DEFINE others == InFlight(side) \ {p}
  <2>1. /\ InFlight(side)' = others
        /\ \A s \in Sides \ {side} : InFlight(s)' = InFlight(s)
    BY <1>4 DEF InFlight, Flying, Moves, Procs
  <2>2. /\ Cardinality(others) = Cardinality(InFlight(side)) - 1
        /\ Cardinality(others) \in Nat
    <3>1. p \in InFlight(side)
      BY <1>4 DEF InFlight, Flying
    <3>. QED  BY <1>1, <3>1, InFlightFinite, FS_RemoveElement, FS_CardinalityType
  <2>3. inflight[side] = Cardinality(InFlight(side))
    BY <1>1 DEF CountsExact
  <2>4. Less(inflight[side]) = Cardinality(others)
    BY <1>1, <2>2, <2>3, InFlightFinite DEF Less
  <2>5. /\ inflight'[side] = Cardinality(others)
        /\ \A s \in Sides \ {side} : inflight'[s] = inflight[s]
    BY <1>1, <1>4, <2>4 DEF TypeOK
  <2>. QED  BY <2>1, <2>5 DEF CountsExact
<1>. QED  BY <1>2, <1>3, <1>4 DEF Moves

\* A count that a step leaves at zero means that nothing is in flight after it.
LEMMA ZeroIsIdle ==
    ASSUME CountsExact', NEW s \in Sides, inflight'[s] = 0
    PROVE  \A t \in Turns : SideOf(t) = s => pc'[t] \notin Flying
<1>. DEFINE after == {t \in Turns : SideOf(t) = s /\ pc'[t] \in Flying}
<1>1. Cardinality(after) = 0
  BY DEF CountsExact, InFlight, Flying
<1>2. after = {}
  BY <1>1, FS_Subset, FS_EmptySet
<1>. QED  BY <1>2

-----------------------------------------------------------------------------
(* Ways to move *)

\* A coroutine that is done is idle, with no unload left.
LEMMA DoneFacts ==
    ASSUME TypeOK, NEW p \in Procs, Done(p)
    PROVE  /\ pc' \in [Procs -> Places] /\ pc'[p] = "idle"
           /\ rest' \in [Procs -> Seq(Tiers)] /\ rest'[p] = <<>>
           /\ \A q \in Procs \ {p} : pc'[q] = pc[q] /\ rest'[q] = rest[q]
           /\ job' \in [Procs -> Jobs] /\ UNCHANGED struck
<1>1. NoJob \in Jobs /\ "idle" \in Places /\ <<>> \in Seq(Tiers)
  BY DEF NoJob, Jobs, Places
<1>. QED  BY <1>1 DEF TypeOK, Done, Goto

\* A coroutine that starts a loop has all of the tiers before it.
LEMMA UnloadFacts ==
    ASSUME TypeOK, NEW p \in Procs, NEW phase \in Places, Goto(p, phase),
           NEW tiers \in SUBSET Tiers, NEW order \in SetToSeqs(tiers),
           rest' = [rest EXCEPT ![p] = order]
    PROVE  /\ pc' \in [Procs -> Places] /\ pc'[p] = phase
           /\ rest' \in [Procs -> Seq(Tiers)] /\ Range(rest'[p]) = tiers
           /\ rest'[p] = <<>> <=> tiers = {}
           /\ \A q \in Procs \ {p} : pc'[q] = pc[q] /\ rest'[q] = rest[q]
<1>1. order \in Seq(Tiers) /\ Range(order) = tiers /\ (order = <<>> <=> tiers = {})
  BY OrderFacts
<1>. QED  BY <1>1 DEF TypeOK, Goto

\* A Claude hand-back is deferred under a response in flight, or done at once.
LEMMA ClaudeHandsBackStep ==
    ASSUME ReleaseInv, NEW p \in ClaudeTurns \union {"claude"}, pc[p] \notin Flying,
           ClaudeHandsBack(p), UNCHANGED <<inflight, evictions>>,
           tripped' \in [Sides -> BOOLEAN]
    PROVE  StepOf(p)
<1>. USE DEF ReleaseInv
<1>. DEFINE due == claims["claude"]
<1>1. /\ p \in Procs /\ SideOf(p) = "claude" /\ "claude" \in Sides
      /\ "handing" \in Places /\ "handing" \in LoopPlaces(p) /\ "handing" \notin Flying
  BY DEF SideOf, Procs, Turns, Sides, Places, LoopPlaces, Flying
<1>2. /\ claims' = [claims EXCEPT !["claude"] = {}]
      /\ claims["claude"] \in SUBSET Tiers
  BY <1>1 DEF ClaudeHandsBack, TypeOK
<1>3. CASE /\ Done(p)
           /\ \/ claims["claude"] = {} /\ UNCHANGED deferred
              \/ /\ inflight["claude"] > 0
                 /\ deferred' = [deferred EXCEPT !["claude"] = @ \union claims["claude"]]
  <2>1. deferred' \in [Sides -> SUBSET Tiers]
    <3>1. deferred \in [Sides -> SUBSET Tiers]
      BY DEF TypeOK
    <3>2. deferred["claude"] \union claims["claude"] \in SUBSET Tiers
      BY <1>1, <1>2, <3>1
    <3>. QED  BY <1>3, <3>1, <3>2
  <2>2. TypeOK'
    BY <1>1, <1>2, <1>3, <2>1, DoneFacts DEF TypeOK
  <2>3. DeferralHasHeir'
    BY <1>3 DEF DeferralHasHeir
  <2>4. Moves(p)
    BY <1>1, <1>3, DoneFacts DEF Moves, Flying, BeginsLoop
  <2>5. KeepsBooks(p)
    BY <1>1, <1>2, <1>3 DEF TypeOK, KeepsBooks
  <2>. QED  BY <2>2, <2>3, <2>4, <2>5 DEF StepOf
<1>4. CASE /\ claims["claude"] # {} /\ inflight["claude"] = 0
           /\ Unload(p, claims["claude"], "handing") /\ UNCHANGED <<job, deferred>>
  <2>1. /\ pc' \in [Procs -> Places] /\ pc'[p] = "handing"
        /\ rest' \in [Procs -> Seq(Tiers)] /\ Range(rest'[p]) = due
        /\ rest'[p] # <<>>
        /\ \A q \in Procs \ {p} : pc'[q] = pc[q] /\ rest'[q] = rest[q]
        /\ UNCHANGED struck
    <3>1. PICK order \in SetToSeqs(due) :
              rest' = [rest EXCEPT ![p] = order] /\ Goto(p, "handing")
      BY <1>4 DEF Unload
    <3>2. UNCHANGED struck
      BY <1>4 DEF Unload
    <3>3. due # {} /\ due \in SUBSET Tiers
      BY <1>2, <1>4
    <3>. HIDE DEF due
    <3>. QED  BY <1>1, <3>3, <3>1, <3>2, UnloadFacts
  <2>2. TypeOK' /\ DeferralHasHeir'
    BY <1>1, <1>2, <1>4, <2>1 DEF TypeOK, DeferralHasHeir
  <2>3. Moves(p)
    BY <1>1, <1>4, <2>1 DEF Moves
  <2>4. KeepsBooks(p)
    BY <1>1, <1>2, <1>4, <2>1 DEF TypeOK, KeepsBooks
  <2>. QED  BY <2>2, <2>3, <2>4 DEF StepOf
<1>. QED  BY <1>3, <1>4 DEF ClaudeHandsBack, Begin

\* A Codex hand-back likewise, with what was put off if the breaker is closed.
LEMMA CodexHandsBackStep ==
    ASSUME ReleaseInv, NEW p \in CodexTurns \union {"codex"}, pc[p] \notin Flying,
           CodexHandsBack(p), UNCHANGED <<tripped, inflight, evictions>>
    PROVE  StepOf(p)
<1>. USE DEF ReleaseInv
<1>. DEFINE old == IF tripped["codex"] THEN {} ELSE deferred["codex"]
            due == claims["codex"] \union old
<1>1. /\ p \in Procs /\ SideOf(p) = "codex" /\ Sides = {"claude", "codex"}
      /\ "handing" \in Places /\ "handing" \in LoopPlaces(p) /\ "handing" \notin Flying
  BY SideFacts DEF Procs, Turns, Sides, Places, LoopPlaces, Flying
<1>2. claims' = [claims EXCEPT !["codex"] = {}] /\ due \in SUBSET Tiers
  BY <1>1 DEF TypeOK, CodexHandsBack
<1>3. /\ deferred' \in [Sides -> SUBSET Tiers]
      /\ deferred'["claude"] = deferred["claude"]
      /\ \/ deferred'["codex"] = deferred["codex"] \union claims["codex"]
         \/ deferred'["codex"] = deferred["codex"] \ old
  BY <1>1 DEF TypeOK, CodexHandsBack
<1>4. CASE Done(p) /\ (due = {} \/ deferred'["codex"] = deferred["codex"] \union claims["codex"])
  <2>1. TypeOK' /\ DeferralHasHeir'
    BY <1>1, <1>2, <1>3, <1>4, DoneFacts DEF TypeOK, DeferralHasHeir
  <2>2. Moves(p)
    BY <1>1, <1>4, DoneFacts DEF Moves, Flying, BeginsLoop
  <2>3. KeepsBooks(p)
    BY <1>1, <1>2, <1>3, <1>4 DEF TypeOK, KeepsBooks
  <2>. QED  BY <2>1, <2>2, <2>3 DEF StepOf
<1>5. CASE /\ due # {} /\ inflight["codex"] = 0 /\ deferred'["codex"] = deferred["codex"] \ old
           /\ Unload(p, due, "handing") /\ UNCHANGED job
  <2>1. /\ pc' \in [Procs -> Places] /\ pc'[p] = "handing"
        /\ rest' \in [Procs -> Seq(Tiers)] /\ Range(rest'[p]) = due
        /\ rest'[p] # <<>>
        /\ \A q \in Procs \ {p} : pc'[q] = pc[q] /\ rest'[q] = rest[q]
        /\ UNCHANGED struck
    <3>1. PICK order \in SetToSeqs(due) :
              rest' = [rest EXCEPT ![p] = order] /\ Goto(p, "handing")
      BY <1>5 DEF Unload
    <3>2. UNCHANGED struck
      BY <1>5 DEF Unload
    <3>. HIDE DEF due
    <3>. QED  BY <1>1, <1>2, <1>5, <3>1, <3>2, UnloadFacts
  <2>2. TypeOK' /\ DeferralHasHeir'
    BY <1>1, <1>2, <1>3, <1>5, <2>1 DEF TypeOK, DeferralHasHeir
  <2>3. Moves(p)
    BY <1>1, <1>5, <2>1 DEF Moves
  <2>4. KeepsBooks(p)
    BY <1>1, <1>2, <1>3, <1>5, <2>1 DEF TypeOK, KeepsBooks
  <2>. QED  BY <2>2, <2>3, <2>4 DEF StepOf
<1>. QED  BY <1>1, <1>4, <1>5 DEF CodexHandsBack, Begin, TypeOK

\* A coroutine that walks on leaves the books, the counts and the loops alone.
LEMMA WalkStep ==
    ASSUME ReleaseInv, NEW p \in Procs, NEW where \in Places \ {"handing", "releasing"},
           Goto(p, where), pc[p] \in Flying <=> where \in Flying,
           rest[p] = <<>>, UNCHANGED <<inflight, rest, struck>>,
           tripped' \in [Sides -> BOOLEAN], job' \in [Procs -> Jobs],
           claims' \in [Sides -> SUBSET Tiers], deferred' \in [Sides -> SUBSET Tiers],
           evictions' \in SUBSET {Narrow},
           deferred'["claude"] = deferred["claude"],
           \A s \in Sides :
               claims[s] \union deferred[s] \subseteq claims'[s] \union deferred'[s]
    PROVE  StepOf(p)
<1>1. TypeOK'
  BY DEF ReleaseInv, TypeOK, Goto
<1>2. DeferralHasHeir'
  BY DEF ReleaseInv, DeferralHasHeir
<1>3. pc'[p] = where /\ \A q \in Procs \ {p} : pc'[q] = pc[q]
  BY DEF ReleaseInv, TypeOK, Goto
<1>4. Moves(p)
  BY <1>3 DEF Moves, BeginsLoop
<1>5. KeepsBooks(p)
  BY DEF KeepsBooks
<1>. QED  BY <1>1, <1>2, <1>4, <1>5 DEF StepOf

\* A coroutine that was serving nothing ends.
LEMMA DoneStep ==
    ASSUME ReleaseInv, NEW p \in Procs, Done(p), pc[p] \notin Flying,
           UNCHANGED <<claims, inflight, deferred>>,
           tripped' \in [Sides -> BOOLEAN], evictions' \in SUBSET {Narrow}
    PROVE  StepOf(p)
<1>1. TypeOK'
  BY DoneFacts DEF ReleaseInv, TypeOK
<1>2. DeferralHasHeir'
  BY DEF ReleaseInv, DeferralHasHeir
<1>3. Moves(p)
  BY DoneFacts DEF ReleaseInv, Moves, Flying, BeginsLoop
<1>4. KeepsBooks(p)
  BY DEF KeepsBooks
<1>. QED  BY <1>1, <1>2, <1>3, <1>4 DEF StepOf

\* A response takes off on its side, under no state lock of Codex.
LEMMA TakeOffStep ==
    ASSUME ReleaseInv, NEW t \in Turns, NEW where \in Flying, Goto(t, where),
           pc[t] \notin Flying, rest[t] = <<>>, Started(SideOf(t)),
           SideOf(t) = "codex" => ~CodexStateLocked,
           UNCHANGED <<tripped, deferred, evictions, job, rest, struck>>,
           claims' \in [Sides -> SUBSET Tiers],
           \A s \in Sides : claims[s] \subseteq claims'[s]
    PROVE  StepOf(t)
<1>1. t \in Procs /\ where \in Places /\ SideOf(t) \in Sides /\ "claude" \in Sides
  BY DEF Procs, Flying, Places, SideOf, Sides
<1>2. /\ inflight' \in [Sides -> Nat]
      /\ \A s \in Sides : inflight'[s] >= inflight[s]
  BY <1>1 DEF ReleaseInv, TypeOK, Started
<1>3. TypeOK'
  BY <1>1, <1>2 DEF ReleaseInv, TypeOK, Goto
<1>4. DeferralHasHeir'
  BY <1>1, <1>2 DEF ReleaseInv, DeferralHasHeir, TypeOK
<1>5. pc'[t] = where /\ \A q \in Procs \ {t} : pc'[q] = pc[q]
  BY <1>1 DEF ReleaseInv, TypeOK, Goto
<1>6. Moves(t)
  BY <1>1, <1>5 DEF Moves, BeginsLoop, Flying
<1>7. KeepsBooks(t)
  BY DEF KeepsBooks
<1>. QED  BY <1>3, <1>4, <1>6, <1>7 DEF StepOf

\* A Claude turn evicts, or drains the evictions, on a count of zero.
LEMMA EvictionStep ==
    ASSUME ReleaseInv, NEW t \in Procs, SideOf(t) = "claude",
           NEW phase \in {"evicting", "draining"}, NEW tiers \in SUBSET Tiers,
           pc[t] \notin Flying, inflight["claude"] = 0, Unload(t, tiers, phase),
           UNCHANGED <<tripped, claims, inflight, deferred>>,
           evictions' \in SUBSET {Narrow}, job' \in [Procs -> Jobs]
    PROVE  StepOf(t)
<1>1. PICK order \in SetToSeqs(tiers) :
          rest' = [rest EXCEPT ![t] = order] /\ Goto(t, phase)
  BY DEF Unload
<1>2. UNCHANGED struck
  BY DEF Unload
<1>3. /\ phase \in Places /\ phase \in LoopPlaces(t)
      /\ phase \notin Flying \union {"handing", "releasing"}
  BY DEF Places, LoopPlaces, Flying
<1>4. /\ pc' \in [Procs -> Places] /\ pc'[t] = phase
      /\ rest' \in [Procs -> Seq(Tiers)]
      /\ \A q \in Procs \ {t} : pc'[q] = pc[q] /\ rest'[q] = rest[q]
  BY <1>1, <1>3, UnloadFacts DEF ReleaseInv
<1>5. TypeOK' /\ DeferralHasHeir'
  BY <1>2, <1>4 DEF ReleaseInv, TypeOK, DeferralHasHeir
<1>6. Moves(t)
  BY <1>3, <1>4 DEF Moves
<1>7. KeepsBooks(t)
  BY DEF KeepsBooks
<1>. QED  BY <1>5, <1>6, <1>7 DEF StepOf

\* The end of a Claude response: counted down, and what waited for it is released,
\* drained or, under an open breaker, dropped.
LEMMA TurnEndsStep ==
    ASSUME ReleaseInv, NEW t \in Turns, TurnEnds(t)
    PROVE  StepOf(t)
<1>. DEFINE n == Less(inflight["claude"])
            due == IF n > 0 THEN {} ELSE deferred["claude"]
<1>1. /\ t \in Procs /\ SideOf(t) = "claude" /\ Sides = {"claude", "codex"}
      /\ pc[t] \in Flying /\ "releasing" \in LoopPlaces(t) /\ "draining" \in LoopPlaces(t)
      /\ {"releasing", "draining"} \subseteq Places
      /\ {"releasing", "draining", "idle"} \intersect Flying = {}
  BY SideFacts DEF TurnEnds, Procs, Sides, LoopPlaces, Places, Flying
<1>2. /\ n \in Nat /\ due \in SUBSET Tiers
      /\ inflight' = [inflight EXCEPT !["claude"] = Less(@)]
      /\ inflight' \in [Sides -> Nat] /\ inflight'["claude"] = n
      /\ deferred' = [deferred EXCEPT !["claude"] = @ \ due]
      /\ deferred' \in [Sides -> SUBSET Tiers]
      /\ UNCHANGED <<tripped, claims>>
  BY <1>1 DEF TurnEnds, ReleaseInv, TypeOK, Less
<1>3. DeferralHasHeir'
  BY <1>1, <1>2 DEF DeferralHasHeir, ReleaseInv, TypeOK
<1>4. CASE Done(t) /\ evictions' \in SUBSET {Narrow} /\ (due = {} \/ tripped["claude"])
  <2>1. TypeOK'
    BY <1>1, <1>2, <1>4, DoneFacts DEF ReleaseInv, TypeOK
  <2>2. Moves(t)
    BY <1>1, <1>2, <1>4, DoneFacts DEF ReleaseInv, Moves, BeginsLoop
  <2>3. KeepsBooks(t)
    BY <1>1, <1>2, <1>4 DEF ReleaseInv, TypeOK, KeepsBooks
  <2>. QED  BY <1>3, <2>1, <2>2, <2>3 DEF StepOf
<1>5. ASSUME NEW tiers \in SUBSET Tiers, NEW phase \in {"releasing", "draining"},
             Unload(t, tiers, phase), UNCHANGED job, tiers # {}, n = 0,
             evictions' \in SUBSET {Narrow},
             due = {} \/ tripped["claude"] \/ tiers = due
      PROVE  StepOf(t)
  <2>1. PICK order \in SetToSeqs(tiers) :
            rest' = [rest EXCEPT ![t] = order] /\ Goto(t, phase)
    BY <1>5 DEF Unload
  <2>2. UNCHANGED struck
    BY <1>5 DEF Unload
  <2>3. /\ pc' \in [Procs -> Places] /\ pc'[t] = phase
        /\ rest' \in [Procs -> Seq(Tiers)] /\ rest'[t] # <<>> /\ Range(rest'[t]) = tiers
        /\ \A q \in Procs \ {t} : pc'[q] = pc[q] /\ rest'[q] = rest[q]
    BY <1>1, <1>5, <2>1, UnloadFacts DEF ReleaseInv
  <2>4. TypeOK'
    BY <1>2, <1>5, <2>2, <2>3 DEF ReleaseInv, TypeOK
  <2>5. Moves(t)
    BY <1>1, <1>2, <1>5, <2>3 DEF Moves
  <2>6. KeepsBooks(t)
    BY <1>1, <1>2, <1>5, <2>3 DEF ReleaseInv, TypeOK, KeepsBooks
  <2>. QED  BY <1>3, <2>4, <2>5, <2>6 DEF StepOf
<1>6. CASE due # {} /\ ~tripped["claude"]
  <2>1. Unload(t, due, "releasing") /\ UNCHANGED <<job, evictions>>
    BY <1>6 DEF TurnEnds, Begin
  <2>2. n = 0 /\ evictions' \in SUBSET {Narrow}
    BY <1>2, <1>6, <2>1 DEF ReleaseInv, TypeOK
  <2>. HIDE DEF due
  <2>. QED  BY <1>2, <1>5, <1>6, <2>1, <2>2
<1>7. CASE ~(due # {} /\ ~tripped["claude"])
  <2>. DEFINE old == evictions
  <2>1. \/ Done(t) /\ UNCHANGED evictions
        \/ /\ n = 0 /\ old # {} /\ Unload(t, old, "draining") /\ UNCHANGED job
           /\ evictions' = {}
    BY <1>2, <1>7 DEF TurnEnds, DrainEvictions, Begin
  <2>2. old \in SUBSET Tiers /\ old \in SUBSET {Narrow}
    BY DEF ReleaseInv, TypeOK, Tiers
  <2>3. due = {} \/ tripped["claude"]
    BY <1>7
  <2>4. UNCHANGED evictions => evictions' \in SUBSET {Narrow}
    BY <2>2
  <2>. HIDE DEF old, due
  <2>. QED  BY <1>4, <1>5, <2>1, <2>2, <2>3, <2>4
<1>. QED  BY <1>6, <1>7

\* The end of a local Codex turn: counted down, and what waited for it is released
\* unless the breaker is open again.
LEMMA CodexEndsStep ==
    ASSUME ReleaseInv, NEW t \in Turns, CodexEnds(t)
    PROVE  StepOf(t)
<1>. DEFINE n == Less(inflight["codex"])
            due == IF n > 0 \/ tripped["codex"] THEN {} ELSE deferred["codex"]
<1>1. /\ t \in Procs /\ SideOf(t) = "codex" /\ Sides = {"claude", "codex"}
      /\ pc[t] \in Flying /\ "releasing" \in LoopPlaces(t) /\ "releasing" \in Places
      /\ {"releasing", "idle"} \intersect Flying = {}
  BY SideFacts DEF CodexEnds, Procs, Sides, LoopPlaces, Places, Flying
<1>2. /\ n \in Nat /\ due \in SUBSET Tiers
      /\ inflight' = [inflight EXCEPT !["codex"] = Less(@)]
      /\ inflight' \in [Sides -> Nat] /\ inflight'["codex"] = n
      /\ inflight'["claude"] = inflight["claude"]
      /\ deferred' = [deferred EXCEPT !["codex"] = @ \ due]
      /\ deferred' \in [Sides -> SUBSET Tiers]
      /\ UNCHANGED <<tripped, claims, evictions>>
  BY <1>1 DEF CodexEnds, ReleaseInv, TypeOK, Less
<1>3. DeferralHasHeir'
  BY <1>1, <1>2 DEF DeferralHasHeir, ReleaseInv, TypeOK
<1>4. CASE due = {} /\ Done(t)
  <2>1. TypeOK'
    BY <1>1, <1>2, <1>4, DoneFacts DEF ReleaseInv, TypeOK
  <2>2. Moves(t)
    BY <1>1, <1>2, <1>4, DoneFacts DEF ReleaseInv, Moves, BeginsLoop
  <2>3. KeepsBooks(t)
    BY <1>1, <1>2, <1>4 DEF ReleaseInv, TypeOK, KeepsBooks
  <2>. QED  BY <1>3, <2>1, <2>2, <2>3 DEF StepOf
<1>5. CASE due # {} /\ Unload(t, due, "releasing") /\ UNCHANGED job
  <2>1. PICK order \in SetToSeqs(due) :
            rest' = [rest EXCEPT ![t] = order] /\ Goto(t, "releasing")
    BY <1>5 DEF Unload
  <2>2. UNCHANGED struck /\ n = 0
    BY <1>2, <1>5 DEF Unload
  <2>3. /\ pc' \in [Procs -> Places] /\ pc'[t] = "releasing"
        /\ rest' \in [Procs -> Seq(Tiers)] /\ rest'[t] # <<>> /\ Range(rest'[t]) = due
        /\ \A q \in Procs \ {t} : pc'[q] = pc[q] /\ rest'[q] = rest[q]
    <3>. HIDE DEF due
    <3>. QED  BY <1>1, <1>2, <1>5, <2>1, UnloadFacts DEF ReleaseInv
  <2>4. TypeOK'
    BY <1>2, <1>5, <2>2, <2>3 DEF ReleaseInv, TypeOK
  <2>5. Moves(t)
    BY <1>1, <1>2, <2>2, <2>3 DEF Moves
  <2>6. KeepsBooks(t)
    BY <1>1, <1>2, <2>3 DEF ReleaseInv, TypeOK, KeepsBooks
  <2>. QED  BY <1>3, <2>4, <2>5, <2>6 DEF StepOf
<1>. QED  BY <1>4, <1>5 DEF CodexEnds, Begin

\* A loop under way goes on, and where it ends no other is begun under a response.
LEMMA LoopStep ==
    ASSUME ReleaseInv, NEW p \in Procs,
           OllamaUnloads(p) \/ UnloadNext(p) \/ UnloadLast(p) \/ CutShort(p)
    PROVE  StepOf(p)
<1>1. /\ rest[p] \in Seq(Tiers) /\ rest[p] # <<>> /\ pc[p] \in LoopPlaces(p)
      /\ SideOf(p) \in Sides
  <2>1. rest[p] \in Seq(Tiers) /\ rest[p] # <<>>
    <3>1. rest[p] \in Seq(Tiers)
      BY DEF ReleaseInv, TypeOK
    <3>2. Len(rest[p]) > 1 \/ Len(rest[p]) = 1 \/ rest[p] # <<>>
      BY Zenon DEF OllamaUnloads, UnloadNext, UnloadLast, CutShort
    <3>. QED  BY <3>1, <3>2
  <2>. QED  BY <2>1 DEF ReleaseInv, LoopPlaced, SideOf, Sides
<1>2. pc[p] \notin Flying
  BY <1>1 DEF LoopPlaces, Flying
<1>3. CASE OllamaUnloads(p)
  <2>1. {<<SideOf(p), SideOf(t)>> : t \in
            {u \in Turns : pc[u] = "serving" /\ job[u].tier = Head(rest[p])}}
            \subseteq Sides \X Sides
    BY DEF SideOf, Sides
  <2>2. struck' \in SUBSET (Sides \X Sides)
    BY <1>3, <2>1 DEF OllamaUnloads, ReleaseInv, TypeOK
  <2>3. TypeOK' /\ DeferralHasHeir'
    BY <1>3, <2>2 DEF OllamaUnloads, books, ReleaseInv, TypeOK, DeferralHasHeir
  <2>4. Moves(p) /\ KeepsBooks(p)
    BY <1>1, <1>3 DEF OllamaUnloads, books, Moves, KeepsBooks, BeginsLoop
  <2>. QED  BY <2>3, <2>4 DEF StepOf
<1>4. CASE UnloadNext(p)
  <2>1. TypeOK' /\ DeferralHasHeir'
    BY <1>1, <1>4 DEF UnloadNext, books, ReleaseInv, TypeOK, DeferralHasHeir
  <2>2. \A q \in Procs \ {p} : rest'[q] = rest[q]
    BY <1>4 DEF UnloadNext, ReleaseInv, TypeOK
  <2>3. Moves(p) /\ KeepsBooks(p)
    BY <1>1, <1>4, <2>2 DEF UnloadNext, books, Moves, KeepsBooks, BeginsLoop
  <2>. QED  BY <2>1, <2>3 DEF StepOf
<1>5. CASE CutShort(p)
  BY <1>2, <1>5, DoneStep DEF CutShort, books, ReleaseInv, TypeOK
<1>6. CASE UnloadLast(p)
  <2>1. /\ UNCHANGED <<tripped, claims, inflight, deferred>>
        /\ evictions \in SUBSET {Narrow} /\ evictions \in SUBSET Tiers
        /\ tripped \in [Sides -> BOOLEAN] /\ job \in [Procs -> Jobs]
    BY <1>6 DEF UnloadLast, ReleaseInv, TypeOK, Tiers
  <2>2. CASE Done(p) /\ UNCHANGED evictions
    BY <1>2, <2>1, <2>2, DoneStep
  <2>3. CASE /\ pc[p] = "evicting" /\ Goto(p, "preparing")
             /\ rest' = [rest EXCEPT ![p] = <<>>] /\ UNCHANGED <<struck, evictions, job>>
    <3>1. "preparing" \in Places \ (Flying \union {"handing", "releasing"})
      BY DEF Places, Flying
    <3>2. /\ pc' \in [Procs -> Places] /\ pc'[p] = "preparing"
          /\ rest' \in [Procs -> Seq(Tiers)] /\ rest'[p] = <<>>
          /\ \A q \in Procs \ {p} : pc'[q] = pc[q] /\ rest'[q] = rest[q]
      BY <2>3, <3>1 DEF Goto, ReleaseInv, TypeOK
    <3>3. TypeOK' /\ DeferralHasHeir'
      BY <2>1, <2>3, <3>2 DEF ReleaseInv, TypeOK, DeferralHasHeir
    <3>4. Moves(p) /\ KeepsBooks(p)
      BY <1>2, <2>1, <3>1, <3>2 DEF Moves, KeepsBooks, BeginsLoop
    <3>. QED  BY <3>3, <3>4 DEF StepOf
  <2>4. CASE p \in ClaudeTurns /\ DrainEvictions(p, inflight["claude"])
    <3>. DEFINE old == evictions
    <3>1. \/ Done(p) /\ UNCHANGED evictions
          \/ /\ ~(inflight["claude"] > 0) /\ Unload(p, old, "draining") /\ UNCHANGED job
             /\ evictions' = {}
      BY <2>4 DEF DrainEvictions, Begin
    <3>2. old \in SUBSET Tiers /\ SideOf(p) = "claude" /\ inflight["claude"] \in Nat
      BY <2>1, <2>4, SideFacts DEF ReleaseInv, TypeOK, Sides
    <3>3. evictions' \in SUBSET {Narrow} /\ (UNCHANGED job => job' \in [Procs -> Jobs])
      BY <2>1, <3>1
    <3>. HIDE DEF old
    <3>. QED  BY <1>2, <2>1, <2>2, <3>1, <3>2, <3>3, EvictionStep
  <2>. QED  BY <1>6, <2>2, <2>3, <2>4 DEF UnloadLast
<1>. QED  BY <1>3, <1>4, <1>5, <1>6

\* A coroutine that is nowhere a loop can be has no unload under way.
LEMMA NoLoop ==
    ASSUME ReleaseInv, NEW p \in Procs,
           pc[p] \notin {"evicting", "releasing", "draining", "handing"}
    PROVE  rest[p] = <<>>
BY DEF ReleaseInv, LoopPlaced, LoopPlaces

\* Every step of a Claude turn.
LEMMA ClaudeStep ==
    ASSUME ReleaseInv, NEW t \in ClaudeTurns,
           \/ UpstreamAnswers(t) \/ RecordsSuccess(t)
           \/ FailsOver(t) \/ Routes(t) \/ Escalates(t)
           \/ Dispatches(t) \/ StreamStarts(t) \/ TurnVanishes(t) \/ TurnEnds(t)
    PROVE  StepOf(t)
<1>1. /\ t \in Turns /\ t \in Procs /\ SideOf(t) = "claude"
      /\ "claude" \in Sides
  BY SideFacts DEF Turns, Procs, Sides
<1>2. TypeOK
  BY DEF ReleaseInv
<1>3. CASE UpstreamAnswers(t)
  BY <1>1, <1>2, <1>3, NoLoop, WalkStep DEF UpstreamAnswers, books, TypeOK, Places, Flying
<1>4. CASE RecordsSuccess(t)
  <2>1. tripped' \in [Sides -> BOOLEAN] /\ UNCHANGED <<inflight, evictions>> /\ pc[t] \notin Flying
    BY <1>1, <1>2, <1>4 DEF RecordsSuccess, TypeOK, Flying
  <2>. QED  BY <1>1, <1>2, <1>4, <2>1, DoneStep, ClaudeHandsBackStep DEF RecordsSuccess, TypeOK
<1>5. CASE FailsOver(t)
  <2>1. tripped' \in [Sides -> BOOLEAN] /\ job' \in [Procs -> Jobs]
    BY <1>1, <1>2, <1>5 DEF FailsOver, TypeOK, Jobs
  <2>. QED  BY <1>1, <1>2, <1>5, <2>1, NoLoop, WalkStep DEF FailsOver, TypeOK, Places, Flying
<1>6. CASE Routes(t)
  <2>1. job' \in [Procs -> Jobs]
    BY <1>1, <1>2, <1>6 DEF Routes, TypeOK, Jobs
  <2>. QED  BY <1>1, <1>2, <1>6, <2>1, NoLoop, WalkStep DEF Routes, books, TypeOK, Places, Flying
<1>7. CASE Escalates(t)
  <2>1. job' \in [Procs -> Jobs] /\ {Narrow} \in SUBSET Tiers /\ pc[t] = "preparing"
        /\ UNCHANGED <<tripped, claims, inflight, deferred>>
    <3>1. /\ pc[t] = "preparing" /\ UNCHANGED <<tripped, claims, inflight, deferred>>
          /\ job' = [job EXCEPT ![t].tier = Wide]
      BY <1>7 DEF Escalates
    <3>2. [job[t] EXCEPT !.tier = Wide] \in Jobs
      BY <1>1, <1>2 DEF TypeOK, Jobs, Tiers
    <3>3. job' \in [Procs -> Jobs]
      BY <1>2, <3>1, <3>2 DEF TypeOK
    <3>. QED  BY <3>1, <3>3 DEF Tiers
  <2>2. CASE /\ evictions' = evictions \union {Narrow}
             /\ UNCHANGED <<pc, rest, struck>>
    <3>1. Goto(t, "preparing") /\ evictions' \in SUBSET {Narrow}
      BY <1>1, <1>2, <2>1, <2>2 DEF Goto, TypeOK
    <3>. QED  BY <1>1, <1>2, <2>1, <2>2, <3>1, NoLoop, WalkStep DEF TypeOK, Places, Flying
  <2>3. CASE inflight["claude"] = 0 /\ Unload(t, {Narrow}, "evicting") /\ UNCHANGED evictions
    BY <1>1, <1>2, <2>1, <2>3, EvictionStep DEF TypeOK, Flying
  <2>. QED  BY <1>7, <2>2, <2>3 DEF Escalates
<1>8. CASE Dispatches(t)
  <2>1. /\ claims' \in [Sides -> SUBSET Tiers]
        /\ \A s \in Sides : claims[s] \subseteq claims'[s]
    <3>1. job[t].tier \in Tiers
      BY <1>1, <1>2 DEF TypeOK, Jobs
    <3>2. \/ claims' = [claims EXCEPT !["claude"] = @ \union {job[t].tier}]
          \/ UNCHANGED claims
      BY <1>8 DEF Dispatches, Claim
    <3>3. claims \in [Sides -> SUBSET Tiers]
      BY <1>2 DEF TypeOK
    <3>. QED  BY <1>1, <3>1, <3>2, <3>3
  <2>2. CASE Goto(t, "committed") /\ UNCHANGED inflight
    BY <1>1, <1>2, <1>8, <2>1, <2>2, NoLoop, WalkStep DEF Dispatches, TypeOK, Places, Flying
  <2>3. CASE Goto(t, "serving") /\ Started("claude")
    BY <1>1, <1>2, <1>8, <2>1, <2>3, NoLoop, TakeOffStep DEF Dispatches, Flying
  <2>. QED  BY <1>8, <2>2, <2>3 DEF Dispatches
<1>9. CASE StreamStarts(t)
  BY <1>1, <1>2, <1>9, NoLoop, TakeOffStep DEF StreamStarts, Flying, TypeOK
<1>10. CASE TurnVanishes(t)
  BY <1>1, <1>2, <1>10, DoneStep DEF TurnVanishes, books, Flying, TypeOK
<1>11. CASE TurnEnds(t)
  BY <1>1, <1>11, TurnEndsStep
<1>. QED  BY <1>3, <1>4, <1>5, <1>6, <1>7, <1>8, <1>9, <1>10, <1>11

\* Every step of a Codex turn.
LEMMA CodexStep ==
    ASSUME ReleaseInv, NEW t \in CodexTurns,
           \/ CodexAnswers(t) \/ CodexBodyEnds(t) \/ CodexBodyDies(t)
           \/ CodexFailsOver(t) \/ ReservesSlot(t) \/ CodexServes(t) \/ CodexEnds(t)
    PROVE  StepOf(t)
<1>1. /\ t \in Turns /\ t \in Procs /\ SideOf(t) = "codex"
      /\ Sides = {"claude", "codex"}
  BY SideFacts DEF Turns, Procs, Sides
<1>2. TypeOK
  BY DEF ReleaseInv
<1>3. CASE CodexAnswers(t)
  <2>1. \/ Goto(t, "relaying")
        \/ Goto(t, "idle")
    BY <1>1, <1>2, <1>3 DEF CodexAnswers, Goto, TypeOK
  <2>2. tripped' \in [Sides -> BOOLEAN]
    BY <1>1, <1>2, <1>3 DEF CodexAnswers, TypeOK
  <2>. QED  BY <1>1, <1>2, <1>3, <2>1, <2>2, NoLoop, WalkStep
            DEF CodexAnswers, TypeOK, Places, Flying
<1>4. CASE CodexBodyEnds(t)
  BY <1>1, <1>2, <1>4, DoneStep, CodexHandsBackStep DEF CodexBodyEnds, TypeOK, Flying
<1>5. CASE CodexBodyDies(t)
  <2>1. tripped' \in [Sides -> BOOLEAN]
    BY <1>1, <1>2, <1>5 DEF CodexBodyDies, TypeOK
  <2>. QED  BY <1>1, <1>2, <1>5, <2>1, DoneStep DEF CodexBodyDies, TypeOK, Flying
<1>6. CASE CodexFailsOver(t)
  <2>1. tripped' \in [Sides -> BOOLEAN]
    BY <1>1, <1>2, <1>6 DEF CodexFailsOver, TypeOK
  <2>. QED  BY <1>1, <1>2, <1>6, <2>1, NoLoop, WalkStep
            DEF CodexFailsOver, TypeOK, Places, Flying
<1>7. CASE ReservesSlot(t)
  BY <1>1, <1>2, <1>7, NoLoop, TakeOffStep DEF ReservesSlot, Flying, TypeOK
<1>8. CASE CodexServes(t)
  <2>1. /\ claims' \in [Sides -> SUBSET Tiers] /\ deferred' \in [Sides -> SUBSET Tiers]
        /\ deferred'["claude"] = deferred["claude"]
        /\ \A s \in Sides :
              claims[s] \union deferred[s] \subseteq claims'[s] \union deferred'[s]
    BY <1>1, <1>2, <1>8 DEF CodexServes, Claim, TypeOK
  <2>. QED  BY <1>1, <1>2, <1>8, <2>1, NoLoop, WalkStep DEF CodexServes, TypeOK, Places, Flying
<1>9. CASE CodexEnds(t)
  BY <1>1, <1>9, CodexEndsStep
<1>. QED  BY <1>3, <1>4, <1>5, <1>6, <1>7, <1>8, <1>9

\* Every step of the ticker's work for a breaker.
LEMMA TickerStep ==
    ASSUME ReleaseInv, NEW s \in Sides,
           TickerProbes(s) \/ TickerCloses(s) \/ TickerReleases(s)
    PROVE  StepOf(s)
<1>1. s \in Procs /\ Sides = {"claude", "codex"} /\ TypeOK
  BY DEF Procs, Sides, ReleaseInv
<1>2. CASE TickerProbes(s)
  BY <1>1, <1>2, NoLoop, WalkStep DEF TickerProbes, books, TypeOK, Places, Flying
<1>3. CASE TickerCloses(s)
  <2>1. Goto(s, "owed") \/ Goto(s, "idle")
    BY <1>3 DEF TickerCloses
  <2>2. tripped' \in [Sides -> BOOLEAN]
    BY <1>1, <1>3 DEF TickerCloses, TypeOK
  <2>. QED  BY <1>1, <1>3, <2>1, <2>2, NoLoop, WalkStep
            DEF TickerCloses, TypeOK, Places, Flying
<1>4. CASE TickerReleases(s)
  BY <1>1, <1>4, ClaudeHandsBackStep, CodexHandsBackStep DEF TickerReleases, TypeOK, Flying
<1>. QED  BY <1>2, <1>3, <1>4

\* Every step moves one coroutine, and no more than it may.
LEMMA EveryStep ==
    ASSUME ReleaseInv, Next
    PROVE  \E p \in Procs : StepOf(p)
<1>1. CASE \E t \in ClaudeTurns :
             \/ UpstreamAnswers(t) \/ RecordsSuccess(t)
             \/ FailsOver(t) \/ Routes(t) \/ Escalates(t)
             \/ Dispatches(t) \/ StreamStarts(t) \/ TurnVanishes(t) \/ TurnEnds(t)
  BY <1>1, ClaudeStep DEF Procs, Turns
<1>2. CASE \E t \in CodexTurns :
             \/ CodexAnswers(t) \/ CodexBodyEnds(t) \/ CodexBodyDies(t)
             \/ CodexFailsOver(t) \/ ReservesSlot(t) \/ CodexServes(t) \/ CodexEnds(t)
  BY <1>2, CodexStep DEF Procs, Turns
<1>3. CASE \E s \in Sides : TickerProbes(s) \/ TickerCloses(s) \/ TickerReleases(s)
  BY <1>3, TickerStep DEF Procs
<1>4. CASE \/ \E p \in Procs : UnloadNext(p) \/ UnloadLast(p) \/ OllamaUnloads(p)
           \/ \E t \in Turns : CutShort(t)
  BY <1>4, LoopStep DEF Procs
<1>. QED  BY <1>1, <1>2, <1>3, <1>4 DEF Next

-----------------------------------------------------------------------------
(* The invariant *)

\* Nothing is in flight, claimed or deferred when the router starts.
LEMMA ReleaseInit == Init => ReleaseInv
<1>. SUFFICES ASSUME Init PROVE ReleaseInv
  OBVIOUS
<1>1. NoJob \in Jobs /\ "idle" \in Places /\ <<>> \in Seq(Tiers)
  BY DEF NoJob, Jobs, Places
<1>2. TypeOK
  BY <1>1 DEF Init, TypeOK
<1>3. LoopPlaced
  BY DEF Init, LoopPlaced
<1>4. \A s \in Sides : InFlight(s) = {}
  BY DEF Init, InFlight, Procs
<1>5. CountsExact
  BY <1>4, FS_EmptySet DEF Init, CountsExact
<1>6. LockExcludes
  BY DEF Init, LockExcludes, Flying, Procs, Turns
<1>7. DeferralHasHeir
  BY DEF Init, DeferralHasHeir, Sides
<1>. QED  BY <1>2, <1>3, <1>5, <1>6, <1>7 DEF ReleaseInv

\* The exact count is what keeps Codex slots away from a lock taken for unloads.
LEMMA LockStep ==
    ASSUME ReleaseInv, NEW p \in Procs, Moves(p), CountsExact'
    PROVE  LockExcludes'
<1>. SUFFICES ASSUME NEW q \in CodexTurns \union {"codex"}, pc'[q] \in {"handing", "releasing"},
                     NEW t \in CodexTurns, pc'[t] \in Flying
              PROVE  FALSE
  BY DEF LockExcludes, CodexStateLocked, Flying
<1>1. /\ q \in Procs /\ t \in Turns /\ t \in Procs /\ "codex" \in Sides
      /\ SideOf(q) = "codex" /\ SideOf(t) = "codex"
  BY SideFacts DEF Procs, Turns, Sides
<1>2. CASE pc'[q] = pc[q]
  <2>1. CodexStateLocked
    BY <1>2 DEF CodexStateLocked
  <2>2. pc[t] \notin Flying
    BY <2>1 DEF ReleaseInv, LockExcludes
  <2>3. t = p
    BY <1>1, <2>2 DEF Moves
  <2>. QED  BY <1>1, <2>1, <2>2, <2>3 DEF Moves
<1>3. CASE pc'[q] # pc[q]
  <2>1. p = q
    BY <1>1, <1>3 DEF Moves
  <2>2. inflight'["codex"] = 0
    BY <1>1, <1>3, <2>1 DEF Moves, BeginsLoop
  <2>. QED  BY <1>1, <2>2, ZeroIsIdle
<1>. QED  BY <1>2, <1>3

\* The invariant is inductive.
LEMMA ReleaseStep == ReleaseInv /\ [Next]_vars => ReleaseInv'
<1>. SUFFICES ASSUME ReleaseInv, [Next]_vars PROVE ReleaseInv'
  OBVIOUS
<1>1. CASE Next
  <2>1. PICK p \in Procs : StepOf(p)
    BY <1>1, EveryStep
  <2>2. CountsExact'
    BY <2>1, CountStep DEF StepOf, ReleaseInv
  <2>3. LoopPlaced'
    BY <2>1 DEF StepOf, Moves, LoopPlaced, ReleaseInv
  <2>4. LockExcludes'
    BY <2>1, <2>2, LockStep DEF StepOf
  <2>. QED  BY <2>1, <2>2, <2>3, <2>4 DEF StepOf, ReleaseInv
<1>2. CASE UNCHANGED vars
  BY <1>2 DEF vars, ReleaseInv, TypeOK, LoopPlaced, CountsExact, InFlight,
              LockExcludes, CodexStateLocked, Flying, DeferralHasHeir
<1>. QED  BY <1>1, <1>2

\* The invariant holds throughout.
THEOREM ReleaseCorrect == Spec => []ReleaseInv
<1>. QED  BY ReleaseInit, ReleaseStep, PTL DEF Spec

-----------------------------------------------------------------------------
(* What the two paths promise *)

\* _local_inflight and its Codex counterpart count what is being served, through
\* every exit and whatever the turns: completions, streams cut off or never
\* started, slots reserved and never served.
THEOREM CountsAreExact == Spec => []CountsExact
<1>. QED  BY ReleaseCorrect, PTL DEF ReleaseInv

\* What a Claude release put off has a response in flight whose end delivers it.
THEOREM DeferralsHaveHeirs == Spec => []DeferralHasHeir
<1>. QED  BY ReleaseCorrect, PTL DEF ReleaseInv

\* Nothing but an unload that Ollama carries out can strike a tier in use.
LEMMA OnlyUnloadsStrike ==
    ASSUME Next, struck' # struck
    PROVE  \E p \in Procs : OllamaUnloads(p)
<1>1. ASSUME NEW p, Done(p) \/ ClaudeHandsBack(p) \/ CodexHandsBack(p) PROVE UNCHANGED struck
  BY <1>1 DEF ClaudeHandsBack, CodexHandsBack, Begin, Unload, Done
<1>2. ASSUME NEW p, NEW n, DrainEvictions(p, n) PROVE UNCHANGED struck
  BY <1>2 DEF DrainEvictions, Begin, Unload, Done
<1>3. ASSUME NEW t \in ClaudeTurns,
             \/ UpstreamAnswers(t) \/ RecordsSuccess(t)
             \/ FailsOver(t) \/ Routes(t) \/ Escalates(t)
             \/ Dispatches(t) \/ StreamStarts(t) \/ TurnVanishes(t) \/ TurnEnds(t)
      PROVE  UNCHANGED struck
  BY <1>1, <1>2, <1>3 DEF UpstreamAnswers, RecordsSuccess, FailsOver, Routes, Escalates,
         Dispatches, StreamStarts, TurnVanishes, TurnEnds, Begin, Unload
<1>4. ASSUME NEW t \in CodexTurns,
             \/ CodexAnswers(t) \/ CodexBodyEnds(t) \/ CodexBodyDies(t)
             \/ CodexFailsOver(t) \/ ReservesSlot(t) \/ CodexServes(t) \/ CodexEnds(t)
      PROVE  UNCHANGED struck
  BY <1>1, <1>4 DEF CodexAnswers, CodexBodyEnds, CodexBodyDies, CodexFailsOver,
         ReservesSlot, CodexServes, CodexEnds, Begin, Unload
<1>5. ASSUME NEW s \in Sides, TickerProbes(s) \/ TickerCloses(s) \/ TickerReleases(s)
      PROVE  UNCHANGED struck
  BY <1>1, <1>5 DEF TickerProbes, TickerCloses, TickerReleases
<1>6. ASSUME NEW p, UnloadNext(p) \/ UnloadLast(p) \/ CutShort(p)
      PROVE  UNCHANGED struck
  BY <1>1, <1>2, <1>6 DEF UnloadNext, UnloadLast, CutShort
<1>. QED  BY <1>3, <1>4, <1>5, <1>6 DEF Next

\* No unload of the Codex path hits a Codex turn in flight: whoever runs one holds
\* the state lock under which slots are reserved.
THEOREM CodexIsSpared == Spec => []CodexSparesCodex
<1>1. Init => CodexSparesCodex
  BY DEF Init, CodexSparesCodex
<1>2. ReleaseInv /\ CodexSparesCodex /\ [Next]_vars => CodexSparesCodex'
  <2>. SUFFICES ASSUME ReleaseInv, CodexSparesCodex, [Next]_vars,
                       <<"codex", "codex">> \in struck'
                PROVE  FALSE
    BY DEF CodexSparesCodex
  <2>1. PICK p \in Procs : OllamaUnloads(p)
    <3>1. struck' # struck
      BY DEF CodexSparesCodex
    <3>. QED  BY <3>1, OnlyUnloadsStrike DEF vars
  <2>2. PICK u \in Turns : pc[u] = "serving" /\ SideOf(u) = "codex" /\ SideOf(p) = "codex"
    BY <2>1 DEF OllamaUnloads, CodexSparesCodex
  <2>3. p \in CodexTurns \union {"codex"} /\ u \in CodexTurns
    BY <2>2 DEF SideOf, Procs, Turns, Sides
  <2>4. pc[p] \in {"releasing", "handing"}
    BY <2>1, <2>2 DEF OllamaUnloads, ReleaseInv, LoopPlaced, LoopPlaces
  <2>. QED  BY <2>2, <2>3, <2>4 DEF ReleaseInv, LockExcludes, CodexStateLocked, Flying
<1>. QED  BY <1>1, <1>2, ReleaseCorrect, PTL DEF Spec

\* A loop of unloads is begun under no response of its own path.
THEOREM LoopsBeginIdle == Spec => LoopsStartIdle
<1>1. ReleaseInv /\ [Next]_vars =>
          [\A p \in Procs : BeginsLoop(p) =>
              \A t \in Turns \ {p} :
                  SideOf(t) = SideOf(p) => pc[t] \notin {"reserved", "serving"}]_vars
  <2>. SUFFICES ASSUME ReleaseInv, Next, NEW p \in Procs, BeginsLoop(p),
                       NEW t \in Turns \ {p}, SideOf(t) = SideOf(p), pc[t] \in Flying
                PROVE  FALSE
    BY DEF Flying
  <2>1. PICK q \in Procs : StepOf(q)
    BY EveryStep
  <2>2. q = p
    BY <2>1 DEF StepOf, Moves, BeginsLoop
  <2>3. inflight'[SideOf(p)] = 0 /\ pc'[t] = pc[t] /\ SideOf(p) \in Sides
    BY <2>1, <2>2 DEF StepOf, Moves, Procs, SideOf, Sides
  <2>4. CountsExact'
    BY <2>1, CountStep DEF StepOf, ReleaseInv
  <2>. QED  BY <2>3, <2>4, ZeroIsIdle DEF Flying
<1>. QED  BY <1>1, ReleaseCorrect, PTL DEF Spec, LoopsStartIdle

\* What leaves a side's books was in a loop of it, unless the step forgets.
LEMMA BooksStep ==
    ASSUME ReleaseInv, Next, NEW s \in Sides, NEW m \in Tiers, LeavesBooks(s, m)
    PROVE  Released(m) \/ (s = "claude" /\ tripped["claude"])
<1>. SUFFICES ASSUME ~Released(m), ~(s = "claude" /\ tripped["claude"])
              PROVE  FALSE
  OBVIOUS
<1>1. m \in claims[s] \union deferred[s]
  BY DEF LeavesBooks, Books, Released
<1>2. PICK p \in Procs : StepOf(p)
  BY EveryStep
<1>3. m \in claims'[s] \union deferred'[s] \/ (SideOf(p) = s /\ m \in Range(rest'[p]))
  BY <1>1, <1>2 DEF StepOf, KeepsBooks
<1>. QED  BY <1>3 DEF LeavesBooks, Books

\* The Codex path forgets no claim: a tier leaves its books through an unload only.
THEOREM CodexForgetsNoClaim == Spec => CodexForgetsNothing
<1>1. ReleaseInv /\ [Next]_vars =>
          [\A m \in Tiers : LeavesBooks("codex", m) => Released(m)]_vars
  BY BooksStep DEF Sides
<1>. QED  BY <1>1, ReleaseCorrect, PTL DEF Spec, CodexForgetsNothing

\* The Claude path forgets a claim only when its release falls due under a breaker
\* that is open again.
THEOREM ClaudeForgetsReopenedOnly == Spec => ClaudeForgetsOnlyReopened
<1>1. ReleaseInv /\ [Next]_vars =>
          [\A m \in Tiers : LeavesBooks("claude", m) => Released(m) \/ tripped["claude"]]_vars
  BY BooksStep DEF Sides
<1>. QED  BY <1>1, ReleaseCorrect, PTL DEF Spec, ClaudeForgetsOnlyReopened
=============================================================================

---------------------------- MODULE ContextProofs ----------------------------
(***************************************************************************)
(* Proofs about what a local turn is given: the selection from a           *)
(* transcript (ContextWindow.tla), for any transcripts and limits; and the *)
(* request of a Codex turn (CodexPrompt.tla), for any budgets, and any     *)
(* requests in which calls have their outputs.  They share no state; each  *)
(* has its own section, with its own invariant.                            *)
(*                                                                         *)
(* The facts about folds and about numbers are those of TranslateProofs.   *)
(***************************************************************************)
EXTENDS ContextWindow, CodexPrompt, TranslateProofs

-----------------------------------------------------------------------------
(* The selection of context.                                                  *)

Positions == DOMAIN segments
AllUnits == {Unit(i) : i \in Positions}

\* Every unit of a set of positions is in it whole.
Closed(s) == s \subseteq Positions /\ \A i \in s : Unit(i) \subseteq s

\* A unit the client can do without for this turn.
Spare(u) == u \in AllUnits /\ instruction \notin u /\ u \notin Active

WindowPhases == {"current", "active", "recent", "references", "trim",
                 "tail", "tail_active", "tail_recent", "done"}

\* The current instruction, and then every call since, has been taken.
Underway == phase \in {"active", "tail_active"}
Complete == phase \in {"recent", "references", "trim", "tail_recent"} \/ outcome = "fits"

WindowShaped ==
    /\ segments \in Seq(Segments)
    /\ instruction \in Positions
    /\ phase \in WindowPhases
    /\ phase # "done" => outcome = "none"
    /\ Closed(selected)
    /\ phase \in {"active", "tail_active"} => units \subseteq Active
    /\ phase = "recent" => units \subseteq AllUnits
    /\ phase = "references" => units \subseteq {Unit(i) : i \in {j \in Positions : segments[j].reference}}
    /\ phase = "tail_recent" => units \subseteq {{i} : i \in Positions}

\* What is dropped to the target is spare.
SpareTaken ==
    /\ \A u \in recent : Spare(u)
    /\ phase = "recent" => \A u \in units : Spare(u)

MustTaken ==
    /\ Underway \/ Complete => instruction \in selected
    /\ Underway => \A u \in Active : u \subseteq selected \/ u \in units
    /\ Complete => \A u \in Active : u \subseteq selected

WithinLimit ==
    phase \in {"active", "recent", "references", "trim"} \/ outcome = "fits"
        => Cost(selected) <= HardTokens

FoundElsewhere ==
    /\ found \in Seq(SUBSET Positions)
    /\ \A k \in DOMAIN found : found[k] \intersect selected = {}
    /\ found # <<>> => phase \in {"trim", "done"} \/ (phase = "references" /\ units = {})

WindowInv == WindowShaped /\ SpareTaken /\ MustTaken /\ WithinLimit /\ FoundElsewhere

-----------------------------------------------------------------------------
\* Units are those of their members, and no two overlap.
LEMMA UnitsPart ==
    ASSUME NEW i \in Positions
    PROVE  /\ i \in Unit(i) /\ Unit(i) \subseteq Positions
           /\ \A j \in Unit(i) : Unit(j) = Unit(i)
BY DEF Unit, Positions

\* Where At gives every unit a number, one unit is first (and, up to a bound, one is last).
LEMMA OldestIsThere ==
    ASSUME NEW us, us # {}, NEW at \in [us -> Nat]
    PROVE  \E u \in us : \A v \in us : at[u] <= at[v]
<1>. DEFINE numbers == {at[u] : u \in us}
<1>1. numbers \in SUBSET Nat /\ numbers # {}
  OBVIOUS
<1>2. PICK d \in numbers : \A e \in numbers : d <= e
  <2>. HIDE DEF numbers
  <2>. QED  BY <1>1, LeastNumber
<1>. QED  BY <1>2

LEMMA NewestIsThere ==
    ASSUME NEW us, us # {}, NEW n \in Nat, NEW at \in [us -> 0..n]
    PROVE  \E u \in us : \A v \in us : at[v] <= at[u]
<1>. DEFINE below == [u \in us |-> n - at[u]]
<1>1. \A u \in us : at[u] \in 0..n
  OBVIOUS
<1>2. below \in [us -> Nat]
  BY <1>1
<1>3. PICK u \in us : \A v \in us : below[u] <= below[v]
  <2>. HIDE DEF below
  <2>. QED  BY <1>2, OldestIsThere
<1>4. ASSUME NEW v \in us PROVE at[v] <= at[u]
  BY <1>1, <1>3
<1>. QED  BY <1>4

LEMMA MinIsThere ==
    ASSUME NEW s \in SUBSET Nat, s # {}
    PROVE  Min(s) \in s /\ \A i \in s : Min(s) <= i
BY LeastNumber, Zenon DEF Min

LEMMA MaxIsThere ==
    ASSUME NEW n \in Nat, NEW s \in SUBSET (0..n), s # {}
    PROVE  Max(s) \in s /\ \A i \in s : i <= Max(s)
<1>1. [i \in s |-> i] \in [s -> 0..n]
  OBVIOUS
<1>2. PICK m \in s : \A i \in s : [j \in s |-> j][i] <= [j \in s |-> j][m]
  BY <1>1, NewestIsThere, Zenon
<1>3. \A i \in s : m >= i
  BY <1>2
<1>. QED  BY <1>3 DEF Max

LEMMA PositionsAreNumbers ==
    ASSUME WindowShaped
    PROVE  /\ Len(segments) \in Nat /\ Positions = 1..Len(segments)
           /\ Positions \subseteq 0..Len(segments) /\ IsFiniteSet(Positions)
<1>1. Len(segments) \in Nat /\ Positions = 1..Len(segments)
  BY DEF WindowShaped, Positions
<1>. QED  BY <1>1, FS_Interval

\* The unit to be looked at next is one of those still to be looked at.
LEMMA NextIsThere ==
    ASSUME WindowShaped, units # {}
    PROVE  /\ phase \in {"active", "tail_active"} => NextCall \in units
           /\ phase = "recent" => NextRecent \in units
           /\ phase = "references" => NextReference \in units
           /\ phase = "tail_recent" => NextSegment \in units
<1>. DEFINE n == Len(segments)
<1>1. n \in Nat /\ Positions \subseteq 0..n /\ Positions \subseteq Nat
  BY PositionsAreNumbers
<1>. HIDE DEF n
<1>2. ASSUME phase \in {"active", "tail_active"} PROVE NextCall \in units
  <2>1. ASSUME NEW u \in units PROVE Min(Since(u)) \in Nat
    <3>1. Since(u) # {} /\ Since(u) \in SUBSET Nat
      BY <1>1, <1>2, UnitsPart DEF WindowShaped, Active, Since, Positions
    <3>. QED  BY <3>1, MinIsThere
  <2>. DEFINE at == [u \in units |-> Min(Since(u))]
  <2>2. \E u \in units : \A v \in units : at[u] <= at[v]
    <3>1. at \in [units -> Nat]
      BY <2>1
    <3>. HIDE DEF at
    <3>. QED  BY <3>1, OldestIsThere
  <2>3. \E u \in units : \A v \in units : Min(Since(u)) <= Min(Since(v))
    BY <2>2, Zenon
  <2>. QED  BY <2>3, Zenon DEF NextCall, Oldest
<1>3. ASSUME phase = "recent" PROVE NextRecent \in units
  <2>1. ASSUME NEW u \in units PROVE Min(u) \in Nat
    <3>0. PICK i \in Positions : u = Unit(i)
      BY <1>3 DEF WindowShaped, AllUnits
    <3>1. u # {} /\ u \in SUBSET Nat
      BY <1>1, <3>0, UnitsPart
    <3>. QED  BY <3>1, MinIsThere
  <2>. DEFINE at == [u \in units |-> Min(u)]
  <2>2. \E u \in units : \A v \in units : at[u] <= at[v]
    <3>1. at \in [units -> Nat]
      BY <2>1
    <3>. HIDE DEF at
    <3>. QED  BY <3>1, OldestIsThere
  <2>3. \E u \in units : \A v \in units : Min(u) <= Min(v)
    BY <2>2, Zenon
  <2>. QED  BY <2>3, Zenon DEF NextRecent, Oldest
<1>4. ASSUME phase = "references" PROVE NextReference \in units
  <2>1. ASSUME NEW u \in units PROVE Max(Naming(u)) \in 0..n
    <3>1. Naming(u) # {} /\ Naming(u) \in SUBSET (0..n)
      BY <1>1, <1>4, UnitsPart DEF WindowShaped, Naming, Positions
    <3>. QED  BY <1>1, <3>1, MaxIsThere
  <2>. DEFINE at == [u \in units |-> Max(Naming(u))]
  <2>2. \E u \in units : \A v \in units : at[v] <= at[u]
    <3>1. at \in [units -> 0..n]
      BY <2>1
    <3>. HIDE DEF at
    <3>. QED  BY <1>1, <3>1, NewestIsThere
  <2>3. \E u \in units : \A v \in units : Max(Naming(v)) <= Max(Naming(u))
    BY <2>2, Zenon
  <2>. QED  BY <2>3, Zenon DEF NextReference, Newest
<1>5. ASSUME phase = "tail_recent" PROVE NextSegment \in units
  <2>1. ASSUME NEW u \in units PROVE Max(u) \in 0..n
    <3>1. u # {} /\ u \in SUBSET (0..n)
      BY <1>1, <1>5 DEF WindowShaped
    <3>. QED  BY <1>1, <3>1, MaxIsThere
  <2>. DEFINE at == [u \in units |-> Max(u)]
  <2>2. \E u \in units : \A v \in units : at[v] <= at[u]
    <3>1. at \in [units -> 0..n]
      BY <2>1
    <3>. HIDE DEF at
    <3>. QED  BY <1>1, <3>1, NewestIsThere
  <2>3. \E u \in units : \A v \in units : Max(v) <= Max(u)
    BY <2>2, Zenon
  <2>. QED  BY <2>3, Zenon DEF NextSegment, Newest
<1>. QED  BY <1>2, <1>3, <1>4, <1>5

\* The oldest of the recent units that were taken is one of them.
LEMMA OldestRecentIsThere ==
    ASSUME WindowShaped, recent # {}, recent \subseteq AllUnits
    PROVE  Oldest(recent, Min) \in recent
<1>1. ASSUME NEW u \in recent PROVE Min(u) \in Nat
  <2>1. u # {} /\ u \in SUBSET Nat
    BY PositionsAreNumbers, UnitsPart DEF AllUnits
  <2>. QED  BY <2>1, MinIsThere
<1>. DEFINE at == [u \in recent |-> Min(u)]
<1>2. \E u \in recent : \A v \in recent : at[u] <= at[v]
  <2>1. at \in [recent -> Nat]
    BY <1>1
  <2>. HIDE DEF at
  <2>. QED  BY <2>1, OldestIsThere
<1>3. \E u \in recent : \A v \in recent : Min(u) <= Min(v)
  BY <1>2, Zenon
<1>. QED  BY <1>3, Zenon DEF Oldest

\* Less costs no more.
LEMMA CostGrows ==
    ASSUME WindowShaped, NEW t, Closed(t), NEW s \in SUBSET t
    PROVE  Cost(s) \in Nat /\ Cost(t) \in Nat /\ Cost(s) <= Cost(t)
<1>. DEFINE tokens(p) == UNION {{i} \X (1..segments[i].cost) : i \in Rebuilt(p)}
<1>1. Rebuilt(t) \in SUBSET Positions
  BY UnitsPart DEF Rebuilt, WithPairs, Closed, Positions
<1>2. Rebuilt(s) \subseteq Rebuilt(t)
  BY DEF Rebuilt, WithPairs
<1>3. IsFiniteSet(Rebuilt(t))
  BY <1>1, PositionsAreNumbers, FS_Subset
<1>4. ASSUME NEW i \in Rebuilt(t) PROVE IsFiniteSet({i} \X (1..segments[i].cost))
  <2>1. segments[i] \in Segments
    BY <1>1 DEF WindowShaped, Positions
  <2>2. segments[i].cost \in Nat
    BY <2>1 DEF Segments
  <2>3. IsFiniteSet(1..segments[i].cost)
    <3>. 1 \in Int /\ segments[i].cost \in Int
      BY <2>2
    <3>. QED  BY FS_Interval, Zenon
  <2>4. IsFiniteSet({i})
    BY FS_Singleton
  <2>. QED  BY <2>3, <2>4, FS_Product
<1>. DEFINE each == [i \in Rebuilt(t) |-> {i} \X (1..segments[i].cost)]
            parts == {{i} \X (1..segments[i].cost) : i \in Rebuilt(t)}
<1>5. IsFiniteSet(parts)
  <2>1. each \in Surjection(Rebuilt(t), parts)
    BY DEF Surjection
  <2>. HIDE DEF each, parts
  <2>. QED  BY <1>3, <2>1, FS_Surjection
<1>6. IsFiniteSet(tokens(t))
  BY <1>4, <1>5, FS_UNION
<1>7. tokens(s) \in SUBSET tokens(t)
  BY <1>2
<1>8. IsFiniteSet(tokens(s)) /\ Cardinality(tokens(s)) <= Cardinality(tokens(t))
  <2>. HIDE DEF tokens
  <2>. QED  BY <1>6, <1>7, FS_Subset
<1>9. Cardinality(tokens(s)) \in Nat /\ Cardinality(tokens(t)) \in Nat
  <2>. HIDE DEF tokens
  <2>. QED  BY <1>6, <1>8, FS_CardinalityType
<1>. QED  BY <1>8, <1>9 DEF Cost

\* Closed sets stay so when units are added or taken away.
LEMMA ClosedUnits ==
    ASSUME NEW s, Closed(s), NEW u \in AllUnits
    PROVE  /\ Closed(u) /\ Closed(s \union u) /\ Closed(s \ u)
           /\ u \subseteq s \/ u \intersect s = {}
<1>1. PICK i \in Positions : u = Unit(i)
  BY DEF AllUnits
<1>2. \A j \in u : j \in Positions /\ Unit(j) = u
  BY <1>1, UnitsPart
<1>3. \A j \in s : j \in Positions /\ j \in Unit(j) /\ Unit(j) \subseteq s
                   /\ \A k \in Unit(j) : Unit(k) = Unit(j)
  BY UnitsPart DEF Closed
<1>4. u \subseteq s \/ u \intersect s = {}
  BY <1>2, <1>3
<1>5. Closed(u) /\ Closed(s \union u)
  BY <1>2, <1>3 DEF Closed
<1>6. Closed(s \ u)
  BY <1>2, <1>3 DEF Closed
<1>. QED  BY <1>4, <1>5, <1>6

LEMMA ClosedPairs ==
    ASSUME NEW s, s \subseteq Positions
    PROVE  Closed(WithPairs(s)) /\ s \subseteq WithPairs(s)
BY UnitsPart DEF Closed, WithPairs

LEMMA ClosedIsWhole ==
    ASSUME NEW s, Closed(s)
    PROVE  WithPairs(s) = s
BY UnitsPart DEF Closed, WithPairs

-----------------------------------------------------------------------------
LEMMA SelectionStarts == SelectionInit => WindowInv
<1>. SUFFICES ASSUME SelectionInit PROVE WindowInv
  OBVIOUS
<1>1. /\ selected = {} /\ found = <<>> /\ units = {} /\ recent = {}
      /\ phase \in {"current", "tail"} /\ outcome = "none"
  BY DEF SelectionInit
<1>2. segments \in Seq(Segments) /\ instruction \in Positions
  BY ContextsAssumption DEF SelectionInit, Positions
<1>3. WindowShaped
  BY <1>1, <1>2 DEF WindowShaped, WindowPhases, Closed
<1>4. SpareTaken /\ MustTaken /\ WithinLimit
  BY <1>1 DEF SpareTaken, MustTaken, WithinLimit, Underway, Complete
<1>5. FoundElsewhere
  BY <1>1 DEF FoundElsewhere
<1>. QED  BY <1>3, <1>4, <1>5 DEF WindowInv

\* What the context says of its units never changes.
LEMMA ContextStays ==
    ASSUME UNCHANGED inputVars
    PROVE  /\ Positions' = Positions /\ AllUnits' = AllUnits /\ Active' = Active
           /\ \A i : Unit(i)' = Unit(i)
BY DEF inputVars, Positions, AllUnits, Active, Unit

LEMMA CostStays ==
    ASSUME UNCHANGED inputVars, UNCHANGED selected
    PROVE  Cost(selected)' = Cost(selected)
BY DEF inputVars, Cost, Rebuilt, WithPairs, Unit

LEMMA ActiveUnits ==
    ASSUME WindowShaped
    PROVE  Active \subseteq AllUnits /\ \A u \in AllUnits : u # {}
BY UnitsPart DEF Active, AllUnits, Positions

\* The current instruction is taken, or refused.
LEMMA BeginningsKeepWindow ==
    ASSUME WindowInv, TakesCurrent \/ TailBegins
    PROVE  WindowInv'
<1>. USE DEF WindowInv
<1>1. UNCHANGED inputVars /\ UNCHANGED <<found, recent>> /\ phase \in {"current", "tail"}
  BY DEF TakesCurrent, TailBegins
<1>2. /\ Positions' = Positions /\ AllUnits' = AllUnits /\ Active' = Active
      /\ \A i : Unit(i)' = Unit(i)
  BY <1>1, ContextStays
<1>3. found = <<>> /\ found' = <<>>
  BY <1>1 DEF FoundElsewhere
<1>4. Closed(Unit(instruction)) /\ instruction \in Unit(instruction)
  BY UnitsPart DEF WindowShaped, Closed
<1>5. WithPairs({instruction}) = Unit(instruction)
  BY DEF WithPairs
<1>6. CASE TakesCurrent /\ Cost(Unit(instruction)) <= HardTokens
  <2>1. /\ selected' = Unit(instruction) /\ units' = Active /\ phase' = "active"
        /\ outcome' = outcome /\ outcome = "none"
    BY <1>6 DEF TakesCurrent, WindowShaped
  <2>2. Cost(selected)' = Cost(Unit(instruction))
    BY <1>1, <2>1 DEF inputVars, Cost, Rebuilt, WithPairs, Unit
  <2>. QED
    BY <1>1, <1>2, <1>3, <1>4, <1>6, <2>1, <2>2
    DEF inputVars, WindowShaped, WindowPhases, SpareTaken, Spare, MustTaken, Underway, Complete,
        WithinLimit, FoundElsewhere, Closed
<1>7. CASE TailBegins
  <2>1. /\ selected' = Unit(instruction) /\ units' = Active /\ phase' = "tail_active"
        /\ outcome' = outcome /\ outcome = "none"
    BY <1>5, <1>7 DEF TailBegins, WindowShaped
  <2>. QED
    BY <1>1, <1>2, <1>3, <1>4, <2>1
    DEF inputVars, WindowShaped, WindowPhases, SpareTaken, Spare, MustTaken, Underway, Complete,
        WithinLimit, FoundElsewhere, Closed
<1>8. CASE TakesCurrent /\ ~(Cost(Unit(instruction)) <= HardTokens)
  <2>1. /\ UNCHANGED <<selected, units>> /\ phase' = "done" /\ outcome' = "current"
    BY <1>8 DEF TakesCurrent, Concludes
  <2>. QED
    BY <1>1, <1>2, <1>3, <2>1
    DEF inputVars, WindowShaped, WindowPhases, SpareTaken, Spare, MustTaken, Underway, Complete,
        WithinLimit, FoundElsewhere, Closed
<1>. QED  BY <1>6, <1>7, <1>8

\* A call since is taken, or the turn refused.
LEMMA CallsKeepWindow ==
    ASSUME WindowInv, TakesActive \/ TailTakesActive
    PROVE  WindowInv'
<1>. USE DEF WindowInv
<1>1. /\ UNCHANGED inputVars /\ UNCHANGED <<found, recent>>
      /\ phase \in {"active", "tail_active"} /\ units # {}
  BY DEF TakesActive, TailTakesActive
<1>2. /\ Positions' = Positions /\ AllUnits' = AllUnits /\ Active' = Active
      /\ \A i : Unit(i)' = Unit(i)
  BY <1>1, ContextStays
<1>3. found = <<>> /\ found' = <<>>
  BY <1>1 DEF FoundElsewhere
<1>4. NextCall \in units /\ NextCall \in AllUnits
  BY <1>1, NextIsThere, ActiveUnits DEF WindowShaped
<1>5. Closed(selected \union NextCall)
  BY <1>4, ClosedUnits DEF WindowShaped
<1>. HIDE DEF WindowInv
<1>6. CASE Cost(selected \union NextCall) <= HardTokens
  <2>1. /\ selected' = selected \union NextCall /\ units' = units \ {NextCall}
        /\ phase' = phase /\ outcome' = outcome /\ outcome = "none"
    BY <1>6 DEF TakesActive, TailTakesActive, WindowInv, WindowShaped
  <2>2. Cost(selected)' = Cost(selected \union NextCall)
    BY <1>1, <2>1 DEF inputVars, Cost, Rebuilt, WithPairs, Unit
  <2>3. WindowShaped'
    BY <1>1, <1>2, <1>5, <2>1 DEF inputVars, WindowInv, WindowShaped, Closed
  <2>4. MustTaken'
    BY <1>1, <1>2, <1>4, <2>1 DEF inputVars, WindowInv, MustTaken, Underway, Complete
  <2>5. SpareTaken' /\ WithinLimit' /\ FoundElsewhere'
    BY <1>1, <1>2, <1>3, <1>6, <2>1, <2>2
    DEF inputVars, WindowInv, SpareTaken, Spare, WithinLimit, FoundElsewhere
  <2>. QED  BY <2>3, <2>4, <2>5 DEF WindowInv
<1>7. CASE ~(Cost(selected \union NextCall) <= HardTokens)
  <2>1. UNCHANGED <<selected, units>> /\ phase' = "done" /\ outcome' = "active"
    BY <1>7 DEF TakesActive, TailTakesActive, Concludes
  <2>. QED
    BY <1>1, <1>2, <1>3, <2>1
    DEF WindowInv, inputVars, WindowShaped, WindowPhases, SpareTaken, Spare, MustTaken, Underway,
        Complete, WithinLimit, FoundElsewhere, Closed
<1>. QED  BY <1>6, <1>7

\* All calls since have been taken: what remains is spare.
LEMMA CallsTakenKeepsWindow ==
    ASSUME WindowInv, ActiveTaken \/ TailActiveTaken
    PROVE  WindowInv'
<1>1. /\ UNCHANGED inputVars /\ UNCHANGED <<selected, found, recent, outcome>>
      /\ phase \in {"active", "tail_active"} /\ units = {}
      /\ \/ phase = "active" /\ phase' = "recent" /\ units' = Recent(selected)
         \/ phase' = "tail_recent" /\ units' = {{i} : i \in Positions}
  BY DEF ActiveTaken, TailActiveTaken, Positions
<1>2. /\ Positions' = Positions /\ AllUnits' = AllUnits /\ Active' = Active
      /\ \A i : Unit(i)' = Unit(i)
  BY <1>1, ContextStays
<1>3. found = <<>> /\ found' = <<>>
  BY <1>1 DEF WindowInv, FoundElsewhere
<1>4. Cost(selected)' = Cost(selected)
  BY <1>1, CostStays
<1>5. instruction \in selected /\ \A u \in Active : u \subseteq selected
  BY <1>1 DEF WindowInv, MustTaken, Underway
<1>6. ASSUME NEW u \in Recent(selected) PROVE Spare(u)
  <2>1. PICK i \in Positions : u = Unit(i) /\ u \intersect selected = {}
    BY <1>6 DEF Recent, Positions
  <2>2. u \in AllUnits /\ i \in u
    BY <2>1, UnitsPart DEF AllUnits
  <2>. QED  BY <1>5, <2>1, <2>2 DEF Spare
<1>7. WindowShaped'
  BY <1>1, <1>2, <1>6 DEF WindowInv, inputVars, WindowShaped, WindowPhases, Closed, Spare
<1>8. MustTaken'
  BY <1>1, <1>2, <1>5 DEF inputVars, MustTaken, Underway, Complete
<1>9. SpareTaken' /\ WithinLimit' /\ FoundElsewhere'
  BY <1>1, <1>2, <1>3, <1>4, <1>6
  DEF WindowInv, inputVars, WindowShaped, SpareTaken, Spare, WithinLimit, FoundElsewhere
<1>. QED  BY <1>7, <1>8, <1>9 DEF WindowInv

\* A unit is added, or does not fit.
LEMMA AdditionsKeepWindow ==
    ASSUME WindowInv, AddsRecent \/ AddsReference
    PROVE  WindowInv'
<1>1. /\ UNCHANGED inputVars /\ UNCHANGED <<found, phase, outcome>>
      /\ phase \in {"recent", "references"} /\ units # {} /\ outcome = "none"
  BY DEF AddsRecent, AddsReference, WindowInv, WindowShaped
<1>2. /\ Positions' = Positions /\ AllUnits' = AllUnits /\ Active' = Active
      /\ \A i : Unit(i)' = Unit(i)
  BY <1>1, ContextStays
<1>3. found = <<>> /\ found' = <<>>
  BY <1>1 DEF WindowInv, FoundElsewhere
<1>4. PICK u \in units :
         /\ units' = units \ {u}
         /\ \/ /\ selected' = selected \union u /\ Cost(selected \union u) <= HardTokens
            \/ selected' = selected
         /\ recent' \in {recent, recent \union {u}}
         /\ phase = "references" => recent' = recent
  <2>1. CASE AddsRecent
    <3>1. NextRecent \in units
      BY <2>1, NextIsThere DEF WindowInv, AddsRecent
    <3>. QED  BY <2>1, <3>1 DEF AddsRecent
  <2>2. CASE AddsReference
    <3>1. NextReference \in units
      BY <2>2, NextIsThere DEF WindowInv, AddsReference
    <3>. QED  BY <2>2, <3>1 DEF AddsReference
  <2>. QED  BY <2>1, <2>2
<1>5. u \in AllUnits
  BY <1>1 DEF WindowInv, WindowShaped, AllUnits
<1>6. Closed(selected \union u) /\ Closed(selected)
  BY <1>5, ClosedUnits DEF WindowInv, WindowShaped
<1>7. WindowShaped'
  BY <1>1, <1>2, <1>4, <1>6 DEF WindowInv, inputVars, WindowShaped, Closed
<1>8. SpareTaken'
  BY <1>1, <1>2, <1>4 DEF WindowInv, inputVars, SpareTaken, Spare
<1>9. MustTaken'
  BY <1>1, <1>2, <1>4 DEF WindowInv, inputVars, MustTaken, Underway, Complete
<1>10. WithinLimit'
  <2>1. CASE selected' = selected \union u /\ Cost(selected \union u) <= HardTokens
    <3>1. Cost(selected)' = Cost(selected \union u)
      BY <1>1, <2>1 DEF inputVars, Cost, Rebuilt, WithPairs, Unit
    <3>. QED  BY <2>1, <3>1 DEF WithinLimit
  <2>2. CASE selected' = selected
    <3>1. Cost(selected)' = Cost(selected)
      BY <1>1, <2>2, CostStays
    <3>. QED  BY <1>1, <3>1 DEF WindowInv, WithinLimit
  <2>. QED  BY <1>4, <2>1, <2>2
<1>11. FoundElsewhere'
  BY <1>2, <1>3 DEF FoundElsewhere
<1>. QED  BY <1>7, <1>8, <1>9, <1>10, <1>11 DEF WindowInv

\* What is found is not what is selected.
LEMMA FindsKeepsWindow ==
    ASSUME WindowInv, NEW i \in Positions, Finds(i)
    PROVE  WindowInv'
<1>1. /\ UNCHANGED inputVars /\ UNCHANGED <<selected, units, recent, phase, outcome>>
      /\ phase = "references" /\ units = {}
      /\ found' = Append(found, Unit(i)) /\ Unit(i) \intersect selected = {}
  BY DEF Finds
<1>2. /\ Positions' = Positions /\ AllUnits' = AllUnits /\ Active' = Active
      /\ \A j : Unit(j)' = Unit(j)
  BY <1>1, ContextStays
<1>3. Cost(selected)' = Cost(selected)
  BY <1>1, CostStays
<1>4. Unit(i) \in SUBSET Positions
  BY UnitsPart
<1>5. /\ found' \in Seq(SUBSET Positions)
      /\ \A k \in DOMAIN found' : found'[k] \intersect selected = {}
  BY <1>1, <1>4 DEF WindowInv, FoundElsewhere
<1>6. FoundElsewhere'
  BY <1>1, <1>2, <1>5 DEF FoundElsewhere
<1>7. WindowShaped'
  BY <1>1, <1>2 DEF WindowInv, inputVars, WindowShaped, Closed
<1>8. SpareTaken' /\ MustTaken' /\ WithinLimit'
  BY <1>1, <1>2, <1>3
  DEF WindowInv, inputVars, SpareTaken, Spare, MustTaken, Underway, Complete, WithinLimit
<1>. QED  BY <1>6, <1>7, <1>8 DEF WindowInv

\* What is dropped to the target is spare, and less costs no more.
LEMMA DropsKeepsWindow ==
    ASSUME WindowInv, Drops
    PROVE  WindowInv'
<1>1. /\ UNCHANGED inputVars /\ UNCHANGED <<units, phase, outcome>> /\ phase = "trim"
  BY DEF Drops
<1>2. /\ Positions' = Positions /\ AllUnits' = AllUnits /\ Active' = Active
      /\ \A i : Unit(i)' = Unit(i)
  BY <1>1, ContextStays
<1>3. CASE found # <<>>
  <2>1. found' = Front(found) /\ UNCHANGED <<selected, recent>>
    BY <1>3 DEF Drops
  <2>2. Cost(selected)' = Cost(selected)
    BY <1>1, <2>1, CostStays
  <2>3. /\ found' \in Seq(SUBSET Positions)
        /\ \A k \in DOMAIN found' : k \in DOMAIN found /\ found'[k] = found[k]
    BY <1>3, <2>1 DEF WindowInv, FoundElsewhere, Front
  <2>4. FoundElsewhere'
    BY <1>1, <1>2, <2>1, <2>3 DEF WindowInv, FoundElsewhere
  <2>5. WindowShaped'
    BY <1>1, <1>2, <2>1 DEF WindowInv, inputVars, WindowShaped, Closed
  <2>6. SpareTaken' /\ MustTaken' /\ WithinLimit'
    BY <1>1, <1>2, <2>1, <2>2
    DEF WindowInv, inputVars, SpareTaken, Spare, MustTaken, Underway, Complete, WithinLimit
  <2>. QED  BY <2>4, <2>5, <2>6 DEF WindowInv
<1>4. CASE found = <<>>
  <2>. DEFINE u == Oldest(recent, Min)
  <2>1. /\ found' = <<>> /\ recent # {}
        /\ selected' = selected \ u /\ recent' = recent \ {u}
    BY <1>4 DEF Drops
  <2>2. u \in recent
    BY <2>1, OldestRecentIsThere DEF WindowInv, SpareTaken, Spare
  <2>. HIDE DEF u
  <2>3. Spare(u)
    BY <2>2 DEF WindowInv, SpareTaken
  <2>4. Closed(selected \ u) /\ Closed(selected)
    BY <2>3, ClosedUnits DEF WindowInv, WindowShaped, Spare
  <2>5. instruction \in selected \ u
    BY <1>1, <2>3 DEF WindowInv, MustTaken, Complete, Spare
  <2>6. \A v \in Active : v \subseteq selected \ u
    <3>. TAKE v \in Active
    <3>1. v \in AllUnits /\ v \subseteq selected /\ v # u
      BY <1>1, <2>3, ActiveUnits DEF WindowInv, MustTaken, Complete, Spare
    <3>2. v \intersect u = {}
      BY <2>3, <3>1, UnitsPart DEF Spare, AllUnits
    <3>. QED  BY <3>1, <3>2
  <2>7. Cost(selected)' = Cost(selected \ u)
    BY <1>1, <2>1 DEF inputVars, Cost, Rebuilt, WithPairs, Unit
  <2>8. Cost(selected \ u) <= HardTokens
    <3>1. /\ Cost(selected \ u) \in Nat /\ Cost(selected) \in Nat
          /\ Cost(selected \ u) <= Cost(selected)
      BY <2>4, CostGrows DEF WindowInv
    <3>2. Cost(selected) <= HardTokens
      BY <1>1 DEF WindowInv, WithinLimit
    <3>. QED  BY <3>1, <3>2, ContextsAssumption
  <2>9. WindowShaped'
    BY <1>1, <1>2, <2>1, <2>4 DEF WindowInv, inputVars, WindowShaped, Closed
  <2>10. SpareTaken' /\ MustTaken' /\ WithinLimit'
    BY <1>1, <1>2, <2>1, <2>5, <2>6, <2>7, <2>8
    DEF WindowInv, inputVars, SpareTaken, Spare, MustTaken, Underway, Complete, WithinLimit
  <2>11. FoundElsewhere'
    BY <1>2, <2>1 DEF FoundElsewhere
  <2>. QED  BY <2>9, <2>10, <2>11 DEF WindowInv
<1>. QED  BY <1>3, <1>4

\* A tail grows by whole units, while it fits.
LEMMA TailAddsKeepsWindow ==
    ASSUME WindowInv, TailAdds
    PROVE  WindowInv'
<1>. DEFINE more == WithPairs(selected \union NextSegment)
<1>1. /\ UNCHANGED inputVars /\ UNCHANGED <<found, recent, phase, outcome>>
      /\ phase = "tail_recent" /\ units # {} /\ outcome = "none"
      /\ units' = units \ {NextSegment}
      /\ selected' \in {selected, more}
  BY DEF TailAdds, WindowInv, WindowShaped
<1>2. /\ Positions' = Positions /\ AllUnits' = AllUnits /\ Active' = Active
      /\ \A i : Unit(i)' = Unit(i)
  BY <1>1, ContextStays
<1>3. NextSegment \subseteq Positions
  BY <1>1, NextIsThere DEF WindowInv, WindowShaped
<1>4. Closed(selected)
  BY DEF WindowInv, WindowShaped
<1>5. Closed(more) /\ selected \subseteq more
  BY <1>3, <1>4, ClosedPairs DEF Closed
<1>. HIDE DEF more
<1>6. WindowShaped'
  BY <1>1, <1>2, <1>4, <1>5 DEF WindowInv, inputVars, WindowShaped, Closed
<1>7. MustTaken'
  BY <1>1, <1>2, <1>5 DEF WindowInv, inputVars, MustTaken, Underway, Complete
<1>8. SpareTaken' /\ WithinLimit'
  BY <1>1, <1>2 DEF WindowInv, inputVars, SpareTaken, Spare, WithinLimit
<1>9. FoundElsewhere'
  BY <1>1, <1>2 DEF WindowInv, FoundElsewhere
<1>. QED  BY <1>6, <1>7, <1>8, <1>9 DEF WindowInv

\* The rest move from one phase to the next.
LEMMA PhasesKeepWindow ==
    ASSUME WindowInv, RecentTaken \/ Searched \/ SelectionReturns \/ TailReturns
    PROVE  WindowInv'
<1>1. UNCHANGED inputVars /\ UNCHANGED <<selected, found, recent>>
  BY DEF RecentTaken, Searched, SelectionReturns, TailReturns
<1>2. /\ Positions' = Positions /\ AllUnits' = AllUnits /\ Active' = Active
      /\ \A i : Unit(i)' = Unit(i)
  BY <1>1, ContextStays
<1>3. Cost(selected)' = Cost(selected)
  BY <1>1, CostStays
<1>4. CASE RecentTaken
  <2>1. /\ phase = "recent" /\ phase' = "references" /\ outcome' = outcome
        /\ units' = References(selected)
    BY <1>4 DEF RecentTaken
  <2>2. units' \subseteq {Unit(i) : i \in {j \in Positions : segments[j].reference}}
    BY <2>1 DEF References, Positions
  <2>3. found = <<>>
    BY <2>1 DEF WindowInv, FoundElsewhere
  <2>. QED
    BY <1>1, <1>2, <1>3, <2>1, <2>2, <2>3
    DEF WindowInv, inputVars, WindowShaped, WindowPhases, SpareTaken, Spare, MustTaken, Underway,
        Complete, WithinLimit, FoundElsewhere, Closed
<1>5. CASE Searched
  <2>1. phase = "references" /\ phase' = "trim" /\ outcome' = outcome /\ units' = units
    BY <1>5 DEF Searched
  <2>. QED
    BY <1>1, <1>2, <1>3, <2>1
    DEF WindowInv, inputVars, WindowShaped, WindowPhases, SpareTaken, Spare, MustTaken, Underway,
        Complete, WithinLimit, FoundElsewhere, Closed
<1>6. CASE SelectionReturns \/ TailReturns
  <2>1. /\ phase \in {"trim", "tail_recent"} /\ phase' = "done" /\ units' = units
        /\ outcome' \in {"fits", "limit"} /\ outcome' = "fits" => Cost(selected) <= HardTokens
    BY <1>6 DEF SelectionReturns, TailReturns, Concludes
  <2>. QED
    BY <1>1, <1>2, <1>3, <2>1
    DEF WindowInv, inputVars, WindowShaped, WindowPhases, SpareTaken, Spare, MustTaken, Underway,
        Complete, WithinLimit, FoundElsewhere, Closed
<1>. QED  BY <1>4, <1>5, <1>6

LEMMA WindowRests == ASSUME WindowInv, UNCHANGED windowVars PROVE WindowInv'
<1>1. UNCHANGED inputVars /\ UNCHANGED <<selected, found, units, recent, phase, outcome>>
  BY DEF windowVars, inputVars
<1>2. /\ Positions' = Positions /\ AllUnits' = AllUnits /\ Active' = Active
      /\ \A i : Unit(i)' = Unit(i)
  BY <1>1, ContextStays
<1>3. Cost(selected)' = Cost(selected)
  BY <1>1, CostStays
<1>. QED
  BY <1>1, <1>2, <1>3
  DEF WindowInv, inputVars, WindowShaped, SpareTaken, Spare, MustTaken, Underway, Complete,
      WithinLimit, FoundElsewhere, Closed

LEMMA WindowInvHolds == SelectionSpec => []WindowInv
<1>1. WindowInv /\ [SelectionNext]_windowVars => WindowInv'
  <2>. SUFFICES ASSUME WindowInv, [SelectionNext]_windowVars PROVE WindowInv'
    OBVIOUS
  <2>1. CASE TakesCurrent \/ TailBegins
    BY <2>1, BeginningsKeepWindow
  <2>2. CASE TakesActive \/ TailTakesActive
    BY <2>2, CallsKeepWindow
  <2>3. CASE ActiveTaken \/ TailActiveTaken
    BY <2>3, CallsTakenKeepsWindow
  <2>4. CASE AddsRecent \/ AddsReference
    BY <2>4, AdditionsKeepWindow
  <2>5. CASE \E i \in DOMAIN segments : Finds(i)
    BY <2>5, FindsKeepsWindow DEF Positions
  <2>6. CASE Drops
    BY <2>6, DropsKeepsWindow
  <2>7. CASE TailAdds
    BY <2>7, TailAddsKeepsWindow
  <2>8. CASE RecentTaken \/ Searched \/ SelectionReturns \/ TailReturns
    BY <2>8, PhasesKeepWindow
  <2>9. CASE UNCHANGED windowVars
    BY <2>9, WindowRests
  <2>. QED  BY <2>1, <2>2, <2>3, <2>4, <2>5, <2>6, <2>7, <2>8, <2>9 DEF SelectionNext
<1>. QED  BY <1>1, SelectionStarts, PTL DEF SelectionSpec

\* Whatever is added or dropped, what is chosen of any transcript fits the hard limit, has
\* the current instruction and every call since, and splits no pair (select_working_set,
\* _newest_tail): for all transcripts, limits and numbers of recent units.
THEOREM SelectionsAreSound == SelectionSpec => []SelectionIsSound
<1>1. WindowInv => SelectionIsSound
  <2>. SUFFICES ASSUME WindowInv, Chosen
                PROVE  LET given == Rebuilt(selected)
                           beside == {i \in given : segments[i].message = segments[instruction].message}
                       IN  /\ Cost(selected) <= HardTokens
                           /\ instruction \in given
                           /\ \A u \in Active : u \subseteq given
                           /\ \A i \in given \ beside : Unit(i) \subseteq given
                           /\ \A k \in DOMAIN found : found[k] \intersect selected = {}
    BY DEF SelectionIsSound
  <2>1. Closed(selected) /\ WithPairs(selected) = selected
    BY ClosedIsWhole DEF WindowInv, WindowShaped
  <2>2. /\ selected \subseteq Rebuilt(selected)
        /\ \A i \in Rebuilt(selected) \ selected :
              segments[i].message = segments[instruction].message
    BY <2>1 DEF Rebuilt
  <2>3. instruction \in selected /\ \A u \in Active : u \subseteq selected
    BY DEF WindowInv, MustTaken, Complete, Chosen
  <2>4. Cost(selected) <= HardTokens
    BY DEF WindowInv, WithinLimit, Chosen
  <2>5. \A k \in DOMAIN found : found[k] \intersect selected = {}
    BY DEF WindowInv, FoundElsewhere
  <2>. QED  BY <2>1, <2>2, <2>3, <2>4, <2>5 DEF Closed
<1>. QED  BY <1>1, WindowInvHolds, PTL

-----------------------------------------------------------------------------
(* Sequences made of some items of another, in order.                          *)

\* The first and the last of some numbers.
LEMMA FirstOf ==
    ASSUME NEW S \in SUBSET Nat, S # {}
    PROVE  First0(S) \in S /\ \A i \in S : First0(S) <= i
<1>1. \E i \in S : \A j \in S : i <= j
  BY LeastNumber
<1>. QED  BY <1>1 DEF First0

\* The last of some positions.
LEMMA LastOf ==
    ASSUME NEW n \in Nat, NEW S \in SUBSET (1..n), S # {}
    PROVE  Last0(S) \in S /\ \A i \in S : i <= Last0(S)
<1>1. \E i \in S : \A j \in S : j <= i
  BY Largest
<1>. QED  BY <1>1 DEF Last0

\* part is made of the items at some indices, which p gives.
Selects(part, items, indices, p) ==
    /\ p \in [1..Len(part) -> 1..Len(items)]
    /\ \A a, b \in 1..Len(part) : a < b => p[a] < p[b]
    /\ \A a \in 1..Len(part) : part[a] = items[p[a]]
    /\ {p[a] : a \in 1..Len(part)} = indices

\* ItemsAt, item by item: what there is up to each.
Collects(n, A, items, indices, flat) ==
    Flattens(n, A, [i \in 1..n |-> IF i \in indices THEN <<items[i]>> ELSE <<>>], flat)

\* What ItemsAt has collected up to each item.
LEMMA ItemsCollected ==
    ASSUME NEW A, NEW items \in Seq(A), NEW indices
    PROVE  \E flat : Collects(Len(items), A, items, indices, flat)
                     /\ ItemsAt(items, indices) = flat[Len(items)]
<1>. DEFINE n == Len(items)
            seqs == [i \in 1..n |-> IF i \in indices THEN <<items[i]>> ELSE <<>>]
<1>1. n \in Nat /\ DOMAIN items = 1..n /\ \A i \in 1..n : items[i] \in A
  OBVIOUS
<1>2. ItemsAt(items, indices) = FlattenSeq(seqs)
  BY <1>1 DEF ItemsAt
<1>3. seqs \in [1..n -> Seq(A)]
  BY <1>1
<1>. HIDE DEF n, seqs
<1>4. \E flat : Flattens(n, A, seqs, flat) /\ FlattenSeq(seqs) = flat[n]
  BY <1>1, <1>3, FlattenIsThere
<1>. QED  BY <1>2, <1>4 DEF Collects, n, seqs

\* ItemsAt gives the items at the indices, in order.
LEMMA ItemsSelected ==
    ASSUME NEW A, NEW items \in Seq(A), NEW indices \in SUBSET (1..Len(items))
    PROVE  ItemsAt(items, indices) \in Seq(A) /\ \E p : Selects(ItemsAt(items, indices), items, indices, p)
<1>. DEFINE n == Len(items)
            till(k) == indices \intersect (1..k)
<1>1. n \in Nat /\ DOMAIN items = 1..n /\ \A i \in 1..n : items[i] \in A
  OBVIOUS
<1>2. PICK flat : Collects(n, A, items, indices, flat) /\ ItemsAt(items, indices) = flat[n]
  BY ItemsCollected
<1>. HIDE DEF n
<1>3. /\ flat \in [0..n -> Seq(A)] /\ flat[0] = <<>>
      /\ \A i \in 1..n : flat[i] = flat[i - 1] \o (IF i \in indices THEN <<items[i]>> ELSE <<>>)
  BY <1>2 DEF Collects, Flattens
<1>. DEFINE P == {k \in Nat : k <= n => \E p : Selects(flat[k], items, till(k), p)}
<1>4. 0 \in P
  <2>. DEFINE p == [a \in 1..0 |-> 1]
  <2>1. Selects(<<>>, items, till(0), p)
    BY DEF Selects
  <2>. HIDE DEF p
  <2>. QED  BY <1>3, <2>1
<1>5. ASSUME NEW k \in 1..n, k - 1 \in P PROVE k \in P
  <2>0. k - 1 \in 0..n /\ k \in 0..n /\ k - 1 <= n /\ k \in Nat
    BY <1>1
  <2>1. PICK p : Selects(flat[k - 1], items, till(k - 1), p)
    BY <1>5, <2>0
  <2>2. flat[k - 1] \in Seq(A) /\ items[k] \in A
    BY <1>1, <1>3, <2>0
  <2>. DEFINE s == flat[k - 1]
              m == Len(s)
  <2>3. m \in Nat
    BY <2>2
  <2>4. CASE k \notin indices
    <3>1. flat[k] = s /\ till(k) = till(k - 1)
      <4>1. flat[k] = s \o <<>>
        BY <1>3, <2>4
      <4>2. till(k) = till(k - 1)
        BY <2>0, <2>4
      <4>. QED  BY <2>2, <4>1, <4>2
    <3>. HIDE DEF s, till
    <3>2. Selects(flat[k], items, till(k), p)
      BY <2>1, <3>1 DEF s
    <3>. QED  BY <2>0, <3>2
  <2>5. CASE k \in indices
    <3>. DEFINE t == s \o <<items[k]>>
                q == [a \in 1..(m + 1) |-> IF a = m + 1 THEN k ELSE p[a]]
    <3>1. flat[k] = t
      BY <1>3, <2>5
    <3>2. Len(t) = m + 1 /\ t[m + 1] = items[k] /\ \A a \in 1..m : t[a] = s[a]
      BY <2>2, <2>3
    <3>3. /\ p \in [1..m -> 1..Len(items)]
          /\ \A a, b \in 1..m : a < b => p[a] < p[b]
          /\ \A a \in 1..m : s[a] = items[p[a]]
          /\ {p[a] : a \in 1..m} = till(k - 1)
      BY <2>1 DEF Selects
    <3>. HIDE DEF s, m, t
    <3>4. k \in 1..Len(items)
      BY DEF n
    <3>5. q \in [1..(m + 1) -> 1..Len(items)]
      BY <2>3, <3>3, <3>4
    <3>6. \A a \in 1..m : a # m + 1 /\ a \in 1..(m + 1) /\ q[a] = p[a] /\ p[a] \in till(k - 1)
      BY <2>3, <3>3
    <3>7. q[m + 1] = k /\ m + 1 \in 1..(m + 1) /\ \A a \in 1..(m + 1) : a = m + 1 \/ a \in 1..m
      BY <2>3
    <3>. HIDE DEF q
    <3>8. \A a, b \in 1..(m + 1) : a < b => q[a] < q[b]
      <4>. SUFFICES ASSUME NEW a \in 1..(m + 1), NEW b \in 1..(m + 1), a < b PROVE q[a] < q[b]
        OBVIOUS
      <4>1. a \in 1..m
        BY <2>3, <3>7
      <4>2. CASE b = m + 1
        BY <2>0, <3>6, <3>7, <4>1, <4>2
      <4>3. CASE b \in 1..m
        BY <3>3, <3>6, <4>1, <4>3
      <4>. QED  BY <3>7, <4>2, <4>3
    <3>9. \A a \in 1..(m + 1) : t[a] = items[q[a]]
      BY <3>2, <3>3, <3>6, <3>7
    <3>10. {q[a] : a \in 1..(m + 1)} = till(k)
      <4>1. ASSUME NEW a \in 1..(m + 1) PROVE q[a] \in till(k)
        <5>1. CASE a = m + 1
          BY <2>0, <2>5, <3>7, <5>1
        <5>2. CASE a \in 1..m
          BY <2>0, <3>6, <5>2
        <5>. QED  BY <3>7, <5>1, <5>2
      <4>2. ASSUME NEW i \in till(k) PROVE \E a \in 1..(m + 1) : q[a] = i
        <5>1. CASE i = k
          BY <3>7, <5>1
        <5>2. CASE i # k
          <6>1. i \in till(k - 1)
            BY <2>0, <5>2
          <6>2. PICK a \in 1..m : p[a] = i
            BY <3>3, <6>1
          <6>. QED  BY <3>6, <6>2
        <5>. QED  BY <5>1, <5>2
      <4>. HIDE DEF till
      <4>. QED  BY <4>1, <4>2
    <3>. HIDE DEF till
    <3>11. Selects(flat[k], items, till(k), q)
      BY <3>1, <3>2, <3>5, <3>8, <3>9, <3>10 DEF Selects
    <3>. QED  BY <2>0, <3>11
  <2>. QED  BY <2>4, <2>5
<1>6. n \in P
  <2>. HIDE DEF P
  <2>. QED  BY <1>1, <1>4, <1>5, UpTo
<1>7. till(n) = indices
  BY DEF n
<1>8. flat[n] \in Seq(A)
  BY <1>1, <1>3
<1>. HIDE DEF till
<1>. QED  BY <1>1, <1>2, <1>6, <1>7, <1>8

\* What is selected from a beginning is a beginning of what is selected.
LEMMA BeginningSelected ==
    ASSUME NEW A, NEW s \in Seq(A), NEW t \in Seq(A), Len(s) <= Len(t), Alike(Len(s), s, t), NEW I, NEW J,
           \A i \in 1..Len(s) : i \in I <=> i \in J
    PROVE  /\ ItemsAt(s, I) \in Seq(A) /\ ItemsAt(t, J) \in Seq(A)
           /\ Len(ItemsAt(s, I)) <= Len(ItemsAt(t, J))
           /\ Alike(Len(ItemsAt(s, I)), ItemsAt(s, I), ItemsAt(t, J))
<1>. DEFINE n == Len(s)
            m == Len(t)
            x == [i \in 1..n |-> IF i \in I THEN <<s[i]>> ELSE <<>>]
            y == [i \in 1..m |-> IF i \in J THEN <<t[i]>> ELSE <<>>]
<1>1. n \in Nat /\ m \in Nat /\ n <= m /\ n \in 0..n /\ n \in 0..m /\ m \in 0..m
  OBVIOUS
<1>2. PICK f : Flattens(n, A, x, f) /\ ItemsAt(s, I) = f[n]
  BY ItemsCollected DEF Collects
<1>3. PICK g : Flattens(m, A, y, g) /\ ItemsAt(t, J) = g[m]
  BY ItemsCollected DEF Collects
<1>4. Alike(n, x, y)
  <2>. SUFFICES ASSUME NEW i \in 1..n PROVE x[i] = y[i]
    BY DEF Alike
  <2>1. i \in 1..m /\ s[i] = t[i] /\ (i \in I <=> i \in J)
    BY DEF Alike
  <2>. QED  BY <2>1
<1>5. \A i \in 1..m : y[i] \in Seq(A)
  <2>1. \A i \in 1..m : t[i] \in A
    OBVIOUS
  <2>. QED  BY <2>1
<1>. HIDE DEF n, m, x, y
<1>6. f[n] = g[n]
  BY <1>1, <1>2, <1>3, <1>4, FlattensAlike
<1>7. Len(g[n]) <= Len(g[m]) /\ Alike(Len(g[n]), g[m], g[n])
  BY <1>1, <1>3, <1>5, FlattenBegins
<1>8. f[n] \in Seq(A) /\ g[m] \in Seq(A)
  BY <1>1, <1>2, <1>3 DEF Flattens
<1>. QED  BY <1>2, <1>3, <1>6, <1>7, <1>8 DEF Alike

\* The end of a sequence is a selection of it.
LEMMA EndSelected ==
    ASSUME NEW A, NEW s \in Seq(A), NEW n \in 0..Len(s)
    PROVE  /\ Beyond(s, n) \in Seq(A) /\ Len(Beyond(s, n)) = Len(s) - n
           /\ \A a \in 1..(Len(s) - n) : Beyond(s, n)[a] = s[a + n]
           /\ Selects(Beyond(s, n), s, (n + 1)..Len(s), [a \in 1..(Len(s) - n) |-> a + n])
<1>. DEFINE m == Len(s)
            t == Beyond(s, n)
            p == [a \in 1..(m - n) |-> a + n]
<1>1. m \in Nat /\ n \in Nat /\ n <= m /\ m - n \in Nat
  OBVIOUS
<1>2. t \in Seq(A) /\ Len(t) = m - n /\ \A a \in 1..(m - n) : t[a] = s[a + n]
  <2>1. t = SubSeq(s, n + 1, m) /\ n + 1 \in 1..(m + 1)
    BY DEF Beyond
  <2>2. Len(t) = m - n
    BY <1>1, <2>1
  <2>3. ASSUME NEW a \in 1..(m - n) PROVE t[a] = s[a + n]
    <3>1. t[a] = s[(n + 1) + a - 1] /\ (n + 1) + a - 1 = a + n
      BY <1>1, <2>1
    <3>. QED  BY <3>1
  <2>4. t \in Seq(A)
    BY <1>1, <2>1
  <2>. QED  BY <2>2, <2>3, <2>4
<1>3. p \in [1..(m - n) -> 1..m] /\ \A a, b \in 1..(m - n) : a < b => p[a] < p[b]
  BY <1>1
<1>4. \A a \in 1..(m - n) : t[a] = s[p[a]]
  BY <1>2
<1>5. {p[a] : a \in 1..(m - n)} = (n + 1)..m
  <2>1. \A a \in 1..(m - n) : p[a] \in (n + 1)..m
    BY <1>1
  <2>2. ASSUME NEW i \in (n + 1)..m PROVE \E a \in 1..(m - n) : p[a] = i
    <3>1. i - n \in 1..(m - n) /\ p[i - n] = i
      BY <1>1
    <3>. QED  BY <3>1
  <2>. QED  BY <2>1, <2>2
<1>. QED  BY <1>1, <1>2, <1>3, <1>4, <1>5 DEF Selects

\* What lies beyond a place of a sequence, as some selection of it.
LEMMA EndIsPart ==
    ASSUME NEW A, NEW s \in Seq(A), NEW n \in 0..Len(s)
    PROVE  \E p : Selects(Beyond(s, n), s, (n + 1)..Len(s), p)
<1>1. Selects(Beyond(s, n), s, (n + 1)..Len(s), [a \in 1..(Len(s) - n) |-> a + n])
  BY EndSelected
<1>. QED  BY <1>1, Zenon

-----------------------------------------------------------------------------
(* What items cost.                                                            *)

Entries == [id : Nat, kind : {"user", "image", "answer", "call", "output", "hosted"},
            size : Nat \ {0}, pair : Nat]

\* The sum of the sizes, one item after the other.
Costs(n, items, sum) ==
    /\ sum \in [0..n -> Nat]
    /\ sum[0] = 0
    /\ \A i \in 1..n : sum[i] = sum[i - 1] + items[i].size

\* The size of items, summed item by item.
LEMMA CostIsThere ==
    ASSUME NEW items \in Seq(Entries)
    PROVE  \E sum : Costs(Len(items), items, sum) /\ Size(items) = sum[Len(items)]
<1>. DEFINE n == Len(items)
            G(g) == [s \in SUBSET (1..n) |-> IF s = {} THEN 0 ELSE g[s \ {Max(s)}] + items[Max(s)].size]
            fold == CHOOSE g : g = G(g)
            step == [i \in 1..n |-> [x \in Nat |-> x + items[i].size]]
<1>0. n \in Nat /\ DOMAIN items = 1..n /\ \A i \in 1..n : items[i].size \in Nat
  <2>1. \A i \in 1..n : items[i] \in Entries
    OBVIOUS
  <2>. QED  BY <2>1 DEF Entries
<1>4. Size(items) = fold[1..n]
  BY <1>0 DEF Size, FoldLeft, MapThenFoldSet
<1>. HIDE DEF n
<1>1. \E g : g = G(g)
  <2>1. step \in [1..n -> [Nat -> Nat]]
    BY <1>0
  <2>. HIDE DEF step
  <2>2. PICK g \in [SUBSET (1..n) -> Nat] : Folds(n, 0, step, g)
    BY <1>0, <2>1, FoldIsThere
  <2>3. ASSUME NEW s \in SUBSET (1..n), s # {}
        PROVE  step[Max(s)][g[s \ {Max(s)}]] = g[s \ {Max(s)}] + items[Max(s)].size
    <3>1. Max(s) \in 1..n
      BY <1>0, <2>3, Largest
    <3>. QED  BY <3>1 DEF step
  <2>4. g = G(g)
    BY <2>2, <2>3 DEF Folds
  <2>. QED  BY <2>4
<1>2. fold = G(fold)
  <2>. HIDE DEF G
  <2>. QED  BY <1>1
<1>. HIDE DEF fold
<1>. DEFINE sum == [i \in 0..n |-> fold[1..i]]
<1>5. sum[0] = 0
  BY <1>0, <1>2
<1>6. ASSUME NEW i \in 1..n PROVE sum[i] = sum[i - 1] + items[i].size
  <2>1. fold[1..i] = fold[(1..i) \ {Max(1..i)}] + items[Max(1..i)].size
    BY <1>0, <1>2, FirstPositions
  <2>2. fold[1..i] = fold[1..(i - 1)] + items[i].size
    BY <1>0, <2>1, FirstPositions
  <2>3. sum[i] = fold[1..i] /\ sum[i - 1] = fold[1..(i - 1)]
    BY <1>0
  <2>. QED  BY <2>2, <2>3
<1>7. sum \in [0..n -> Nat]
  <2>. DEFINE P == {i \in Nat : i \in 0..n => sum[i] \in Nat}
  <2>. SUFFICES ASSUME NEW m \in 0..n PROVE sum[m] \in Nat
    OBVIOUS
  <2>. HIDE DEF sum
  <2>1. 0 \in P /\ \A i \in 1..m : i - 1 \in P => i \in P
    <3>1. 0 \in P
      BY <1>5
    <3>2. ASSUME NEW i \in 1..m, i - 1 \in P PROVE i \in P
      <4>1. i \in 1..n /\ i - 1 \in 0..n /\ items[i].size \in Nat
        BY <1>0
      <4>2. sum[i] = sum[i - 1] + items[i].size /\ sum[i - 1] \in Nat
        BY <1>6, <3>2, <4>1
      <4>. QED  BY <4>1, <4>2
    <3>. QED  BY <3>1, <3>2
  <2>2. m \in P
    <3>. HIDE DEF P
    <3>1. m \in Nat
      BY <1>0
    <3>. QED  BY <2>1, <3>1, UpTo
  <2>. QED  BY <2>2 DEF P
<1>8. Size(items) = sum[n]
  BY <1>0, <1>4
<1>. HIDE DEF sum
<1>. QED  BY <1>5, <1>6, <1>7, <1>8 DEF Costs, n

\* The cost of nothing, of one item, and of some.
LEMMA CostOfFew ==
    ASSUME NEW items \in Seq(Entries)
    PROVE  /\ Size(items) \in Nat
           /\ Len(items) = 0 => Size(items) = 0
           /\ Len(items) = 1 => Size(items) = items[1].size
           /\ Len(items) # 0 => Size(items) > 0
<1>. DEFINE n == Len(items)
<1>1. PICK sum : Costs(n, items, sum) /\ Size(items) = sum[n]
  BY CostIsThere
<1>2. n \in Nat /\ \A i \in 1..n : items[i].size \in Nat \ {0}
  <2>1. \A i \in 1..n : items[i] \in Entries
    OBVIOUS
  <2>. QED  BY <2>1 DEF Entries
<1>. HIDE DEF n
<1>3. sum[n] \in Nat /\ sum[0] = 0
  BY <1>1, <1>2 DEF Costs
<1>4. n # 0 => n \in 1..n /\ n - 1 \in 0..n /\ sum[n] = sum[n - 1] + items[n].size /\ sum[n - 1] \in Nat
  BY <1>1, <1>2 DEF Costs
<1>5. n = 1 => n - 1 = 0 /\ 1 \in 1..n
  OBVIOUS
<1>. QED  BY <1>1, <1>2, <1>3, <1>4, <1>5 DEF n

\* A selection costs no more than what it is made from.
LEMMA SelectionCosts ==
    ASSUME NEW s \in Seq(Entries), NEW t \in Seq(Entries), NEW I, NEW p, Selects(t, s, I, p)
    PROVE  Size(t) <= Size(s)
<1>. DEFINE n == Len(s)
            m == Len(t)
<1>1. PICK f : Costs(n, s, f) /\ Size(s) = f[n]
  BY CostIsThere
<1>2. PICK g : Costs(m, t, g) /\ Size(t) = g[m]
  BY CostIsThere
<1>3. n \in Nat /\ m \in Nat /\ \A i \in 1..n : s[i].size \in Nat
  <2>1. \A i \in 1..n : s[i] \in Entries
    OBVIOUS
  <2>. QED  BY <2>1 DEF Entries
<1>4. /\ p \in [1..m -> 1..n]
      /\ \A a, b \in 1..m : a < b => p[a] < p[b]
      /\ \A a \in 1..m : t[a] = s[p[a]]
  BY DEF Selects
<1>. HIDE DEF n, m
<1>5. \A i \in 0..n : f[i] \in Nat
  BY <1>1 DEF Costs
<1>6. ASSUME NEW a \in 0..n, NEW b \in 0..n, a <= b PROVE f[a] <= f[b]
  <2>. DEFINE P == {i \in Nat : a + i <= n => f[a] <= f[a + i]}
  <2>1. 0 \in P
    BY <1>5
  <2>2. ASSUME NEW i \in 1..(b - a), i - 1 \in P PROVE i \in P
    <3>1. a + i \in 1..n /\ (a + i) - 1 \in 0..n /\ a + (i - 1) = (a + i) - 1 /\ a + (i - 1) <= n
      BY <1>3, <1>6
    <3>2. f[a + i] = f[(a + i) - 1] + s[a + i].size
      BY <1>1, <3>1 DEF Costs
    <3>3. f[a] <= f[(a + i) - 1] /\ f[(a + i) - 1] \in Nat /\ f[a] \in Nat /\ s[a + i].size \in Nat
      BY <1>3, <1>5, <2>2, <3>1
    <3>4. f[a] <= f[a + i]
      BY <3>2, <3>3, SMTT(30)
    <3>. QED  BY <3>4
  <2>3. b - a \in Nat /\ a + (b - a) = b /\ b <= n
    BY <1>3, <1>6
  <2>4. b - a \in P
    <3>. HIDE DEF P
    <3>. QED  BY <2>1, <2>2, <2>3, UpTo
  <2>. QED  BY <2>3, <2>4
<1>. DEFINE Q == {a \in Nat : a <= m => (a = 0 \/ g[a] <= f[p[a]])}
<1>7. 0 \in Q
  OBVIOUS
<1>8. ASSUME NEW a \in 1..m, a - 1 \in Q PROVE a \in Q
  <2>1. p[a] \in 1..n /\ p[a] \in 0..n /\ p[a] - 1 \in 0..n
    BY <1>3, <1>4
  <2>2. f[p[a]] = f[p[a] - 1] + t[a].size /\ t[a].size \in Nat
    BY <1>1, <1>3, <1>4, <2>1 DEF Costs
  <2>3. g[a] = g[a - 1] + t[a].size /\ a - 1 \in 0..m /\ g[a - 1] \in Nat
    BY <1>2, <1>3 DEF Costs
  <2>4. g[a - 1] <= f[p[a] - 1]
    <3>1. CASE a = 1
      <4>1. a - 1 = 0 /\ g[0] = 0 /\ f[p[a] - 1] \in Nat
        BY <1>2, <1>5, <2>1, <3>1 DEF Costs
      <4>. QED  BY <4>1
    <3>2. CASE a # 1
      <4>1. a - 1 \in 1..m /\ a - 1 < a /\ a - 1 # 0 /\ a - 1 <= m
        BY <1>3, <3>2
      <4>2. p[a - 1] < p[a] /\ p[a - 1] \in 1..n
        BY <1>4, <4>1
      <4>3. p[a - 1] \in 0..n /\ p[a - 1] <= p[a] - 1
        BY <2>1, <4>2
      <4>4. f[p[a - 1]] <= f[p[a] - 1]
        BY <1>6, <2>1, <4>3
      <4>5. g[a - 1] <= f[p[a - 1]]
        BY <1>8, <4>1
      <4>6. f[p[a - 1]] \in Nat /\ f[p[a] - 1] \in Nat
        BY <1>5, <2>1, <4>3
      <4>. QED  BY <2>3, <4>4, <4>5, <4>6
    <3>. QED  BY <3>1, <3>2
  <2>5. f[p[a] - 1] \in Nat
    BY <1>5, <2>1
  <2>6. g[a] <= f[p[a]]
    BY <2>2, <2>3, <2>4, <2>5
  <2>. QED  BY <2>6
<1>9. m \in Q
  <2>. HIDE DEF Q
  <2>. QED  BY <1>3, <1>7, <1>8, UpTo
<1>10. f[n] \in Nat /\ g[m] \in Nat
  BY <1>1, <1>2, <1>3 DEF Costs
<1>11. CASE m = 0
  <2>1. g[m] = 0
    BY <1>2, <1>11 DEF Costs
  <2>. QED  BY <1>1, <1>2, <1>10, <2>1
<1>12. CASE m # 0
  <2>1. m \in 1..m /\ m <= m
    BY <1>3, <1>12
  <2>2. p[m] \in 1..n
    BY <1>4, <2>1
  <2>3. p[m] \in 0..n /\ n \in 0..n /\ p[m] <= n
    BY <1>3, <2>2
  <2>4. g[m] <= f[p[m]] /\ f[p[m]] <= f[n] /\ f[p[m]] \in Nat
    BY <1>5, <1>6, <1>9, <1>12, <2>1, <2>3
  <2>. QED  BY <1>1, <1>2, <1>10, <2>4
<1>. QED  BY <1>11, <1>12

-----------------------------------------------------------------------------
(* Halving                                                                     *)

Ranges(n) == (1..n) \X (1..n)

\* What Bisect makes of a range, if search is what it makes of the smaller ones.
Halves(fits, search, range) ==
    LET middle == (range[1] + range[2]) \div 2
    IN  IF range[1] >= range[2] THEN range[1]
        ELSE IF fits[middle] THEN search[<<range[1], middle>>]
        ELSE search[<<middle + 1, range[2]>>]

\* Half of a range is smaller.
LEMMA HalfOf ==
    ASSUME NEW n \in Nat, NEW range \in Ranges(n), range[1] < range[2], NEW middle,
           middle = (range[1] + range[2]) \div 2
    PROVE  /\ <<range[1], middle>> \in Ranges(n) /\ <<middle + 1, range[2]>> \in Ranges(n)
           /\ range[1] <= middle /\ middle < range[2]
<1>1. PICK low \in 1..n, high \in 1..n : range = <<low, high>>
  BY DEF Ranges
<1>2. low < high /\ middle = (low + high) \div 2
  BY <1>1
<1>3. middle \in Nat /\ low <= middle /\ middle < high
  BY <1>2
<1>4. middle \in 1..n /\ middle + 1 \in 1..n
  BY <1>3
<1>. QED  BY <1>1, <1>3, <1>4 DEF Ranges

\* The search goes on to smaller and smaller ranges, so that there is such a function.
LEMMA BisectIsThere ==
    ASSUME NEW n \in Nat, NEW fits \in [1..n -> BOOLEAN]
    PROVE  \E g \in [Ranges(n) -> 1..n] : g = [range \in Ranges(n) |-> Halves(fits, g, range)]
<1>. DEFINE R == Ranges(n)
            A == [R -> 1..n]
            a == [range \in R |-> range[1]]
            next(g) == [range \in R |-> Halves(fits, g, range)]
            step == [i \in 1..(n + 1) |-> [g \in A |-> next(g)]]
<1>1. \A range \in R : range[1] \in 1..n /\ range[2] \in 1..n
  BY DEF Ranges
<1>. HIDE DEF R
<1>2. ASSUME NEW g \in A PROVE next(g) \in A
  <2>1. ASSUME NEW range \in R PROVE Halves(fits, g, range) \in 1..n
    <3>1. CASE range[1] < range[2]
      <4>. DEFINE middle == (range[1] + range[2]) \div 2
      <4>1. <<range[1], middle>> \in R /\ <<middle + 1, range[2]>> \in R
        BY <3>1, HalfOf DEF R
      <4>2. g[<<range[1], middle>>] \in 1..n /\ g[<<middle + 1, range[2]>>] \in 1..n
        BY <4>1
      <4>. QED  BY <1>1, <4>2 DEF Halves
    <3>2. CASE ~(range[1] < range[2])
      <4>1. range[1] >= range[2]
        BY <1>1, <3>2
      <4>. QED  BY <1>1, <4>1 DEF Halves
    <3>. QED  BY <3>1, <3>2
  <2>. QED  BY <2>1
<1>3. a \in A
  BY <1>1
<1>. HIDE DEF a, A
<1>4. step \in [1..(n + 1) -> [A -> A]]
  <2>. HIDE DEF next
  <2>. QED  BY <1>2
<1>5. PICK f : StepsThrough(n + 1, A, a, step, 1..(n + 1), f)
  <2>1. n + 1 \in Nat
    OBVIOUS
  <2>. HIDE DEF step
  <2>. QED  BY <1>3, <1>4, <2>1, StepsAreThere
<1>6. ASSUME NEW i \in 1..(n + 1) PROVE f[i - 1] \in A /\ f[i] \in A /\ f[i] = next(f[i - 1])
  <2>1. f[i] = step[i][f[i - 1]] /\ f[i - 1] \in A /\ f[i] \in A
    <3>1. i - 1 \in 0..(n + 1) /\ i \in 0..(n + 1)
      OBVIOUS
    <3>. HIDE DEF step
    <3>. QED  BY <1>5, <3>1 DEF StepsThrough
  <2>. HIDE DEF next
  <2>. QED  BY <2>1
<1>. HIDE DEF step
<1>. DEFINE stable(i) == \A range \in R : range[2] - range[1] < i => f[i + 1][range] = f[i][range]
            P == {i \in Nat : i <= n => stable(i)}
<1>7. 0 \in P
  <2>. SUFFICES ASSUME NEW range \in R, range[2] - range[1] < 0 PROVE f[0 + 1][range] = f[0][range]
    OBVIOUS
  <2>1. f[1] = next(f[0]) /\ f[0] = a
    BY <1>5, <1>6 DEF StepsThrough
  <2>2. range[1] >= range[2]
    BY <1>1
  <2>3. next(f[0])[range] = range[1]
    BY <2>2 DEF Halves
  <2>4. a[range] = range[1]
    BY DEF a
  <2>. QED  BY <2>1, <2>3, <2>4
<1>8. ASSUME NEW i \in 1..n, i - 1 \in P PROVE i \in P
  <2>. SUFFICES ASSUME NEW range \in R, range[2] - range[1] < i PROVE f[i + 1][range] = f[i][range]
    OBVIOUS
  <2>0. stable(i - 1) /\ (i - 1) + 1 = i /\ (i + 1) - 1 = i /\ i \in 1..(n + 1) /\ i + 1 \in 1..(n + 1)
    <3>1. i - 1 \in Nat /\ i - 1 <= n
      OBVIOUS
    <3>. HIDE DEF stable
    <3>. QED  BY <1>8, <3>1
  <2>1. f[i + 1] = next(f[i]) /\ f[i] = next(f[i - 1])
    <3>. HIDE DEF next, stable
    <3>. QED  BY <1>6, <2>0
  <2>2. Halves(fits, f[i], range) = Halves(fits, f[i - 1], range)
    <3>1. CASE range[1] < range[2]
      <4>. DEFINE middle == (range[1] + range[2]) \div 2
                  low == <<range[1], middle>>
                  high == <<middle + 1, range[2]>>
      <4>1. low \in R /\ high \in R /\ range[1] <= middle /\ middle < range[2]
        BY <3>1, HalfOf DEF R
      <4>2. range[1] \in Nat /\ range[2] \in Nat /\ middle \in Nat
        BY <1>1
      <4>3. low[2] - low[1] < i - 1 /\ high[2] - high[1] < i - 1
        <5>1. low[1] = range[1] /\ low[2] = middle /\ high[1] = middle + 1 /\ high[2] = range[2]
          OBVIOUS
        <5>. HIDE DEF middle, low, high
        <5>. QED  BY <4>1, <4>2, <5>1
      <4>4. f[i][low] = f[i - 1][low] /\ f[i][high] = f[i - 1][high]
        <5>. HIDE DEF low, high
        <5>. QED  BY <2>0, <4>1, <4>3
      <4>. QED  BY <4>4 DEF Halves
    <3>2. CASE ~(range[1] < range[2])
      <4>1. range[1] >= range[2]
        BY <1>1, <3>2
      <4>. QED  BY <4>1 DEF Halves
    <3>. QED  BY <3>1, <3>2
  <2>. QED  BY <2>1, <2>2
<1>9. stable(n)
  <2>1. n \in P
    <3>. HIDE DEF P
    <3>. QED  BY <1>7, <1>8, UpTo
  <2>. HIDE DEF stable
  <2>. QED  BY <2>1
<1>10. f[n + 1] = f[n]
  <2>1. f[n] \in A /\ f[n + 1] \in A
    <3>1. n + 1 \in 1..(n + 1) /\ (n + 1) - 1 = n
      OBVIOUS
    <3>. HIDE DEF next
    <3>. QED  BY <1>6, <3>1
  <2>2. \A range \in R : f[n + 1][range] = f[n][range]
    <3>. TAKE range \in R
    <3>1. range[2] - range[1] < n
      BY <1>1
    <3>. QED  BY <1>9, <3>1
  <2>. QED  BY <2>1, <2>2 DEF A
<1>11. f[n] = next(f[n]) /\ f[n] \in A
  <2>1. n + 1 \in 1..(n + 1) /\ (n + 1) - 1 = n
    OBVIOUS
  <2>. HIDE DEF next
  <2>. QED  BY <1>6, <1>10, <2>1
<1>. QED  BY <1>11 DEF A, R

\* Halving finds a number that fits, if the last one does.
LEMMA BisectFits ==
    ASSUME NEW n \in Nat \ {0}, NEW fits \in [1..n -> BOOLEAN], fits[n]
    PROVE  Bisect(fits) \in 1..n /\ fits[Bisect(fits)]
<1>. DEFINE G(g) == [range \in (1..n) \X (1..n) |->
                       LET middle == (range[1] + range[2]) \div 2
                       IN  IF range[1] >= range[2] THEN range[1]
                           ELSE IF fits[middle] THEN g[<<range[1], middle>>]
                           ELSE g[<<middle + 1, range[2]>>]]
            h == CHOOSE g : g = G(g)
<1>1. DOMAIN fits = 1..n /\ Len(fits) = n
  <2>1. fits \in Seq(BOOLEAN) /\ DOMAIN fits = 1..n
    OBVIOUS
  <2>. QED  BY <2>1
<1>2. Bisect(fits) = h[<<1, n>>]
  BY <1>1, Zenon DEF Bisect
<1>3. \E g : g = G(g)
  <2>1. PICK g : g = [range \in Ranges(n) |-> Halves(fits, g, range)]
    BY BisectIsThere
  <2>2. g = G(g)
    BY <2>1, Zenon DEF Halves, Ranges
  <2>. HIDE DEF G
  <2>. QED  BY <2>2
<1>4. h = G(h)
  <2>. HIDE DEF G
  <2>. QED  BY <1>3
<1>. HIDE DEF h
<1>5. \A low, high \in 1..n : h[<<low, high>>] = Halves(fits, h, <<low, high>>)
  <2>. TAKE low \in 1..n, high \in 1..n
  <2>1. <<low, high>> \in (1..n) \X (1..n)
    OBVIOUS
  <2>2. h[<<low, high>>] = G(h)[<<low, high>>]
    <3>. HIDE DEF G
    <3>. QED  BY <1>4
  <2>. QED  BY <2>1, <2>2 DEF Halves
<1>. HIDE DEF G
<1>. DEFINE got(low, high) == h[<<low, high>>] \in 1..n /\ fits[h[<<low, high>>]]
            P == {d \in Nat : \A low, high \in 1..n :
                    low <= high /\ high - low <= d /\ fits[high] => got(low, high)}
<1>6. ASSUME NEW low \in 1..n PROVE h[<<low, low>>] = low
  <2>1. h[<<low, low>>] = Halves(fits, h, <<low, low>>)
    BY <1>5
  <2>2. low >= low /\ <<low, low>>[1] = low /\ <<low, low>>[2] = low
    OBVIOUS
  <2>. QED  BY <2>1, <2>2 DEF Halves
<1>7. 0 \in P
  <2>. SUFFICES ASSUME NEW low \in 1..n, NEW high \in 1..n, low <= high, high - low <= 0, fits[high]
                PROVE  got(low, high)
    OBVIOUS
  <2>1. high = low
    OBVIOUS
  <2>. QED  BY <1>6, <2>1
<1>8. ASSUME NEW d \in 1..(n - 1), d - 1 \in P PROVE d \in P
  <2>. HIDE DEF got
  <2>. SUFFICES ASSUME NEW low \in 1..n, NEW high \in 1..n, low <= high, high - low <= d, fits[high]
                PROVE  got(low, high)
    <3>1. d \in Nat
      OBVIOUS
    <3>. QED  BY <3>1
  <2>. USE DEF got
  <2>0. \A x, y \in 1..n : x <= y /\ y - x <= d - 1 /\ fits[y] => got(x, y)
    <3>. HIDE DEF got
    <3>. QED  BY <1>8
  <2>1. CASE low = high
    BY <1>6, <2>1
  <2>2. CASE low # high
    <3>. DEFINE middle == (low + high) \div 2
    <3>1. /\ low < high /\ middle \in 1..n /\ middle + 1 \in 1..n
          /\ low <= middle /\ middle < high
      BY <2>2
    <3>. HIDE DEF middle
    <3>2. h[<<low, high>>] = IF fits[middle] THEN h[<<low, middle>>] ELSE h[<<middle + 1, high>>]
      <4>1. h[<<low, high>>] = Halves(fits, h, <<low, high>>)
        BY <1>5
      <4>2. <<low, high>>[1] = low /\ <<low, high>>[2] = high /\ ~(low >= high)
        BY <3>1
      <4>. QED  BY <4>1, <4>2 DEF Halves, middle
    <3>3. CASE fits[middle]
      <4>1. got(low, middle)
        <5>1. middle - low <= d - 1
          BY <3>1
        <5>. HIDE DEF got
        <5>. QED  BY <2>0, <3>1, <3>3, <5>1
      <4>2. h[<<low, high>>] = h[<<low, middle>>]
        BY <3>2, <3>3
      <4>. QED  BY <4>1, <4>2
    <3>4. CASE ~fits[middle]
      <4>1. got(middle + 1, high)
        <5>1. high - (middle + 1) <= d - 1 /\ middle + 1 <= high
          BY <3>1
        <5>. HIDE DEF got
        <5>. QED  BY <2>0, <3>1, <5>1
      <4>2. h[<<low, high>>] = h[<<middle + 1, high>>]
        BY <3>2, <3>4
      <4>. QED  BY <4>1, <4>2
    <3>. QED  BY <3>3, <3>4
  <2>. QED  BY <2>1, <2>2
<1>9. n - 1 \in P
  <2>1. n - 1 \in Nat
    OBVIOUS
  <2>. HIDE DEF P
  <2>. QED  BY <1>7, <1>8, <2>1, UpTo
<1>10. got(1, n)
  <2>1. 1 \in 1..n /\ n \in 1..n /\ 1 <= n /\ n - 1 <= n - 1
    OBVIOUS
  <2>. HIDE DEF got
  <2>. QED  BY <1>9, <2>1
<1>. QED  BY <1>2, <1>10

-----------------------------------------------------------------------------
(* Calls and their outputs                                                     *)

\* Every call has one output, and every output one call.
Answered(items) ==
    /\ \A i \in DOMAIN items : items[i].kind = "call" => \E j \in DOMAIN items : Joins(items, i, j)
    /\ \A j \in DOMAIN items : items[j].kind = "output" => \E i \in DOMAIN items : Joins(items, i, j)
    /\ \A i, j \in DOMAIN items :
          items[i].kind \in Tools /\ items[i].kind = items[j].kind /\ items[i].pair = items[j].pair
              => i = j

\* Between a call and its output there are calls, and then outputs.
Together(items) ==
    \A i, j \in DOMAIN items : Joins(items, i, j) =>
        \E last \in i..(j - 1) : \A k \in i..j :
            items[k].kind = IF k <= last THEN "call" ELSE "output"

\* No call before n + 1 has its output after n.
Uncut(items, n) == \A i, j : Joins(items, i, j) => (i <= n <=> j <= n)
\* A call is among some indices if and only if its output is.
PairsClosed(items, indices) == \A i, j : Joins(items, i, j) => (i \in indices <=> j \in indices)

\* Calls and outputs, one for the other, and by their places.
LEMMA AnsweredPairs ==
    ASSUME NEW items \in Seq(Entries), Answered(items)
    PROVE  /\ \A i, j : Joins(items, i, j) =>
                 /\ i \in 1..Len(items) /\ j \in 1..Len(items) /\ i < j
                 /\ items[i].kind = "call" /\ items[j].kind = "output"
                 /\ items[i].pair = items[j].pair
           /\ \A i, j, k : Joins(items, i, j) /\ Joins(items, k, j) => i = k
           /\ \A i, j, k : Joins(items, i, j) /\ Joins(items, i, k) => j = k
           /\ \A i \in 1..Len(items) : items[i].kind = "call" => \E j : Joins(items, i, j)
           /\ \A j \in 1..Len(items) : items[j].kind = "output" => \E i : Joins(items, i, j)
           /\ Outputs(items) = {j \in 1..Len(items) : items[j].kind = "output"}
           /\ DOMAIN Pairs(items) = Outputs(items)
           /\ \A j \in Outputs(items) : Joins(items, Pairs(items)[j], j)
           /\ \A i, j : Joins(items, i, j) => j \in Outputs(items) /\ Pairs(items)[j] = i
           /\ PairedIndices(items) = {i \in 1..Len(items) : items[i].kind \in Tools}
<1>. DEFINE n == Len(items)
<1>0. DOMAIN items = 1..n
  OBVIOUS
<1>1. \A i, j : Joins(items, i, j) =>
         /\ i \in 1..n /\ j \in 1..n /\ i < j
         /\ items[i].kind = "call" /\ items[j].kind = "output"
         /\ items[i].pair = items[j].pair
  BY <1>0 DEF Joins
<1>2. ASSUME NEW i, NEW j, NEW k, Joins(items, i, j), Joins(items, k, j) PROVE i = k
  <2>1. /\ i \in 1..n /\ k \in 1..n /\ items[i].kind \in Tools
        /\ items[i].kind = items[k].kind /\ items[i].pair = items[k].pair
    BY <1>1, <1>2 DEF Tools
  <2>. QED  BY <1>0, <2>1 DEF Answered
<1>3. ASSUME NEW i, NEW j, NEW k, Joins(items, i, j), Joins(items, i, k) PROVE j = k
  <2>1. /\ j \in 1..n /\ k \in 1..n /\ items[j].kind \in Tools
        /\ items[j].kind = items[k].kind /\ items[j].pair = items[k].pair
    BY <1>1, <1>3 DEF Tools
  <2>. QED  BY <1>0, <2>1 DEF Answered
<1>4. /\ \A i \in 1..n : items[i].kind = "call" => \E j : Joins(items, i, j)
      /\ \A j \in 1..n : items[j].kind = "output" => \E i : Joins(items, i, j)
  BY <1>0 DEF Answered
<1>5. Outputs(items) = {j \in 1..n : items[j].kind = "output"}
  BY <1>0 DEF Outputs
<1>6. DOMAIN Pairs(items) = {j \in DOMAIN items : \E i \in DOMAIN items : Joins(items, i, j)}
  BY DEF Pairs
<1>7. DOMAIN Pairs(items) = Outputs(items)
  BY <1>0, <1>1, <1>4, <1>5, <1>6
<1>8. ASSUME NEW j \in Outputs(items) PROVE Joins(items, Pairs(items)[j], j)
  <2>1. Pairs(items)[j] = CHOOSE i \in DOMAIN items : Joins(items, i, j)
    BY <1>6, <1>7 DEF Pairs
  <2>2. \E i \in DOMAIN items : Joins(items, i, j)
    BY <1>6, <1>7
  <2>. QED  BY <2>1, <2>2
<1>9. \A i, j : Joins(items, i, j) => j \in Outputs(items) /\ Pairs(items)[j] = i
  BY <1>1, <1>2, <1>5, <1>8
<1>10. PairedIndices(items) = {i \in 1..n : items[i].kind \in Tools}
  <2>1. ASSUME NEW i \in PairedIndices(items) PROVE i \in 1..n /\ items[i].kind \in Tools
    <3>1. i \in Outputs(items) \/ \E j \in Outputs(items) : i = Pairs(items)[j]
      BY <1>7 DEF PairedIndices
    <3>. QED  BY <1>1, <1>5, <1>8, <3>1 DEF Tools
  <2>2. ASSUME NEW i \in 1..n, items[i].kind \in Tools PROVE i \in PairedIndices(items)
    <3>1. CASE items[i].kind = "output"
      BY <1>5, <1>7, <3>1 DEF PairedIndices
    <3>2. CASE items[i].kind = "call"
      <4>1. PICK j : Joins(items, i, j)
        BY <1>4, <3>2
      <4>. QED  BY <1>7, <1>9, <4>1 DEF PairedIndices
    <3>. QED  BY <2>2, <3>1, <3>2 DEF Tools
  <2>. QED  BY <2>1, <2>2
<1>. QED  BY <1>1, <1>2, <1>3, <1>4, <1>5, <1>7, <1>8, <1>9, <1>10

\* As Selects, but what an item costs may have changed.
MadeOf(part, items, indices, p) ==
    /\ p \in [1..Len(part) -> 1..Len(items)]
    /\ \A a, b \in 1..Len(part) : a < b => p[a] < p[b]
    /\ \A a \in 1..Len(part) : /\ part[a].id = items[p[a]].id
                               /\ part[a].kind = items[p[a]].kind
                               /\ part[a].pair = items[p[a]].pair
    /\ {p[a] : a \in 1..Len(part)} = indices

\* What is selected is carried.
LEMMA SelectsCarries ==
    ASSUME NEW part, NEW items, NEW I, NEW p, Selects(part, items, I, p)
    PROVE  MadeOf(part, items, I, p)
BY DEF Selects, MadeOf

\* Places in a selection are ordered as the places it is made from.
LEMMA PlacesOrdered ==
    ASSUME NEW part \in Seq(Entries), NEW items \in Seq(Entries), NEW I, NEW p, MadeOf(part, items, I, p)
    PROVE  /\ \A a \in 1..Len(part) : p[a] \in I /\ p[a] \in 1..Len(items)
           /\ \A a, b \in 1..Len(part) : a < b <=> p[a] < p[b]
           /\ \A a, b \in 1..Len(part) : p[a] = p[b] => a = b
           /\ \A i \in I : i \in 1..Len(items) /\ \E a \in 1..Len(part) : p[a] = i
<1>. DEFINE n == Len(items)
            m == Len(part)
<1>1. n \in Nat /\ m \in Nat
  OBVIOUS
<1>2. /\ p \in [1..m -> 1..n]
      /\ \A a, b \in 1..m : a < b => p[a] < p[b]
      /\ {p[a] : a \in 1..m} = I
  BY DEF MadeOf
<1>. HIDE DEF n, m
<1>3. \A a \in 1..m : p[a] \in I /\ p[a] \in 1..n
  BY <1>2
<1>4. \A a, b \in 1..m : p[a] \in Nat /\ p[b] \in Nat /\ (a < b \/ a = b \/ b < a)
  BY <1>1, <1>3
<1>5. \A a, b \in 1..m : a < b <=> p[a] < p[b]
  BY <1>2, <1>4
<1>6. \A a, b \in 1..m : p[a] = p[b] => a = b
  BY <1>2, <1>4
<1>7. \A i \in I : i \in 1..n /\ \E a \in 1..m : p[a] = i
  BY <1>2, <1>3
<1>. QED  BY <1>3, <1>5, <1>6, <1>7 DEF n, m

\* Calls and outputs that are carried together stay joined.
LEMMA CarriedAnswered ==
    ASSUME NEW part \in Seq(Entries), NEW items \in Seq(Entries), NEW I, NEW p,
           MadeOf(part, items, I, p), Answered(items), PairsClosed(items, I)
    PROVE  /\ Answered(part)
           /\ \A a, b \in 1..Len(part) : Joins(part, a, b) <=> Joins(items, p[a], p[b])
<1>. DEFINE n == Len(items)
            m == Len(part)
<1>0. n \in Nat /\ m \in Nat /\ DOMAIN items = 1..n /\ DOMAIN part = 1..m
  OBVIOUS
<1>1. /\ \A a \in 1..m : p[a] \in I /\ p[a] \in 1..n
      /\ \A a, b \in 1..m : a < b <=> p[a] < p[b]
      /\ \A a, b \in 1..m : p[a] = p[b] => a = b
      /\ \A i \in I : i \in 1..n /\ \E a \in 1..m : p[a] = i
  BY PlacesOrdered
<1>2. \A a \in 1..m : part[a].kind = items[p[a]].kind /\ part[a].pair = items[p[a]].pair
  BY DEF MadeOf
<1>. HIDE DEF n, m
<1>3. \A a, b \in 1..m : Joins(part, a, b) <=> Joins(items, p[a], p[b])
  BY <1>0, <1>1, <1>2 DEF Joins
<1>4. ASSUME NEW a \in 1..m, part[a].kind = "call" PROVE \E b \in 1..m : Joins(part, a, b)
  <2>1. PICK j : Joins(items, p[a], j)
    BY <1>0, <1>1, <1>2, <1>4 DEF Answered
  <2>2. j \in I
    BY <1>1, <2>1 DEF PairsClosed
  <2>3. PICK b \in 1..m : p[b] = j
    BY <1>1, <2>2
  <2>. QED  BY <1>3, <2>1, <2>3
<1>5. ASSUME NEW b \in 1..m, part[b].kind = "output" PROVE \E a \in 1..m : Joins(part, a, b)
  <2>1. PICK i : Joins(items, i, p[b])
    BY <1>0, <1>1, <1>2, <1>5 DEF Answered
  <2>2. i \in I
    BY <1>1, <2>1 DEF PairsClosed
  <2>3. PICK a \in 1..m : p[a] = i
    BY <1>1, <2>2
  <2>. QED  BY <1>3, <2>1, <2>3
<1>6. \A a, b \in 1..m :
          part[a].kind \in Tools /\ part[a].kind = part[b].kind /\ part[a].pair = part[b].pair => a = b
  <2>. SUFFICES ASSUME NEW a \in 1..m, NEW b \in 1..m, part[a].kind \in Tools,
                       part[a].kind = part[b].kind, part[a].pair = part[b].pair
                PROVE  a = b
    OBVIOUS
  <2>. PICK x, y : x = p[a] /\ y = p[b]
    OBVIOUS
  <2>2. /\ x \in 1..n /\ y \in 1..n
        /\ items[x].kind \in Tools /\ items[x].kind = items[y].kind /\ items[x].pair = items[y].pair
    BY <1>1, <1>2
  <2>3. \A i, j \in 1..n : items[i].kind \in Tools /\ items[i].kind = items[j].kind /\ items[i].pair = items[j].pair
                           => i = j
    BY <1>0 DEF Answered
  <2>1. p[a] = p[b]
    BY <2>2, <2>3
  <2>. QED  BY <1>1, <2>1
<1>. QED  BY <1>0, <1>3, <1>4, <1>5, <1>6 DEF Answered, m

-----------------------------------------------------------------------------
(* The active turn                                                             *)

\* Where the active turn of a transcript begins, and what it has.
TurnShaped(items) ==
    LET picked == ActiveIndices(items)
        first == First0(picked)
    IN  /\ picked \in SUBSET (1..Len(items)) /\ first \in picked /\ \A i \in picked : first <= i
        /\ Uncut(items, first - 1)
        /\ PairsClosed(items, picked)
        /\ Users(items) # {} => first = Last0(Users(items))

\* The turn of a user: nothing joined goes over it.
LEMMA TurnOfUser ==
    ASSUME NEW items \in Seq(Entries), Answered(items), Together(items), Users(items) # {}
    PROVE  TurnShaped(items)
<1>. DEFINE n == Len(items)
            user == Last0(Users(items))
            after == SubSeq(items, user + 1, n)
            picked == ActiveIndices(items)
<1>0. n \in Nat /\ DOMAIN items = 1..n
  OBVIOUS
<1>1. Users(items) \in SUBSET (1..n)
  BY <1>0 DEF Users
<1>2. user \in 1..n /\ items[user].kind \in {"user", "image"}
  <2>1. user \in Users(items)
    BY <1>0, <1>1, LastOf
  <2>. QED  BY <1>0, <2>1 DEF Users
<1>3. /\ \A i, j : Joins(items, i, j) =>
            /\ i \in 1..n /\ j \in 1..n /\ i < j
            /\ items[i].kind = "call" /\ items[j].kind = "output"
  BY AnsweredPairs
<1>4. ASSUME NEW i, NEW j, Joins(items, i, j) PROVE (i <= user <=> j <= user) /\ i # user /\ j # user
  <2>1. i \in 1..n /\ j \in 1..n /\ i < j /\ items[i].kind = "call" /\ items[j].kind = "output"
    BY <1>3, <1>4
  <2>2. i # user /\ j # user
    BY <1>2, <2>1
  <2>3. ~(i <= user /\ user <= j)
    <3>. SUFFICES ASSUME i <= user, user <= j PROVE FALSE
      OBVIOUS
    <3>1. user \in i..j
      BY <1>2, <2>1
    <3>2. items[user].kind \in {"call", "output"}
      BY <1>0, <1>4, <2>1, <3>1 DEF Together
    <3>. QED  BY <1>2, <3>2
  <2>4. user \in Nat /\ i \in Nat /\ j \in Nat
    BY <1>2, <2>1
  <2>. HIDE DEF user, n
  <2>. QED  BY <2>1, <2>2, <2>3, <2>4
<1>. HIDE DEF n, user
<1>5. PairsClosed(items, (user + 1)..n)
  <2>. SUFFICES ASSUME NEW i, NEW j, Joins(items, i, j) PROVE i \in (user + 1)..n <=> j \in (user + 1)..n
    BY DEF PairsClosed
  <2>1. i \in 1..n /\ j \in 1..n /\ (i <= user <=> j <= user)
    BY <1>3, <1>4
  <2>. QED  BY <1>0, <1>2, <2>1
<1>6. /\ after \in Seq(Entries) /\ Len(after) = n - user
      /\ \A a \in 1..(n - user) : after[a] = items[a + user]
      /\ Selects(after, items, (user + 1)..n, [a \in 1..(n - user) |-> a + user])
  <2>1. user \in 0..n /\ Beyond(items, user) = after
    BY <1>0, <1>2 DEF Beyond, n
  <2>. QED  BY <2>1, EndSelected DEF n
<1>7. Answered(after)
  <2>. HIDE DEF after
  <2>1. PICK p : Selects(after, items, (user + 1)..n, p)
    BY <1>6
  <2>2. MadeOf(after, items, (user + 1)..n, p)
    BY <2>1, SelectsCarries
  <2>. QED  BY <1>5, <1>6, <2>2, CarriedAnswered
<1>8. PairedIndices(after) = {a \in 1..(n - user) : after[a].kind \in Tools}
  <2>. HIDE DEF after
  <2>1. PairedIndices(after) = {a \in 1..Len(after) : after[a].kind \in Tools}
    BY <1>6, <1>7, AnsweredPairs
  <2>. QED  BY <1>6, <2>1
<1>9. picked = {user} \union {i \in (user + 1)..n :
                               i - user \in PairedIndices(after) \/ items[i].kind = "answer"}
  BY DEF ActiveIndices, n, user
<1>10. picked = {user} \union {i \in (user + 1)..n : items[i].kind \in Tools \union {"answer"}}
  <2>1. \A i \in (user + 1)..n : i - user \in PairedIndices(after) <=> items[i].kind \in Tools
    <3>. TAKE i \in (user + 1)..n
    <3>1. i - user \in 1..(n - user) /\ (i - user) + user = i
      BY <1>0, <1>2
    <3>. QED  BY <1>6, <1>8, <3>1
  <2>. HIDE DEF after, picked
  <2>. QED  BY <1>9, <2>1
<1>. HIDE DEF after, picked
<1>11. picked \in SUBSET (1..n) /\ user \in picked /\ \A i \in picked : user <= i
  BY <1>0, <1>2, <1>10
<1>12. First0(picked) = user
  <2>1. First0(picked) \in picked /\ \A i \in picked : First0(picked) <= i
    <3>1. picked \in SUBSET Nat /\ picked # {}
      BY <1>0, <1>11
    <3>. QED  BY <3>1, FirstOf
  <2>2. First0(picked) \in 1..n
    BY <1>11, <2>1
  <2>3. First0(picked) <= user /\ user <= First0(picked)
    BY <1>11, <2>1
  <2>. QED  BY <1>0, <1>2, <2>2, <2>3
<1>13. PairsClosed(items, picked)
  <2>. SUFFICES ASSUME NEW i, NEW j, Joins(items, i, j) PROVE i \in picked <=> j \in picked
    BY DEF PairsClosed
  <2>1. i \in (user + 1)..n <=> j \in (user + 1)..n
    BY <1>5 DEF PairsClosed
  <2>2. items[i].kind \in Tools /\ items[j].kind \in Tools /\ i # user /\ j # user
    BY <1>3, <1>4 DEF Tools
  <2>. QED  BY <1>10, <2>1, <2>2
<1>14. Uncut(items, user - 1)
  <2>. SUFFICES ASSUME NEW i, NEW j, Joins(items, i, j) PROVE i <= user - 1 <=> j <= user - 1
    BY DEF Uncut
  <2>1. i \in 1..n /\ j \in 1..n /\ (i <= user <=> j <= user) /\ i # user /\ j # user
    BY <1>3, <1>4
  <2>. QED  BY <1>0, <1>2, <2>1
<1>. QED  BY <1>11, <1>12, <1>13, <1>14 DEF TurnShaped, picked, n, user

\* Without a user, the last outputs with nothing between.
LEMMA CompletedIs ==
    ASSUME NEW items \in Seq(Entries), Answered(items), Users(items) = {}
    PROVE  /\ Completed(items) = {i \in Outputs(items) : i..Last0(Outputs(items)) \subseteq Outputs(items)}
           /\ \A i : i \in ActiveIndices(items) <=>
                \/ i \in Completed(items)
                \/ \E j \in Completed(items) : Joins(items, i, j)
           /\ Outputs(items) # {} =>
                 /\ Last0(Outputs(items)) \in Completed(items)
                 /\ \A i \in Outputs(items) : i <= Last0(Outputs(items))
<1>1. /\ Outputs(items) = {j \in 1..Len(items) : items[j].kind = "output"}
      /\ DOMAIN Pairs(items) = Outputs(items)
      /\ \A j \in Outputs(items) : Joins(items, Pairs(items)[j], j)
      /\ \A i, j : Joins(items, i, j) => j \in Outputs(items) /\ Pairs(items)[j] = i
  BY AnsweredPairs
<1>2. Completed(items) = {i \in Outputs(items) : i..Last0(Outputs(items)) \subseteq Outputs(items)}
  BY <1>1 DEF Completed
<1>3. ActiveIndices(items) = Completed(items) \union {Pairs(items)[i] : i \in Completed(items)}
  BY DEF ActiveIndices
<1>4. \A j \in Completed(items) : j \in Outputs(items)
  BY <1>2
<1>5. \A i : i \in ActiveIndices(items) <=>
         \/ i \in Completed(items)
         \/ \E j \in Completed(items) : Joins(items, i, j)
  BY <1>1, <1>3, <1>4
<1>6. ASSUME Outputs(items) # {}
      PROVE  /\ Last0(Outputs(items)) \in Completed(items)
             /\ \A i \in Outputs(items) : i <= Last0(Outputs(items))
  <2>1. Len(items) \in Nat /\ Outputs(items) \in SUBSET (1..Len(items))
    BY <1>1
  <2>2. Last0(Outputs(items)) \in Outputs(items) /\ \A i \in Outputs(items) : i <= Last0(Outputs(items))
    BY <1>6, <2>1, LastOf
  <2>3. Last0(Outputs(items)) \in Nat
    BY <2>1, <2>2
  <2>4. Last0(Outputs(items))..Last0(Outputs(items)) = {Last0(Outputs(items))}
    BY <2>3
  <2>. QED  BY <1>2, <2>2, <2>4
<1>. QED  BY <1>2, <1>5, <1>6

\* The turn of a tool loop: no calls but its own have outputs in it.
LEMMA TurnOfLoop ==
    ASSUME NEW items \in Seq(Entries), Answered(items), Together(items), Users(items) = {},
           Outputs(items) # {}
    PROVE  /\ TurnShaped(items)
           /\ \E j \in Completed(items) : Joins(items, First0(ActiveIndices(items)), j)
<1>. DEFINE n == Len(items)
            last == Last0(Outputs(items))
            picked == ActiveIndices(items)
            first == First0(picked)
<1>0. n \in Nat /\ DOMAIN items = 1..n
  OBVIOUS
<1>1. /\ \A i, j : Joins(items, i, j) =>
            /\ i \in 1..n /\ j \in 1..n /\ i < j
            /\ items[i].kind = "call" /\ items[j].kind = "output"
            /\ j \in Outputs(items)
      /\ \A i, j, k : Joins(items, i, j) /\ Joins(items, k, j) => i = k
      /\ \A i, j, k : Joins(items, i, j) /\ Joins(items, i, k) => j = k
      /\ \A j \in Outputs(items) : \E i : Joins(items, i, j)
      /\ Outputs(items) = {j \in 1..n : items[j].kind = "output"}
  BY AnsweredPairs
<1>2. /\ Completed(items) = {i \in Outputs(items) : i..last \subseteq Outputs(items)}
      /\ \A i : i \in picked <=>
            \/ i \in Completed(items)
            \/ \E j \in Completed(items) : Joins(items, i, j)
      /\ last \in Completed(items)
      /\ \A i \in Outputs(items) : i <= last
  BY CompletedIs
<1>. HIDE DEF n, last, picked
<1>3. last \in 1..n /\ \A j \in Completed(items) : j \in 1..n /\ j \in Outputs(items)
  BY <1>1, <1>2
<1>4. picked \in SUBSET (1..n)
  BY <1>1, <1>2, <1>3
<1>5. first \in picked /\ first \in 1..n /\ \A i \in picked : first <= i
  <2>1. picked \in SUBSET Nat /\ picked # {}
    BY <1>0, <1>2, <1>4
  <2>. HIDE DEF first
  <2>2. first \in picked /\ \A i \in picked : first <= i
    BY <2>1, FirstOf DEF first
  <2>. QED  BY <1>4, <2>2
<1>. HIDE DEF first
<1>6. PICK d \in Completed(items) : Joins(items, first, d)
  <2>1. CASE first \in Completed(items)
    <3>1. PICK i : Joins(items, i, first)
      BY <1>1, <1>3, <2>1
    <3>2. i \in picked /\ i < first /\ i \in 1..n
      BY <1>1, <1>2, <2>1, <3>1
    <3>3. first <= i
      BY <1>5, <3>2
    <3>. QED  BY <1>5, <3>2, <3>3
  <2>2. CASE first \notin Completed(items)
    BY <1>2, <1>5, <2>2
  <2>. QED  BY <2>1, <2>2
<1>7. PairsClosed(items, picked)
  <2>. SUFFICES ASSUME NEW i, NEW j, Joins(items, i, j) PROVE i \in picked <=> j \in picked
    BY DEF PairsClosed
  <2>1. ASSUME i \in picked PROVE j \in picked
    <3>1. i \notin Completed(items)
      BY <1>1, <1>3
    <3>2. PICK k \in Completed(items) : Joins(items, i, k)
      BY <1>2, <2>1, <3>1
    <3>. QED  BY <1>1, <1>2, <3>2
  <2>2. ASSUME j \in picked PROVE i \in picked
    <3>1. ~\E k : Joins(items, j, k)
      BY <1>1
    <3>2. j \in Completed(items)
      BY <1>2, <2>2, <3>1
    <3>. QED  BY <1>2, <3>2
  <2>. QED  BY <2>1, <2>2
<1>8. Uncut(items, first - 1)
  <2>. SUFFICES ASSUME NEW i, NEW j, Joins(items, i, j), ~(i <= first - 1 <=> j <= first - 1)
                PROVE  FALSE
    BY DEF Uncut
  <2>1. i \in 1..n /\ j \in 1..n /\ i < j /\ items[j].kind = "output" /\ j \in Outputs(items)
    BY <1>1
  <2>2. d \in 1..n /\ first < d /\ items[d].kind = "output" /\ items[first].kind = "call" /\ d \in Outputs(items)
    BY <1>1, <1>6
  <2>3. i < first /\ first <= j
    BY <1>5, <2>1
  <2>4. j \in Completed(items)
    <3>0. d..last \subseteq Outputs(items) /\ j <= last /\ d <= last
      BY <1>2, <2>1, <2>2
    <3>1. CASE d <= j
      <4>1. j..last \subseteq d..last
        BY <1>3, <2>1, <2>2, <3>1
      <4>. QED  BY <1>2, <2>1, <3>0, <4>1
    <3>2. CASE j < d
      <4>1. PICK z \in first..(d - 1) : \A k \in first..d : items[k].kind = IF k <= z THEN "call" ELSE "output"
        BY <1>0, <1>5, <1>6, <2>2 DEF Together
      <4>2. j \in first..d
        BY <1>5, <2>1, <2>2, <2>3, <3>2
      <4>3. ~(j <= z)
        BY <2>1, <4>1, <4>2
      <4>4. ASSUME NEW k \in j..d PROVE k \in Outputs(items)
        <5>0. /\ first \in Nat /\ first >= 1 /\ j \in Nat /\ d \in Nat /\ d <= n /\ z \in Int
              /\ first <= j /\ k \in Int /\ j <= k /\ k <= d /\ z < j
          BY <1>0, <1>5, <2>1, <2>2, <2>3, <4>3
        <5>1. k \in first..d /\ ~(k <= z) /\ k \in 1..n
          BY <1>0, <5>0
        <5>2. items[k].kind = "output"
          BY <4>1, <5>1
        <5>. QED  BY <1>1, <5>1, <5>2
      <4>5. \A k \in j..last : k \in j..d \/ k \in d..last
        BY <1>3, <2>1, <2>2
      <4>6. j..last \subseteq Outputs(items)
        BY <3>0, <4>4, <4>5
      <4>. QED  BY <1>2, <2>1, <4>6
    <3>. QED  BY <2>1, <2>2, <3>1, <3>2
  <2>5. i \in picked
    BY <1>2, <2>4
  <2>6. first <= i
    BY <1>5, <2>5
  <2>. QED  BY <1>5, <2>1, <2>3, <2>6
<1>9. TurnShaped(items)
  BY <1>4, <1>5, <1>7, <1>8 DEF TurnShaped, n, picked, first
<1>. QED  BY <1>6, <1>9 DEF picked, first

\* A turn that there is, is of a user or of a tool loop.
LEMMA TurnIs ==
    ASSUME NEW items \in Seq(Entries), Answered(items), Together(items), ActiveIndices(items) # {}
    PROVE  TurnShaped(items)
<1>1. CASE Users(items) # {}
  BY <1>1, TurnOfUser
<1>2. CASE Users(items) = {}
  <2>1. Outputs(items) # {}
    BY <1>2, CompletedIs
  <2>. QED  BY <1>2, <2>1, TurnOfLoop
<1>. QED  BY <1>1, <1>2

\* What is joined at the beginning of a transcript.
LEMMA BeginningJoins ==
    ASSUME NEW s \in Seq(Entries), NEW t \in Seq(Entries), Len(s) <= Len(t), Alike(Len(s), s, t)
    PROVE  \A i, j : j <= Len(s) => (Joins(s, i, j) <=> Joins(t, i, j))
<1>. DEFINE n == Len(s)
            m == Len(t)
<1>1. n \in Nat /\ m \in Nat /\ n <= m /\ DOMAIN s = 1..n /\ DOMAIN t = 1..m
  OBVIOUS
<1>2. \A i \in 1..n : s[i] = t[i]
  BY DEF Alike
<1>. HIDE DEF n, m
<1>3. \A i, j : j <= n => (Joins(s, i, j) <=> Joins(t, i, j))
  <2>. SUFFICES ASSUME NEW i, NEW j, j <= n PROVE Joins(s, i, j) <=> Joins(t, i, j)
    OBVIOUS
  <2>1. ASSUME i \in 1..m, j \in 1..m, i < j PROVE i \in 1..n /\ j \in 1..n
    BY <1>1, <2>1
  <2>2. ASSUME i \in 1..n, j \in 1..n PROVE s[i] = t[i] /\ s[j] = t[j] /\ i \in 1..m /\ j \in 1..m
    BY <1>1, <1>2, <2>2
  <2>. QED  BY <1>1, <2>1, <2>2 DEF Joins
<1>. QED  BY <1>3 DEF n

\* As a transcript grows its active turn begins no earlier.
LEMMA TurnGoesOn ==
    ASSUME NEW s \in Seq(Entries), Answered(s), Together(s),
           NEW t \in Seq(Entries), Answered(t), Together(t),
           Len(s) <= Len(t), Alike(Len(s), s, t), Uncut(t, Len(s)), ActiveIndices(s) # {}
    PROVE  ActiveIndices(t) # {} /\ First0(ActiveIndices(s)) <= First0(ActiveIndices(t))
<1>. DEFINE n == Len(s)
            m == Len(t)
            f == First0(ActiveIndices(s))
            g == First0(ActiveIndices(t))
<1>0. n \in Nat /\ m \in Nat /\ n <= m /\ DOMAIN s = 1..n /\ DOMAIN t = 1..m
  OBVIOUS
<1>1. \A i \in 1..n : s[i] = t[i] /\ i \in 1..m
  BY <1>0 DEF Alike
<1>2. TurnShaped(s)
  BY TurnIs
<1>3. /\ f \in ActiveIndices(s) /\ f \in 1..n /\ \A i \in ActiveIndices(s) : f <= i
      /\ Users(s) # {} => f = Last0(Users(s))
  BY <1>2 DEF TurnShaped
<1>4. Users(s) = {i \in 1..n : s[i].kind \in {"user", "image"}} /\ Users(t) = {i \in 1..m : t[i].kind \in {"user", "image"}}
  BY <1>0 DEF Users
<1>5. \A i, j : j <= n => (Joins(s, i, j) <=> Joins(t, i, j))
  BY BeginningJoins
<1>6. CASE Users(t) # {}
  <2>1. TurnShaped(t)
    BY <1>6, TurnOfUser
  <2>2. g = Last0(Users(t)) /\ g \in ActiveIndices(t)
    BY <1>6, <2>1 DEF TurnShaped
  <2>3. g \in Users(t) /\ \A i \in Users(t) : i <= g
    <3>1. Users(t) \in SUBSET (1..m)
      BY <1>4
    <3>. HIDE DEF g
    <3>. QED  BY <1>0, <1>6, <2>2, <3>1, LastOf
  <2>4. CASE Users(s) # {}
    <3>1. Users(s) \in SUBSET (1..n)
      BY <1>4
    <3>2. f \in Users(s)
      BY <1>0, <1>3, <2>4, <3>1, LastOf
    <3>3. f \in Users(t)
      BY <1>1, <1>4, <3>2
    <3>. QED  BY <2>2, <2>3, <3>3
  <2>5. CASE Users(s) = {}
    <3>1. g \in 1..m /\ ~(g \in 1..n)
      BY <1>1, <1>4, <2>3, <2>5
    <3>2. f <= g
      <4>. HIDE DEF f, g, n, m
      <4>. QED  BY <1>0, <1>3, <3>1
    <3>. QED  BY <2>2, <3>2
  <2>. QED  BY <2>4, <2>5
<1>7. CASE Users(t) = {}
  <2>0. Users(s) = {}
    BY <1>1, <1>4, <1>7
  <2>. DEFINE ls == Last0(Outputs(s))
              lt == Last0(Outputs(t))
  <2>1. Outputs(s) = {i \in 1..n : s[i].kind = "output"} /\ Outputs(t) = {i \in 1..m : t[i].kind = "output"}
    BY <1>0 DEF Outputs
  <2>2. Outputs(s) # {}
    BY <2>0, CompletedIs
  <2>3. Outputs(s) \subseteq Outputs(t) /\ \A i \in Outputs(t) : i <= n => i \in Outputs(s)
    BY <1>0, <1>1, <2>1
  <2>4. Outputs(t) # {}
    BY <2>2, <2>3
  <2>5. /\ Completed(s) = {i \in Outputs(s) : i..ls \subseteq Outputs(s)}
        /\ \A i : i \in ActiveIndices(s) <=>
              \/ i \in Completed(s)
              \/ \E j \in Completed(s) : Joins(s, i, j)
        /\ ls \in Completed(s) /\ \A i \in Outputs(s) : i <= ls
    BY <2>0, <2>2, CompletedIs
  <2>6. /\ Completed(t) = {i \in Outputs(t) : i..lt \subseteq Outputs(t)}
        /\ lt \in Completed(t) /\ \A i \in Outputs(t) : i <= lt
    BY <1>7, <2>4, CompletedIs
  <2>7. TurnShaped(t) /\ \E j \in Completed(t) : Joins(t, g, j)
    BY <1>7, <2>4, TurnOfLoop
  <2>8. PICK d \in Completed(t) : Joins(t, g, d)
    BY <2>7
  <2>9. /\ \A i, j : Joins(t, i, j) => i \in 1..m /\ j \in 1..m /\ i < j
        /\ \A j \in 1..m : t[j].kind = "output" => \E i : Joins(t, i, j)
    BY AnsweredPairs
  <2>10. g \in ActiveIndices(t)
    BY <2>7 DEF TurnShaped
  <2>. HIDE DEF f, g, n, m, ls, lt
  <2>11. g \in 1..m /\ d \in 1..m /\ g < d /\ d \in Outputs(t) /\ d..lt \subseteq Outputs(t)
    BY <2>6, <2>8, <2>9
  <2>12. lt \in Outputs(t) /\ lt \in 1..m /\ ls \in Outputs(s) /\ ls \in 1..n
    BY <2>1, <2>5, <2>6
  <2>13. CASE lt <= n
    <3>1. lt = ls
      <4>1. lt <= ls /\ ls <= lt
        BY <2>3, <2>5, <2>6, <2>12, <2>13
      <4>. QED  BY <2>12, <4>1
    <3>2. d <= lt
      BY <2>6, <2>11
    <3>3. d \in Outputs(s)
      BY <1>0, <2>3, <2>11, <2>12, <2>13, <3>2
    <3>4. \A k \in d..ls : k \in Outputs(s)
      BY <1>0, <2>3, <2>11, <2>12, <3>1
    <3>5. d \in Completed(s) /\ Joins(s, g, d)
      <4>1. d <= n
        BY <2>1, <3>3
      <4>. QED  BY <1>5, <2>5, <2>8, <3>3, <3>4, <4>1 DEF n
    <3>6. g \in ActiveIndices(s)
      BY <2>5, <3>5
    <3>. QED  BY <1>3, <2>10, <3>6 DEF f, g
  <2>14. CASE ~(lt <= n)
    <3>1. ~(d <= n)
      <4>. SUFFICES ASSUME d <= n PROVE FALSE
        OBVIOUS
      <4>1. n + 1 \in d..lt /\ n + 1 \in 1..m
        BY <1>0, <2>11, <2>12, <2>14
      <4>2. t[n + 1].kind = "output"
        BY <2>1, <2>11, <4>1
      <4>3. PICK c : Joins(t, c, n + 1)
        BY <2>9, <4>1, <4>2
      <4>4. c \in 1..m /\ c < n + 1
        BY <2>9, <4>3
      <4>5. c <= n /\ ~(n + 1 <= n)
        BY <1>0, <4>4
      <4>. QED  BY <4>3, <4>5 DEF Uncut, n
    <3>2. ~(g <= n)
      BY <2>8, <3>1 DEF Uncut, n
    <3>3. f <= g
      BY <1>0, <1>3, <2>11, <3>2
    <3>. QED  BY <2>10, <3>3 DEF f, g
  <2>. QED  BY <2>13, <2>14
<1>. QED  BY <1>6, <1>7

-----------------------------------------------------------------------------
(* The transcript                                                              *)

\* The two parts of what the client's transcript is like.
LEMMA AnsweredTogether == \A items : ToolsAnswered(items) <=> Answered(items) /\ Together(items)
BY DEF ToolsAnswered, Answered, Together

Spans(items, i, j) ==
    \E last \in i..(j - 1) : \A k \in i..j : items[k].kind = IF k <= last THEN "call" ELSE "output"

\* A call, what is between, and its output.
LEMMA SpanIs == \A items : Together(items) <=> \A i, j : Joins(items, i, j) => Spans(items, i, j)
<1>1. \A items, i, j : Joins(items, i, j) => i \in DOMAIN items /\ j \in DOMAIN items
  BY DEF Joins
<1>2. \A items : Together(items) <=>
         \A i, j \in DOMAIN items : Joins(items, i, j) => Spans(items, i, j)
  BY DEF Together, Spans
<1>. QED  BY <1>1, <1>2

\* New items with new ids of calls: nothing is joined over where they begin.
LEMMA AddedAnswered ==
    ASSUME NEW s \in Seq(Entries), ToolsAnswered(s), NEW u \in Seq(Entries), ToolsAnswered(u),
           \A i \in 1..Len(s), j \in 1..Len(u) : s[i].kind \in Tools /\ u[j].kind \in Tools => s[i].pair # u[j].pair
    PROVE  ToolsAnswered(s \o u) /\ Uncut(s \o u, Len(s))
<1>. DEFINE n == Len(s)
            k == Len(u)
            t == s \o u
<1>0. /\ n \in Nat /\ k \in Nat /\ t \in Seq(Entries) /\ Len(t) = n + k
      /\ DOMAIN s = 1..n /\ DOMAIN u = 1..k /\ DOMAIN t = 1..(n + k)
      /\ \A i \in 1..n : t[i] = s[i]
      /\ \A i \in 1..k : t[n + i] = u[i]
  OBVIOUS
<1>1. \A i \in 1..n, j \in 1..k : s[i].kind \in Tools /\ u[j].kind \in Tools => s[i].pair # u[j].pair
  OBVIOUS
<1>. HIDE DEF n, k, t
<1>2. \A i \in 1..n : i \in 1..(n + k)
  BY <1>0
<1>3. \A i \in 1..k : n + i \in 1..(n + k) /\ (n + i) - n = i
  BY <1>0
<1>4. \A i \in 1..(n + k) : i \in 1..n \/ (i - n \in 1..k /\ n + (i - n) = i)
  BY <1>0
<1>5. \A i, j \in 1..n : Joins(t, i, j) <=> Joins(s, i, j)
  BY <1>0, <1>2 DEF Joins
<1>6. \A i, j \in 1..k : Joins(t, n + i, n + j) <=> Joins(u, i, j)
  <2>1. \A i, j \in 1..k : n + i < n + j <=> i < j
    BY <1>0
  <2>. QED  BY <1>0, <1>3, <2>1 DEF Joins
<1>7. \A i \in 1..(n + k) : i \in 1..n => t[i] = s[i]
  BY <1>0
<1>8. \A i, j : Joins(t, i, j) =>
         \/ i \in 1..n /\ j \in 1..n
         \/ i - n \in 1..k /\ j - n \in 1..k /\ n + (i - n) = i /\ n + (j - n) = j
  <2>. SUFFICES ASSUME NEW i, NEW j, Joins(t, i, j)
                PROVE  \/ i \in 1..n /\ j \in 1..n
                       \/ i - n \in 1..k /\ j - n \in 1..k /\ n + (i - n) = i /\ n + (j - n) = j
    OBVIOUS
  <2>1. /\ i \in 1..(n + k) /\ j \in 1..(n + k) /\ i < j
        /\ t[i].kind \in Tools /\ t[j].kind \in Tools /\ t[i].pair = t[j].pair
    BY <1>0 DEF Joins, Tools
  <2>2. CASE i \in 1..n /\ j - n \in 1..k /\ n + (j - n) = j
    <3>1. t[i] = s[i] /\ t[j] = u[j - n]
      BY <1>0, <2>2
    <3>2. s[i].kind \in Tools /\ u[j - n].kind \in Tools /\ s[i].pair = u[j - n].pair
      BY <2>1, <3>1
    <3>. QED  BY <1>1, <2>2, <3>2
  <2>3. CASE i - n \in 1..k /\ j \in 1..n
    BY <1>0, <2>1, <2>3
  <2>. QED  BY <1>4, <2>1, <2>2, <2>3
<1>9. Uncut(t, n)
  <2>. SUFFICES ASSUME NEW i, NEW j, Joins(t, i, j) PROVE i <= n <=> j <= n
    BY DEF Uncut
  <2>1. CASE i \in 1..n /\ j \in 1..n
    BY <1>0, <2>1
  <2>2. CASE i - n \in 1..k /\ j - n \in 1..k /\ n + (i - n) = i /\ n + (j - n) = j
    <3>1. i \in 1..(n + k) /\ j \in 1..(n + k)
      BY <1>3, <2>2
    <3>. QED  BY <1>0, <2>2, <3>1
  <2>. QED  BY <1>8, <2>1, <2>2
<1>10. ASSUME NEW i \in 1..(n + k), t[i].kind = "call" PROVE \E j \in 1..(n + k) : Joins(t, i, j)
  <2>1. CASE i \in 1..n
    <3>1. PICK j \in 1..n : Joins(s, i, j)
      BY <1>0, <1>10, <2>1 DEF ToolsAnswered
    <3>. QED  BY <1>2, <1>5, <2>1, <3>1
  <2>2. CASE i - n \in 1..k /\ n + (i - n) = i
    <3>1. t[n + (i - n)] = u[i - n]
      BY <1>0, <2>2
    <3>2. u[i - n].kind = "call"
      BY <1>10, <2>2, <3>1
    <3>3. PICK j \in 1..k : Joins(u, i - n, j)
      BY <1>0, <2>2, <3>2 DEF ToolsAnswered
    <3>4. Joins(t, n + (i - n), n + j)
      BY <1>6, <2>2, <3>3
    <3>. QED  BY <1>3, <2>2, <3>4
  <2>. QED  BY <1>4, <2>1, <2>2
<1>11. ASSUME NEW j \in 1..(n + k), t[j].kind = "output" PROVE \E i \in 1..(n + k) : Joins(t, i, j)
  <2>1. CASE j \in 1..n
    <3>1. PICK i \in 1..n : Joins(s, i, j)
      BY <1>0, <1>11, <2>1 DEF ToolsAnswered
    <3>. QED  BY <1>2, <1>5, <2>1, <3>1
  <2>2. CASE j - n \in 1..k /\ n + (j - n) = j
    <3>1. t[n + (j - n)] = u[j - n]
      BY <1>0, <2>2
    <3>2. u[j - n].kind = "output"
      BY <1>11, <2>2, <3>1
    <3>3. PICK i \in 1..k : Joins(u, i, j - n)
      BY <1>0, <2>2, <3>2 DEF ToolsAnswered
    <3>4. Joins(t, n + i, n + (j - n))
      BY <1>6, <2>2, <3>3
    <3>. QED  BY <1>3, <2>2, <3>4
  <2>. QED  BY <1>4, <2>1, <2>2
<1>12. ASSUME NEW i \in 1..(n + k), NEW j \in 1..(n + k),
              t[i].kind \in Tools, t[i].kind = t[j].kind, t[i].pair = t[j].pair
       PROVE  i = j
  <2>1. CASE i \in 1..n /\ j \in 1..n
    <3>1. t[i] = s[i] /\ t[j] = s[j]
      BY <1>0, <2>1
    <3>. QED  BY <1>0, <1>12, <2>1, <3>1, SMTT(30) DEF ToolsAnswered
  <2>2. CASE i - n \in 1..k /\ n + (i - n) = i /\ j - n \in 1..k /\ n + (j - n) = j
    <3>1. t[i] = u[i - n] /\ t[j] = u[j - n]
      BY <1>0, <2>2
    <3>2. i - n = j - n
      BY <1>0, <1>12, <2>2, <3>1, ZenonT(60) DEF ToolsAnswered
    <3>. QED  BY <2>2, <3>2
  <2>3. CASE i \in 1..n /\ j - n \in 1..k /\ n + (j - n) = j
    <3>1. t[i] = s[i] /\ t[j] = u[j - n]
      BY <1>0, <2>3
    <3>. QED  BY <1>1, <1>12, <2>3, <3>1
  <2>4. CASE j \in 1..n /\ i - n \in 1..k /\ n + (i - n) = i
    <3>1. t[j] = s[j] /\ t[i] = u[i - n]
      BY <1>0, <2>4
    <3>. QED  BY <1>1, <1>12, <2>4, <3>1
  <2>. QED  BY <1>4, <2>1, <2>2, <2>3, <2>4
<1>13. Together(s) /\ Together(u)
  BY AnsweredTogether
<1>14. ASSUME NEW i, NEW j, Joins(t, i, j)
       PROVE  \E last \in i..(j - 1) : \A x \in i..j : t[x].kind = IF x <= last THEN "call" ELSE "output"
  <2>1. CASE i \in 1..n /\ j \in 1..n
    <3>1. PICK last \in i..(j - 1) : \A x \in i..j : s[x].kind = IF x <= last THEN "call" ELSE "output"
      <4>1. Joins(s, i, j)
        BY <1>5, <1>14, <2>1
      <4>. QED  BY <1>13, <4>1, SpanIs DEF Spans
    <3>2. \A x \in i..j : x \in 1..n
      BY <1>0, <2>1
    <3>3. \A x \in i..j : t[x] = s[x]
      BY <1>0, <3>2
    <3>. QED  BY <3>1, <3>3
  <2>2. CASE i - n \in 1..k /\ j - n \in 1..k /\ n + (i - n) = i /\ n + (j - n) = j
    <3>. DEFINE a == i - n
                b == j - n
    <3>0. a \in 1..k /\ b \in 1..k /\ i = n + a /\ j = n + b
      BY <2>2
    <3>. HIDE DEF a, b
    <3>1. Joins(u, a, b)
      BY <1>6, <1>14, <3>0
    <3>2. PICK last \in a..(b - 1) : \A x \in a..b : u[x].kind = IF x <= last THEN "call" ELSE "output"
      BY <1>13, <3>1, SpanIs DEF Spans
    <3>3. n + last \in i..(j - 1)
      BY <1>0, <3>0
    <3>4. ASSUME NEW x \in i..j PROVE t[x].kind = IF x <= n + last THEN "call" ELSE "output"
      <4>1. x - n \in a..b /\ x - n \in 1..k /\ n + (x - n) = x /\ (x - n <= last <=> x <= n + last)
        BY <1>0, <3>0
      <4>2. t[n + (x - n)] = u[x - n]
        BY <1>0, <4>1
      <4>3. u[x - n].kind = IF x - n <= last THEN "call" ELSE "output"
        BY <3>2, <4>1
      <4>. QED  BY <4>1, <4>2, <4>3
    <3>. QED  BY <3>3, <3>4
  <2>. QED  BY <1>8, <1>14, <2>1, <2>2
<1>15. ToolsAnswered(t)
  <2>1. Answered(t)
    BY <1>0, <1>10, <1>11, <1>12 DEF Answered
  <2>2. Together(t)
    BY <1>14 DEF Together
  <2>. QED  BY <2>1, <2>2, AnsweredTogether
<1>. QED  BY <1>9, <1>15 DEF t, n

\* Later items have later ids.
IdsRise(items) == \A i, j \in 1..Len(items) : i < j => items[i].id < items[j].id

\* Ids of a transcript are of the requests so far.
Known(items, n) ==
    \A i \in 1..Len(items) : /\ items[i].id <= n
                             /\ items[i].kind \in Tools => items[i].pair <= n

ThreadInv ==
    /\ named \in Nat /\ skipped \in Nat
    /\ thread \in Seq(Entries) /\ ToolsAnswered(thread) /\ IdsRise(thread) /\ Known(thread, named)
    /\ asks \in Seq(Nat) /\ Len(asks) > 0 /\ asks[Len(asks)] = Len(thread)
    /\ \A a, b \in 1..Len(asks) : a <= b => asks[a] <= asks[b]
    /\ \A a \in 1..Len(asks) : Uncut(thread, asks[a])

\* What a request adds, with its ids.
LEMMA NamedAnswered ==
    ASSUME named \in Nat, NEW new \in FirstItems \union LaterItems
    PROVE  /\ NamedItems(new) \in Seq(Entries) /\ Len(NamedItems(new)) = Len(new) /\ Len(new) \in Nat \ {0}
           /\ ToolsAnswered(NamedItems(new))
           /\ \A i \in 1..Len(new) :
                 /\ NamedItems(new)[i].id = named + i
                 /\ NamedItems(new)[i].kind \in Tools => NamedItems(new)[i].pair \in (named + 1)..(named + Len(new))
<1>. DEFINE n == Len(new)
            s == NamedItems(new)
<1>0. /\ new \in Seq(Additions) /\ n \in Nat \ {0} /\ DOMAIN new = 1..n
      /\ \A i \in 1..n : new[i].kind \in Tools => new[i].pair \in 1..n
      /\ ToolsAnswered(new)
  BY RequestsAssumption
<1>1. /\ DOMAIN s = 1..n
      /\ \A i \in 1..n : s[i] = [id |-> named + i, kind |-> new[i].kind, size |-> new[i].size,
                                 pair |-> named + new[i].pair]
  BY <1>0 DEF NamedItems
<1>2. \A i \in 1..n : new[i] \in Additions
  BY <1>0
<1>3. \A i \in 1..n : s[i] \in Entries
  <2>. SUFFICES ASSUME NEW i \in 1..n PROVE s[i] \in Entries
    OBVIOUS
  <2>1. /\ new[i].kind \in {"user", "image", "answer", "call", "output", "hosted"}
        /\ new[i].size \in Nat \ {0} /\ new[i].pair \in Nat
    BY <1>2 DEF Additions
  <2>2. named + i \in Nat /\ named + new[i].pair \in Nat
    BY <2>1
  <2>. HIDE DEF s
  <2>. QED  BY <1>1, <2>1, <2>2 DEF Entries
<1>4. s = [i \in 1..n |-> s[i]]
  BY <1>0 DEF NamedItems
<1>. HIDE DEF s
<1>5. s \in Seq(Entries) /\ Len(s) = n
  <2>1. s \in [1..n -> Entries]
    BY <1>3, <1>4
  <2>. QED  BY <1>0, <2>1
<1>. HIDE DEF n
<1>6. /\ \A i \in 1..n : s[i].id = named + i /\ s[i].kind = new[i].kind
      /\ \A i \in 1..n : s[i].pair = named + new[i].pair /\ new[i].pair \in Nat
  BY <1>1, <1>2 DEF Additions
<1>7. \A i, j \in 1..n : s[i].pair = s[j].pair <=> new[i].pair = new[j].pair
  <2>. SUFFICES ASSUME NEW i \in 1..n, NEW j \in 1..n
                PROVE  s[i].pair = s[j].pair <=> new[i].pair = new[j].pair
    OBVIOUS
  <2>. PICK a, b, c, d : a = s[i].pair /\ b = s[j].pair /\ c = new[i].pair /\ d = new[j].pair
    OBVIOUS
  <2>1. a = named + c /\ b = named + d /\ c \in Nat /\ d \in Nat
    BY <1>6
  <2>2. a = b <=> c = d
    BY <2>1
  <2>. QED  BY <2>2
<1>8. \A i, j : Joins(s, i, j) <=> Joins(new, i, j)
  BY <1>0, <1>1, <1>6, <1>7 DEF Joins
<1>9. Answered(new) /\ Together(new)
  BY <1>0, AnsweredTogether
<1>10. Answered(s)
  BY <1>0, <1>1, <1>6, <1>7, <1>8, <1>9, ZenonT(60) DEF Answered
<1>11. Together(s)
  <2>. SUFFICES ASSUME NEW i, NEW j, Joins(s, i, j) PROVE Spans(s, i, j)
    BY SpanIs
  <2>0. Joins(new, i, j)
    BY <1>8
  <2>1. PICK last \in i..(j - 1) : \A k \in i..j : new[k].kind = IF k <= last THEN "call" ELSE "output"
    BY <1>9, <2>0, SpanIs DEF Spans
  <2>2. \A k \in i..j : s[k].kind = new[k].kind
    <3>1. i \in 1..n /\ j \in 1..n
      BY <1>0, <2>0 DEF Joins
    <3>2. \A k \in i..j : k \in 1..n
      BY <1>0, <3>1
    <3>. QED  BY <1>6, <3>2
  <2>. QED  BY <2>1, <2>2 DEF Spans
<1>12. \A i \in 1..n : s[i].kind \in Tools => s[i].pair \in (named + 1)..(named + n)
  <2>. SUFFICES ASSUME NEW i \in 1..n, s[i].kind \in Tools
                PROVE  s[i].pair \in (named + 1)..(named + n)
    OBVIOUS
  <2>. PICK x, y : x = s[i].pair /\ y = new[i].pair
    OBVIOUS
  <2>1. y \in 1..n /\ x = named + y
    BY <1>0, <1>6
  <2>2. x \in (named + 1)..(named + n)
    BY <1>0, <2>1
  <2>. QED  BY <2>2
<1>. QED  BY <1>0, <1>5, <1>6, <1>10, <1>11, <1>12, AnsweredTogether DEF s, n

\* A transcript cut where nothing is joined.
LEMMA CutAnswered ==
    ASSUME NEW s \in Seq(Entries), ToolsAnswered(s), NEW n \in 0..Len(s), Uncut(s, n)
    PROVE  /\ SubSeq(s, 1, n) \in Seq(Entries) /\ Len(SubSeq(s, 1, n)) = n
           /\ \A i \in 1..n : SubSeq(s, 1, n)[i] = s[i]
           /\ Selects(SubSeq(s, 1, n), s, 1..n, [i \in 1..n |-> i])
           /\ ToolsAnswered(SubSeq(s, 1, n))
           /\ \A m \in 0..n : Uncut(s, m) => Uncut(SubSeq(s, 1, n), m)
<1>. DEFINE t == SubSeq(s, 1, n)
            p == [i \in 1..n |-> i]
<1>1. n \in Nat /\ Len(s) \in Nat /\ n <= Len(s)
  OBVIOUS
<1>2. t \in Seq(Entries) /\ Len(t) = n /\ DOMAIN t = 1..n /\ \A i \in 1..n : t[i] = s[i] /\ i \in 1..Len(s)
  OBVIOUS
<1>3. Selects(t, s, 1..n, p)
  BY <1>1, <1>2 DEF Selects
<1>4. Answered(s) /\ Together(s)
  BY AnsweredTogether
<1>5. \A i, j : Joins(s, i, j) => i \in 1..Len(s) /\ j \in 1..Len(s) /\ i < j
  BY <1>4, AnsweredPairs
<1>6. PairsClosed(s, 1..n)
  <2>. SUFFICES ASSUME NEW i, NEW j, Joins(s, i, j) PROVE i \in 1..n <=> j \in 1..n
    BY DEF PairsClosed
  <2>1. i \in 1..Len(s) /\ j \in 1..Len(s) /\ (i <= n <=> j <= n)
    BY <1>5 DEF Uncut
  <2>. QED  BY <1>1, <2>1
<1>. HIDE DEF t, p
<1>7. Answered(t)
  BY <1>2, <1>3, <1>4, <1>6, SelectsCarries, CarriedAnswered
<1>8. \A i, j : Joins(t, i, j) => Joins(s, i, j) /\ i \in 1..n /\ j \in 1..n
  <2>1. Len(t) <= Len(s) /\ Alike(Len(t), t, s)
    BY <1>1, <1>2 DEF Alike
  <2>2. \A i, j : j <= Len(t) => (Joins(t, i, j) <=> Joins(s, i, j))
    BY <1>2, <2>1, BeginningJoins
  <2>3. \A i, j : Joins(t, i, j) => i \in 1..Len(t) /\ j \in 1..Len(t)
    BY <1>2, <1>7, AnsweredPairs
  <2>. QED  BY <1>1, <1>2, <2>2, <2>3
<1>9. Together(t)
  <2>. SUFFICES ASSUME NEW i, NEW j, Joins(t, i, j) PROVE Spans(t, i, j)
    BY SpanIs
  <2>0. Joins(s, i, j)
    BY <1>8
  <2>1. PICK last \in i..(j - 1) : \A k \in i..j : s[k].kind = IF k <= last THEN "call" ELSE "output"
    BY <1>4, <2>0, SpanIs DEF Spans
  <2>2. \A k \in i..j : k \in 1..n
    <3>1. i \in 1..n /\ j \in 1..n
      BY <1>8
    <3>. QED  BY <1>1, <3>1
  <2>3. \A k \in i..j : t[k].kind = s[k].kind
    BY <1>2, <2>2
  <2>. QED  BY <2>1, <2>3 DEF Spans
<1>10. \A m \in 0..n : Uncut(s, m) => Uncut(t, m)
  BY <1>8 DEF Uncut
<1>. QED  BY <1>2, <1>3, <1>7, <1>9, <1>10, AnsweredTogether DEF t, p

\* The transcript after a request.
LEMMA ThreadGoesOn ==
    ASSUME ThreadInv, NEW new \in FirstItems \union LaterItems, Grows(new)
    PROVE  /\ thread' \in Seq(Entries) /\ ToolsAnswered(thread') /\ IdsRise(thread')
           /\ Known(thread', named')
           /\ Len(thread) <= Len(thread') /\ Alike(Len(thread), thread, thread') /\ Uncut(thread', Len(thread))
           /\ Len(thread') > 0
           /\ named' \in Nat
           /\ asks' \in Seq(Nat) /\ Len(asks') > 0 /\ asks'[Len(asks')] = Len(thread')
           /\ \A a, b \in 1..Len(asks') : a <= b => asks'[a] <= asks'[b]
           /\ \A a \in 1..Len(asks') : Uncut(thread', asks'[a])
<1>. DEFINE s == thread
            u == NamedItems(new)
            n == Len(s)
            k == Len(new)
            t == s \o u
<1>0. named \in Nat
  BY DEF ThreadInv
<1>1. /\ s \in Seq(Entries) /\ ToolsAnswered(s) /\ IdsRise(s) /\ Known(s, named) /\ named \in Nat
  BY DEF ThreadInv
<1>2. /\ u \in Seq(Entries) /\ Len(u) = k /\ k \in Nat \ {0} /\ ToolsAnswered(u)
      /\ \A i \in 1..k : /\ u[i].id = named + i
                         /\ u[i].kind \in Tools => u[i].pair \in (named + 1)..(named + k)
  BY <1>1, NamedAnswered
<1>3. thread' = t /\ asks' = Append(asks, n + k) /\ named' = named + k
  BY DEF Grows
<1>. HIDE DEF s, u, k
<1>4. /\ n \in Nat /\ t \in Seq(Entries) /\ Len(t) = n + k
      /\ \A i \in 1..n : t[i] = s[i]
      /\ \A i \in 1..k : t[n + i] = u[i]
  BY <1>1, <1>2
<1>5. \A i \in 1..n, j \in 1..k : s[i].kind \in Tools /\ u[j].kind \in Tools => s[i].pair # u[j].pair
  <2>. SUFFICES ASSUME NEW i \in 1..n, NEW j \in 1..k, s[i].kind \in Tools, u[j].kind \in Tools,
                       s[i].pair = u[j].pair
                PROVE  FALSE
    OBVIOUS
  <2>1. s[i].pair <= named
    BY <1>1 DEF Known
  <2>2. u[j].pair \in (named + 1)..(named + k)
    BY <1>2
  <2>. PICK x : x = u[j].pair
    OBVIOUS
  <2>3. x <= named /\ x \in (named + 1)..(named + k)
    BY <2>1, <2>2
  <2>. QED  BY <1>1, <2>3
<1>6. ToolsAnswered(t) /\ Uncut(t, n)
  BY <1>1, <1>2, <1>5, AddedAnswered
<1>. HIDE DEF n, t
<1>7. \A i \in 1..n : s[i].id <= named /\ s[i].id \in Nat /\ (s[i].kind \in Tools => s[i].pair <= named)
  <2>1. \A i \in 1..n : s[i] \in Entries
    BY <1>1 DEF n
  <2>. QED  BY <1>1, <2>1 DEF Known, n, Entries
<1>8. \A i \in 1..(n + k) : i \in 1..n \/ (i - n \in 1..k /\ n + (i - n) = i)
  BY <1>2, <1>4
<1>9. ASSUME NEW i \in 1..(n + k)
      PROVE  /\ t[i].id <= named + k
             /\ t[i].kind \in Tools => t[i].pair <= named + k
  <2>1. CASE i \in 1..n
    <3>. PICK x, y : x = s[i].id /\ y = s[i].pair
      OBVIOUS
    <3>1. x <= named /\ x \in Nat /\ (s[i].kind \in Tools => y <= named)
      BY <1>7, <2>1
    <3>2. y \in Nat
      <4>1. s[i] \in Entries
        BY <1>1, <2>1 DEF n
      <4>. QED  BY <4>1 DEF Entries
    <3>3. x <= named + k /\ (s[i].kind \in Tools => y <= named + k)
      BY <1>0, <1>2, <3>1, <3>2
    <3>. QED  BY <1>4, <2>1, <3>3
  <2>2. CASE i - n \in 1..k /\ n + (i - n) = i
    <3>1. t[i] = u[i - n]
      BY <1>4, <2>2
    <3>. PICK x, y, z : x = u[i - n].id /\ y = u[i - n].pair /\ z = i - n
      OBVIOUS
    <3>2. x = named + z /\ z \in 1..k /\ (u[i - n].kind \in Tools => y \in (named + 1)..(named + k))
      BY <1>2, <2>2
    <3>3. x <= named + k
      BY <1>0, <1>2, <3>2
    <3>4. u[i - n].kind \in Tools => y <= named + k
      <4>. SUFFICES ASSUME u[i - n].kind \in Tools PROVE y <= named + k
        OBVIOUS
      <4>1. y \in (named + 1)..(named + k)
        BY <3>2
      <4>. QED  BY <1>0, <1>2, <4>1
    <3>. QED  BY <3>1, <3>3, <3>4
  <2>. QED  BY <1>8, <2>1, <2>2
<1>10. Known(t, named + k)
  <2>. SUFFICES ASSUME NEW i \in 1..(n + k)
                PROVE  t[i].id <= named + k /\ (t[i].kind \in Tools => t[i].pair <= named + k)
    BY <1>4 DEF Known
  <2>1. t[i] \in Entries
    BY <1>4
  <2>2. t[i].id \in Nat
    BY <2>1 DEF Entries
  <2>3. t[i].id <= named + k
    BY <1>9
  <2>. QED  BY <1>1, <1>9, <2>2, <2>3
<1>11. IdsRise(t)
  <2>. SUFFICES ASSUME NEW i \in 1..(n + k), NEW j \in 1..(n + k), i < j PROVE t[i].id < t[j].id
    BY <1>4 DEF IdsRise
  <2>1. CASE i \in 1..n /\ j \in 1..n
    BY <1>1, <1>4, <2>1 DEF IdsRise, n
  <2>2. CASE i \in 1..n /\ j - n \in 1..k /\ n + (j - n) = j
    <3>1. t[i] = s[i] /\ t[j] = u[j - n] /\ u[j - n].id = named + (j - n)
      BY <1>2, <1>4, <2>2
    <3>. PICK x, y, z : x = s[i].id /\ y = u[j - n].id /\ z = j - n
      OBVIOUS
    <3>2. x <= named /\ x \in Nat /\ y = named + z /\ z \in 1..k
      BY <1>2, <1>7, <2>2, <3>1
    <3>3. x < y
      BY <1>0, <3>2
    <3>. QED  BY <3>1, <3>3
  <2>3. CASE i - n \in 1..k /\ n + (i - n) = i /\ j - n \in 1..k /\ n + (j - n) = j
    <3>1. t[i] = u[i - n] /\ t[j] = u[j - n]
      BY <1>4, <2>3
    <3>. PICK x, y, z, w : x = u[i - n].id /\ y = u[j - n].id /\ z = i - n /\ w = j - n
      OBVIOUS
    <3>2. x = named + z /\ y = named + w /\ z \in 1..k /\ w \in 1..k
      BY <1>2, <2>3
    <3>3. z < w
      BY <1>4, <2>3
    <3>4. x < y
      BY <1>1, <3>2, <3>3
    <3>. QED  BY <3>1, <3>4
  <2>4. CASE i - n \in 1..k /\ n + (i - n) = i /\ j \in 1..n
    BY <1>4, <2>4
  <2>. QED  BY <1>8, <2>1, <2>2, <2>3, <2>4
<1>12. Len(s) <= Len(t) /\ Alike(Len(s), s, t) /\ Len(t) > 0
  BY <1>2, <1>4 DEF Alike, n
<1>13. /\ asks \in Seq(Nat) /\ Len(asks) \in Nat /\ Len(asks) > 0 /\ asks[Len(asks)] = n
       /\ \A a, b \in 1..Len(asks) : a <= b => asks[a] <= asks[b]
       /\ \A a \in 1..Len(asks) : Uncut(s, asks[a]) /\ asks[a] \in Nat
  BY DEF ThreadInv, n, s
<1>14. /\ asks' \in Seq(Nat) /\ Len(asks') = Len(asks) + 1
       /\ asks'[Len(asks) + 1] = n + k /\ \A a \in 1..Len(asks) : asks'[a] = asks[a]
  BY <1>2, <1>3, <1>4, <1>13
<1>. DEFINE m == Len(asks)
<1>15. \A a \in 1..m : asks[a] <= n
  <2>. SUFFICES ASSUME NEW a \in 1..m PROVE asks[a] <= n
    OBVIOUS
  <2>1. m \in 1..m /\ a <= m
    BY <1>13
  <2>. QED  BY <1>13, <2>1
<1>. HIDE DEF m
<1>16. \A a \in 1..(m + 1) : a = m + 1 \/ a \in 1..m
  BY <1>13 DEF m
<1>17. \A a, b \in 1..(m + 1) : a <= b => asks'[a] <= asks'[b]
  <2>. SUFFICES ASSUME NEW a \in 1..(m + 1), NEW b \in 1..(m + 1), a <= b PROVE asks'[a] <= asks'[b]
    OBVIOUS
  <2>1. CASE a \in 1..m /\ b \in 1..m
    BY <1>13, <1>14, <2>1 DEF m
  <2>2. CASE a \in 1..m /\ b = m + 1
    <3>1. asks'[a] = asks[a] /\ asks'[b] = n + k /\ asks[a] <= n /\ asks[a] \in Nat
      BY <1>13, <1>14, <1>15, <2>2 DEF m
    <3>. QED  BY <1>2, <1>4, <3>1
  <2>3. CASE a = m + 1
    <3>1. b = m + 1
      BY <1>13, <2>3 DEF m
    <3>. QED  BY <1>2, <1>4, <1>14, <2>3, <3>1 DEF m
  <2>. QED  BY <1>16, <2>1, <2>2, <2>3
<1>18. \A a \in 1..(m + 1) : Uncut(t, asks'[a])
  <2>0. Answered(t)
    BY <1>6, AnsweredTogether
  <2>1. \A i, j : Joins(t, i, j) => i \in 1..(n + k) /\ j \in 1..(n + k)
    BY <1>4, <2>0, AnsweredPairs
  <2>2. \A i, j : j <= n => (Joins(s, i, j) <=> Joins(t, i, j))
    BY <1>1, <1>4, <1>12, BeginningJoins DEF n
  <2>3. ASSUME NEW a \in 1..m PROVE Uncut(t, asks[a])
    <3>. SUFFICES ASSUME NEW i, NEW j, Joins(t, i, j) PROVE i <= asks[a] <=> j <= asks[a]
      BY DEF Uncut
    <3>1. CASE j <= n
      BY <1>13, <2>2, <3>1 DEF Uncut, m
    <3>2. CASE ~(j <= n)
      <4>1. ~(i <= n)
        BY <1>6, <3>2 DEF Uncut
      <4>2. asks[a] <= n /\ asks[a] \in Nat
        BY <1>13, <1>15 DEF m
      <4>. QED  BY <1>4, <2>1, <3>2, <4>1, <4>2
    <3>. QED  BY <3>1, <3>2
  <2>4. Uncut(t, n + k)
    BY <2>1 DEF Uncut
  <2>. QED  BY <1>14, <1>16, <2>3, <2>4 DEF m
<1>. QED
  <2>1. Uncut(t, Len(s)) /\ asks'[Len(asks')] = Len(t)
    BY <1>4, <1>6, <1>14 DEF n
  <2>2. named + k \in Nat /\ Len(asks') > 0 /\ Len(asks') = m + 1
    BY <1>0, <1>2, <1>13, <1>14 DEF m
  <2>. QED  BY <1>3, <1>4, <1>6, <1>9, <1>10, <1>11, <1>12, <1>14, <1>17, <1>18, <2>1, <2>2 DEF s

\* u is made of t, and t of s; the items of u are at K in s.
CarriedOn(s, t, u, I, J, K, p, q) ==
    /\ s \in Seq(Entries) /\ t \in Seq(Entries) /\ u \in Seq(Entries)
    /\ MadeOf(t, s, I, p) /\ MadeOf(u, t, J, q)
    /\ \A i : i \in K <=> \E j \in J : p[j] = i

\* What is carried on.
LEMMA CarriedTwice ==
    ASSUME NEW s, NEW t, NEW u, NEW I, NEW J, NEW K, NEW p, NEW q, CarriedOn(s, t, u, I, J, K, p, q)
    PROVE  \E r : MadeOf(u, s, K, r)
<1>0. /\ s \in Seq(Entries) /\ t \in Seq(Entries) /\ u \in Seq(Entries)
      /\ MadeOf(t, s, I, p) /\ MadeOf(u, t, J, q)
      /\ \A i : i \in K <=> \E j \in J : p[j] = i
  BY DEF CarriedOn
<1>. DEFINE k == Len(s)
            n == Len(t)
            m == Len(u)
            r == [a \in 1..m |-> p[q[a]]]
<1>1. /\ p \in [1..n -> 1..k] /\ q \in [1..m -> 1..n]
      /\ \A a, b \in 1..n : a < b => p[a] < p[b]
      /\ \A a, b \in 1..m : a < b => q[a] < q[b]
      /\ \A a \in 1..n : t[a].id = s[p[a]].id /\ t[a].kind = s[p[a]].kind /\ t[a].pair = s[p[a]].pair
      /\ \A a \in 1..m : u[a].id = t[q[a]].id /\ u[a].kind = t[q[a]].kind /\ u[a].pair = t[q[a]].pair
      /\ {q[a] : a \in 1..m} = J
  BY <1>0 DEF MadeOf
<1>2. Len(u) = m /\ Len(s) = k
  OBVIOUS
<1>. HIDE DEF n, m, k
<1>3. \A a \in 1..m : q[a] \in 1..n /\ r[a] = p[q[a]]
  BY <1>1
<1>4. r \in [1..m -> 1..k]
  BY <1>1
<1>5. \A a, b \in 1..m : a < b => r[a] < r[b]
  BY <1>1, <1>3
<1>6. \A a \in 1..m : u[a].id = s[r[a]].id /\ u[a].kind = s[r[a]].kind /\ u[a].pair = s[r[a]].pair
  BY <1>1, <1>3
<1>7. {r[a] : a \in 1..m} = K
  <2>1. \A a \in 1..m : q[a] \in J
    BY <1>1
  <2>2. \A j \in J : \E a \in 1..m : q[a] = j
    BY <1>1
  <2>3. \A a \in 1..m : r[a] \in K
    BY <1>0, <1>3, <2>1
  <2>4. \A i \in K : \E a \in 1..m : r[a] = i
    BY <1>0, <1>3, <2>2
  <2>. HIDE DEF r
  <2>. QED  BY <2>3, <2>4
<1>. HIDE DEF r
<1>8. MadeOf(u, s, K, r)
  BY <1>2, <1>4, <1>5, <1>6, <1>7 DEF MadeOf
<1>. QED  BY <1>8

-----------------------------------------------------------------------------
(* What is left of the active turn                                             *)

\* Notes in the place of outputs.
LEMMA OmittedCarried ==
    ASSUME NEW items \in Seq(Entries), NEW turn \in Seq(Entries), NEW I, NEW p, MadeOf(turn, items, I, p), NEW n
    PROVE  /\ WithOmitted(turn, n) \in Seq(Entries)
           /\ MadeOf(WithOmitted(turn, n), items, I, p)
<1>. DEFINE m == Len(turn)
            omitted == {i \in Outputs(turn) : Cardinality({j \in Outputs(turn) : j <= i}) <= n}
            t == WithOmitted(turn, n)
<1>1. m \in Nat /\ DOMAIN turn = 1..m /\ \A i \in 1..m : turn[i] \in Entries
  OBVIOUS
<1>2. t = [i \in 1..m |-> IF i \in omitted THEN [turn[i] EXCEPT !.size = 1] ELSE turn[i]]
  BY <1>1 DEF WithOmitted
<1>. HIDE DEF t, omitted, m
<1>3. ASSUME NEW i \in 1..m
      PROVE  t[i] \in Entries /\ t[i].id = turn[i].id /\ t[i].kind = turn[i].kind /\ t[i].pair = turn[i].pair
  <2>1. t[i] = turn[i] \/ t[i] = [turn[i] EXCEPT !.size = 1]
    BY <1>2
  <2>. PICK e : e = turn[i]
    OBVIOUS
  <2>2. e \in Entries
    BY <1>1
  <2>4. e = [id |-> e.id, kind |-> e.kind, size |-> e.size, pair |-> e.pair]
        /\ e.id \in Nat /\ e.kind \in {"user", "image", "answer", "call", "output", "hosted"} /\ e.pair \in Nat
    BY <2>2 DEF Entries
  <2>5. [e EXCEPT !.size = 1] = [id |-> e.id, kind |-> e.kind, size |-> 1, pair |-> e.pair]
    BY <2>4
  <2>3. [e EXCEPT !.size = 1] \in Entries /\ [e EXCEPT !.size = 1].id = e.id
        /\ [e EXCEPT !.size = 1].kind = e.kind /\ [e EXCEPT !.size = 1].pair = e.pair
    BY <2>4, <2>5, SMTT(30) DEF Entries
  <2>. QED  BY <2>1, <2>2, <2>3
<1>4. t \in Seq(Entries) /\ Len(t) = m
  <2>1. t \in [1..m -> Entries]
    BY <1>2, <1>3
  <2>. QED  BY <1>1, <2>1
<1>. QED  BY <1>3, <1>4 DEF MadeOf, m, t

\* What may be removed: answers, and calls with their outputs.
LEMMA RemovedClosed ==
    ASSUME NEW turn \in Seq(Entries), Answered(turn), NEW gone \in SUBSET Removable(turn)
    PROVE  /\ IsFiniteSet(Removable(turn))
           /\ \A i \in UNION gone : i \in 1..Len(turn) /\ turn[i].kind # "user"
           /\ PairsClosed(turn, (1..Len(turn)) \ UNION gone)
<1>. DEFINE n == Len(turn)
            pairs == Pairs(turn)
<1>1. /\ \A i, j : Joins(turn, i, j) =>
            /\ i \in 1..n /\ j \in 1..n /\ i < j
            /\ turn[i].kind = "call" /\ turn[j].kind = "output"
            /\ j \in Outputs(turn) /\ pairs[j] = i
      /\ \A i, j, k : Joins(turn, i, j) /\ Joins(turn, k, j) => i = k
      /\ \A i, j, k : Joins(turn, i, j) /\ Joins(turn, i, k) => j = k
      /\ DOMAIN pairs = Outputs(turn)
      /\ \A j \in Outputs(turn) : Joins(turn, pairs[j], j)
  BY AnsweredPairs
<1>2. n \in Nat /\ DOMAIN turn = 1..n
  OBVIOUS
<1>3. Removable(turn) = {{i} : i \in {j \in 1..n : turn[j].kind = "answer"}}
                        \union {{i, pairs[i]} : i \in Outputs(turn)}
  BY <1>1, <1>2 DEF Removable
<1>. HIDE DEF n, pairs
<1>4. \A g \in Removable(turn) : \/ \E i \in 1..n : g = {i} /\ turn[i].kind = "answer"
                                \/ \E i, j : g = {i, j} /\ Joins(turn, i, j)
  <2>. SUFFICES ASSUME NEW g \in Removable(turn)
                PROVE  \/ \E i \in 1..n : g = {i} /\ turn[i].kind = "answer"
                       \/ \E i, j : g = {i, j} /\ Joins(turn, i, j)
    OBVIOUS
  <2>1. CASE \E i \in 1..n : turn[i].kind = "answer" /\ g = {i}
    BY <2>1
  <2>2. CASE \E j \in Outputs(turn) : g = {j, pairs[j]}
    <3>1. PICK j \in Outputs(turn) : g = {j, pairs[j]}
      BY <2>2
    <3>2. g = {pairs[j], j} /\ Joins(turn, pairs[j], j)
      BY <1>1, <3>1
    <3>. QED  BY <3>2
  <2>. QED  BY <1>3, <2>1, <2>2
<1>5. Removable(turn) \subseteq SUBSET (1..n)
  BY <1>1, <1>4
<1>6. IsFiniteSet(Removable(turn))
  <2>1. IsFiniteSet(1..n)
    BY <1>2, FS_Interval
  <2>2. IsFiniteSet(SUBSET (1..n))
    BY <2>1, FS_SUBSET
  <2>. QED  BY <1>5, <2>2, FS_Subset
<1>7. ASSUME NEW i \in UNION gone PROVE i \in 1..n /\ turn[i].kind # "user"
  <2>1. PICK g \in gone : i \in g
    OBVIOUS
  <2>2. g \in Removable(turn)
    OBVIOUS
  <2>. QED  BY <1>1, <1>4, <2>1, <2>2
<1>8. ASSUME NEW i, NEW j, Joins(turn, i, j) PROVE i \in UNION gone <=> j \in UNION gone
  <2>1. ASSUME NEW g \in Removable(turn), i \in g \/ j \in g PROVE i \in g /\ j \in g
    <3>1. turn[i].kind = "call" /\ turn[j].kind = "output"
      BY <1>1, <1>8
    <3>2. PICK a, b : g = {a, b} /\ Joins(turn, a, b)
      BY <1>4, <2>1, <3>1
    <3>3. turn[a].kind = "call" /\ turn[b].kind = "output"
      BY <1>1, <3>2
    <3>4. i = a \/ j = b
      BY <2>1, <3>1, <3>2, <3>3
    <3>5. i = a /\ j = b
      BY <1>1, <1>8, <3>2, <3>4
    <3>. QED  BY <3>2, <3>5
  <2>. QED  BY <2>1
<1>9. PairsClosed(turn, (1..n) \ UNION gone)
  BY <1>1, <1>8 DEF PairsClosed
<1>. QED  BY <1>6, <1>7, <1>9 DEF n

\* The part of the active turn that is kept.
TurnKept(turn, items) ==
    /\ turn \in Seq(Entries)
    /\ \E I, p :
          /\ MadeOf(turn, items, I, p)
          /\ I \subseteq ActiveIndices(items) /\ PairsClosed(items, I)
          /\ \A i \in ActiveIndices(items) : items[i].kind = "user" => i \in I

\* What is left when some of the oldest is removed.
LEMMA RemovedKept ==
    ASSUME NEW items \in Seq(Entries), Answered(items), TurnShaped(items),
           NEW turn \in Seq(Entries), NEW p, MadeOf(turn, items, ActiveIndices(items), p), NEW n
    PROVE  TurnKept(Without(turn, n), items)
<1>. DEFINE m == Len(turn)
            picked == ActiveIndices(items)
            groups == Removable(turn)
            gone == {g \in groups : Cardinality({h \in groups : First0(h) <= First0(g)}) <= n}
            left == (1..m) \ UNION gone
            t == Without(turn, n)
            I == {p[k] : k \in left}
<1>1. m \in Nat /\ DOMAIN turn = 1..m
  OBVIOUS
<1>2. t = ItemsAt(turn, left)
  BY <1>1 DEF Without
<1>3. picked \in SUBSET (1..Len(items)) /\ PairsClosed(items, picked)
  BY DEF TurnShaped
<1>4. /\ Answered(turn)
      /\ \A a, b \in 1..m : Joins(turn, a, b) <=> Joins(items, p[a], p[b])
  BY <1>3, CarriedAnswered
<1>5. gone \in SUBSET Removable(turn)
  OBVIOUS
<1>. HIDE DEF gone
<1>6. /\ \A i \in UNION gone : i \in 1..m /\ turn[i].kind # "user"
      /\ PairsClosed(turn, left)
  BY <1>4, <1>5, RemovedClosed
<1>7. /\ \A a \in 1..m : p[a] \in picked /\ p[a] \in 1..Len(items)
      /\ \A a, b \in 1..m : p[a] = p[b] => a = b
      /\ \A i \in picked : i \in 1..Len(items) /\ \E a \in 1..m : p[a] = i
  BY PlacesOrdered
<1>8. \A a \in 1..m : turn[a].kind = items[p[a]].kind
  BY DEF MadeOf
<1>9. left \in SUBSET (1..m)
  OBVIOUS
<1>. HIDE DEF t, left, groups
<1>10. t \in Seq(Entries) /\ \E q : Selects(t, turn, left, q)
  BY <1>2, <1>9, ItemsSelected DEF m
<1>11. PICK q : MadeOf(t, turn, left, q)
  BY <1>10, SelectsCarries
<1>12. \E r : MadeOf(t, items, I, r)
  <2>1. MadeOf(turn, items, picked, p)
    OBVIOUS
  <2>2. \A i : i \in I <=> \E k \in left : p[k] = i
    OBVIOUS
  <2>. HIDE DEF picked, I
  <2>3. CarriedOn(items, turn, t, picked, left, I, p, q)
    BY <1>10, <1>11, <2>1, <2>2 DEF CarriedOn
  <2>. QED  BY <2>3, CarriedTwice
<1>. HIDE DEF m, picked
<1>13. I \subseteq picked
  BY <1>7, <1>9
<1>14. ASSUME NEW i \in picked, items[i].kind = "user" PROVE i \in I
  <2>1. PICK a \in 1..m : p[a] = i
    BY <1>7
  <2>2. turn[a].kind = "user"
    BY <1>8, <1>14, <2>1
  <2>3. a \in left
    BY <1>6, <2>2 DEF left
  <2>. QED  BY <2>1, <2>3
<1>15. PairsClosed(items, I)
  <2>. SUFFICES ASSUME NEW i, NEW j, Joins(items, i, j) PROVE i \in I <=> j \in I
    BY DEF PairsClosed
  <2>1. i \in picked <=> j \in picked
    BY <1>3 DEF PairsClosed
  <2>2. ASSUME NEW a \in 1..m, NEW b \in 1..m, p[a] = i, p[b] = j PROVE a \in left <=> b \in left
    <3>1. Joins(turn, a, b)
      BY <1>4, <2>2
    <3>. QED  BY <1>6, <3>1 DEF PairsClosed
  <2>3. \A a \in 1..m : p[a] \in I <=> a \in left
    BY <1>7, <1>9
  <2>4. CASE i \in picked
    <3>1. PICK a \in 1..m : p[a] = i
      BY <1>7, <2>4
    <3>2. PICK b \in 1..m : p[b] = j
      BY <1>7, <2>1, <2>4
    <3>. QED  BY <2>2, <2>3, <3>1, <3>2
  <2>5. CASE i \notin picked
    BY <1>13, <2>1, <2>5
  <2>. QED  BY <2>4, <2>5
<1>. QED  BY <1>10, <1>12, <1>13, <1>14, <1>15 DEF TurnKept, t, picked

\* What is left of the active turn fits its budget.
LEMMA TurnTrimmed ==
    ASSUME NEW items \in Seq(Entries), Answered(items), TurnShaped(items),
           NEW trimmed, trimmed = Trimmed(ItemsAt(items, ActiveIndices(items))), trimmed.fits
    PROVE  TurnKept(trimmed.items, items) /\ Size(trimmed.items) <= ActiveBudget
<1>. DEFINE picked == ActiveIndices(items)
            turn == ItemsAt(items, picked)
            outputs == Cardinality(Outputs(turn))
            noted == WithOmitted(turn, outputs)
            groups == Cardinality(Removable(noted))
            omits == [n \in 1..outputs |-> Size(WithOmitted(turn, n)) <= ActiveBudget]
            removes == [n \in 1..groups |-> Size(Without(noted, n)) <= ActiveBudget]
<1>0. ActiveBudget \in Nat
  BY AllocationAssumption
<1>1. picked \in SUBSET (1..Len(items)) /\ PairsClosed(items, picked)
  BY DEF TurnShaped
<1>2. turn \in Seq(Entries) /\ \E p : Selects(turn, items, picked, p)
  BY <1>1, ItemsSelected
<1>3. PICK p : MadeOf(turn, items, picked, p)
  BY <1>2, SelectsCarries
<1>. HIDE DEF turn
<1>4. \A n : WithOmitted(turn, n) \in Seq(Entries) /\ MadeOf(WithOmitted(turn, n), items, picked, p)
  BY <1>2, <1>3, OmittedCarried
<1>5. Answered(noted) /\ noted \in Seq(Entries)
  BY <1>1, <1>4, CarriedAnswered
<1>6. outputs \in Nat
  <2>1. Len(turn) \in Nat /\ Outputs(turn) \subseteq 1..Len(turn)
    BY <1>2 DEF Outputs
  <2>2. IsFiniteSet(1..Len(turn))
    BY <2>1, FS_Interval
  <2>. QED  BY <2>1, <2>2, FS_Subset, FS_CardinalityType
<1>7. groups \in Nat
  <2>1. IsFiniteSet(Removable(noted))
    <3>. HIDE DEF noted
    <3>. QED  BY <1>5, RemovedClosed
  <2>. QED  BY <2>1, FS_CardinalityType
<1>8. \A u : u = turn \/ (\E n : u = WithOmitted(turn, n)) => TurnKept(u, items)
  <2>1. \A i \in picked : items[i].kind = "user" => i \in picked
    OBVIOUS
  <2>. HIDE DEF picked
  <2>. QED  BY <1>1, <1>2, <1>3, <1>4, <2>1 DEF TurnKept, picked
<1>9. \A n : TurnKept(Without(noted, n), items)
  <2>1. MadeOf(noted, items, picked, p)
    BY <1>4
  <2>. HIDE DEF noted
  <2>. QED  BY <1>5, <2>1, RemovedKept
<1>. HIDE DEF noted, outputs, groups
<1>10. trimmed = IF Size(turn) <= ActiveBudget THEN [fits |-> TRUE, items |-> turn]
                ELSE IF outputs > 0 /\ omits[outputs]
                THEN [fits |-> TRUE, items |-> WithOmitted(turn, Bisect(omits))]
                ELSE IF groups > 0 /\ removes[groups]
                THEN [fits |-> TRUE, items |-> Without(noted, Bisect(removes))]
                ELSE [fits |-> FALSE, items |-> <<>>]
  BY DEF Trimmed, turn, noted, outputs, groups
<1>11. CASE Size(turn) <= ActiveBudget
  <2>1. trimmed.items = turn
    BY <1>10, <1>11
  <2>. QED  BY <1>8, <1>11, <2>1
<1>12. CASE ~(Size(turn) <= ActiveBudget) /\ outputs > 0 /\ omits[outputs]
  <2>1. trimmed.items = WithOmitted(turn, Bisect(omits))
    BY <1>10, <1>12
  <2>2. omits \in [1..outputs -> BOOLEAN] /\ outputs \in Nat \ {0}
    BY <1>6, <1>12
  <2>3. \A n \in 1..outputs : omits[n] => Size(WithOmitted(turn, n)) <= ActiveBudget
    OBVIOUS
  <2>. HIDE DEF omits
  <2>4. Bisect(omits) \in 1..outputs /\ omits[Bisect(omits)]
    BY <1>12, <2>2, BisectFits
  <2>. QED  BY <1>8, <2>1, <2>3, <2>4
<1>13. CASE ~(Size(turn) <= ActiveBudget) /\ ~(outputs > 0 /\ omits[outputs]) /\ groups > 0 /\ removes[groups]
  <2>1. trimmed.items = Without(noted, Bisect(removes))
    BY <1>10, <1>13
  <2>2. removes \in [1..groups -> BOOLEAN] /\ groups \in Nat \ {0}
    BY <1>7, <1>13
  <2>3. \A n \in 1..groups : removes[n] => Size(Without(noted, n)) <= ActiveBudget
    OBVIOUS
  <2>. HIDE DEF removes
  <2>4. Bisect(removes) \in 1..groups /\ removes[Bisect(removes)]
    BY <1>13, <2>2, BisectFits
  <2>. QED  BY <1>9, <2>1, <2>3, <2>4
<1>14. CASE ~(Size(turn) <= ActiveBudget) /\ ~(outputs > 0 /\ omits[outputs]) /\ ~(groups > 0 /\ removes[groups])
  <2>1. trimmed.fits = FALSE
    BY <1>10, <1>14
  <2>. QED  BY <2>1
<1>. QED  BY <1>11, <1>12, <1>13, <1>14

-----------------------------------------------------------------------------
(* What is replayed of what came before the active turn                        *)

\* Where the window starts, what is left fits.
LEMMA StartFits ==
    ASSUME skipped \in Nat, NEW entries \in Seq(Entries), NEW budget \in Nat
    PROVE  /\ StickyStart(entries, budget) \in 0..Len(entries)
           /\ Size(Beyond(entries, StickyStart(entries, budget))) <= budget
<1>. DEFINE n == Len(entries)
            target == (budget * 17) \div 20
            cost(m) == Size(Beyond(entries, m))
            S == {x \in 0..n : cost(x) <= target}
            held == 0 < skipped /\ skipped < n /\ cost(skipped) <= budget
            start == StickyStart(entries, budget)
<1>1. n \in Nat /\ \A m \in 0..n : Beyond(entries, m) \in Seq(Entries) /\ cost(m) \in Nat
  <2>1. n \in Nat
    OBVIOUS
  <2>2. \A m \in 0..n : Beyond(entries, m) \in Seq(Entries)
    BY EndSelected
  <2>. QED  BY <2>1, <2>2, CostOfFew
<1>2. target \in Nat /\ target <= budget
  OBVIOUS
<1>3. cost(n) = 0
  <2>1. n \in 0..n
    BY <1>1
  <2>2. Beyond(entries, n) \in Seq(Entries) /\ Len(Beyond(entries, n)) = n - n
    BY <2>1, EndSelected
  <2>3. Len(Beyond(entries, n)) = 0
    BY <1>1, <2>2
  <2>. QED  BY <2>2, <2>3, CostOfFew
<1>4. cost(0) <= Size(entries)
  <2>1. 0 \in 0..n
    BY <1>1
  <2>2. \E p : Selects(Beyond(entries, 0), entries, (0 + 1)..n, p)
    BY <2>1, EndSelected
  <2>. QED  BY <1>1, <2>1, <2>2, SelectionCosts
<1>5. Size(entries) \in Nat
  BY CostOfFew
<1>6. start = IF Size(entries) <= budget THEN 0 ELSE IF held THEN skipped ELSE First0(S)
  BY DEF StickyStart
<1>. HIDE DEF start, cost, n, target
<1>7. CASE Size(entries) <= budget
  <2>1. start = 0 /\ 0 \in 0..n
    BY <1>1, <1>6, <1>7
  <2>2. cost(0) <= budget
    BY <1>1, <1>4, <1>5, <1>7, <2>1
  <2>. QED  BY <2>1, <2>2 DEF start, cost, n
<1>8. CASE ~(Size(entries) <= budget) /\ held
  <2>1. start = skipped /\ skipped \in 0..n
    BY <1>1, <1>6, <1>8
  <2>. QED  BY <1>8, <2>1 DEF start, cost, n
<1>9. CASE ~(Size(entries) <= budget) /\ ~held
  <2>1. n \in S
    BY <1>1, <1>2, <1>3
  <2>2. S \in SUBSET Nat
    BY <1>1
  <2>5. First0(S) \in S
    <3>. HIDE DEF S
    <3>. QED  BY <2>1, <2>2, FirstOf
  <2>6. start \in S
    <3>. HIDE DEF S
    <3>. QED  BY <1>6, <1>9, <2>5
  <2>7. start \in 0..n /\ start \in start..n
    BY <1>1, <2>6
  <2>3. start \in 0..n /\ cost(start) <= target /\ cost(start) \in Nat
    BY <1>1, <2>6, <2>7
  <2>4. cost(start) <= budget
    BY <1>2, <2>3
  <2>. QED  BY <2>3, <2>4 DEF start, cost, n
<1>. QED  BY <1>7, <1>8, <1>9

\* Where the window opens: all that is passed over are outputs of calls left out.
LEMMA OpeningIs ==
    ASSUME NEW entries \in Seq(Entries), Answered(entries), NEW start \in 0..Len(entries)
    PROVE  /\ Opening(entries, start) \in start..Len(entries)
           /\ \A k \in (start + 1)..Opening(entries, start) :
                 k \in 1..Len(entries) /\ entries[k].kind = "output" /\ \E i : i <= start /\ Joins(entries, i, k)
           /\ \/ Opening(entries, start) = Len(entries)
              \/ ~\E i : i <= start /\ Joins(entries, i, Opening(entries, start) + 1)
<1>. DEFINE n == Len(entries)
            pairs == Pairs(entries)
            orphan(i) == i \in DOMAIN pairs /\ pairs[i] <= start
            S == {x \in start..n : x = n \/ ~orphan(x + 1)}
            o == Opening(entries, start)
<1>1. n \in Nat /\ start \in Nat /\ start <= n
  OBVIOUS
<1>2. /\ DOMAIN pairs = Outputs(entries)
      /\ \A i, j : Joins(entries, i, j) =>
            /\ i \in 1..n /\ j \in 1..n /\ entries[j].kind = "output"
            /\ j \in Outputs(entries) /\ pairs[j] = i
      /\ \A j \in Outputs(entries) : Joins(entries, pairs[j], j)
  BY AnsweredPairs
<1>3. o = First0(S)
  BY DEF Opening
<1>. HIDE DEF n, pairs, o
<1>4. n \in S /\ S \in SUBSET Nat
  BY <1>1
<1>5. o \in S /\ \A x \in S : o <= x
  <2>. HIDE DEF S
  <2>. QED  BY <1>3, <1>4, FirstOf
<1>6. o \in start..n /\ o \in Nat
  BY <1>1, <1>5
<1>7. \A k : orphan(k) <=> \E i : i <= start /\ Joins(entries, i, k)
  BY <1>2
<1>8. ASSUME NEW k \in (start + 1)..o
      PROVE  k \in 1..n /\ entries[k].kind = "output" /\ \E i : i <= start /\ Joins(entries, i, k)
  <2>1. k - 1 \in start..n /\ (k - 1) + 1 = k /\ ~(o <= k - 1) /\ k - 1 # n
    BY <1>1, <1>6
  <2>2. k - 1 \notin S
    BY <1>5, <2>1
  <2>3. orphan(k)
    BY <2>1, <2>2
  <2>. QED  BY <1>2, <1>7, <2>3
<1>9. o = n \/ ~orphan(o + 1)
  BY <1>5
<1>. HIDE DEF orphan
<1>. QED  BY <1>6, <1>7, <1>8, <1>9 DEF n, o

\* What is replayed of a transcript: calls have their outputs, and outputs their calls,
\* unless the window opens among parallel calls, on one after theirs.
WindowKept(played, items) ==
    /\ played \in Seq(Entries)
    /\ \E I, p :
          /\ MadeOf(played, items, I, p)
          /\ \A i, j : Joins(items, i, j) /\ i \in I => j \in I
          /\ \A i, j : Joins(items, i, j) /\ j \in I /\ i \notin I =>
                CutFrom(items, played, items[j].pair)

\* What is left out at the start, outputs passed over included, leaves nothing half told.
LEMMA ReplayedKept ==
    ASSUME NEW items \in Seq(Entries), Answered(items), Together(items),
           NEW entries, entries = Replayable(items), NEW start \in 0..Len(entries)
    PROVE  /\ entries \in Seq(Entries)
           /\ WindowKept(Replayed(entries, start), items)
           /\ Size(Replayed(entries, start)) <= Size(Beyond(entries, start))
<1>. DEFINE n == Len(entries)
            told == {"user", "image", "answer", "call", "output"}
            K == {i \in 1..Len(items) : items[i].kind \in told}
            o == Opening(entries, start)
            v == Beyond(entries, o)
            L == {a \in 1..Len(v) : v[a].kind \in {"user", "answer", "call", "output"}}
            w == Replayed(entries, start)
            M == {k \in (o + 1)..n : entries[k].kind \in {"user", "answer", "call", "output"}}
            shift == [a \in 1..(n - o) |-> a + o]
<1>1. entries = ItemsAt(items, K)
  <2>1. DOMAIN items = 1..Len(items)
    OBVIOUS
  <2>2. K = {i \in DOMAIN items : items[i].kind \in told}
    BY <2>1
  <2>3. entries = OfKinds(items, told)
    BY DEF Replayable
  <2>. HIDE DEF K
  <2>. QED  BY <2>2, <2>3 DEF OfKinds
<1>2. entries \in Seq(Entries) /\ \E p : Selects(entries, items, K, p)
  BY <1>1, ItemsSelected
<1>3. PICK p : Selects(entries, items, K, p)
  BY <1>2
<1>. HIDE DEF K
<1>4. MadeOf(entries, items, K, p)
  BY <1>3, SelectsCarries
<1>5. PairsClosed(items, K)
  BY AnsweredPairs DEF PairsClosed, K
<1>6. Answered(entries) /\ \A a, b \in 1..n : Joins(entries, a, b) <=> Joins(items, p[a], p[b])
  BY <1>2, <1>4, <1>5, CarriedAnswered
<1>7. /\ n \in Nat /\ start \in Nat /\ o \in start..n /\ o \in 0..n /\ o \in Nat /\ o <= n
      /\ \A k \in (start + 1)..o : k \in 1..n /\ entries[k].kind = "output"
      /\ o # n => ~\E i : i <= start /\ Joins(entries, i, o + 1)
  BY <1>2, <1>6, OpeningIs, SMTT(30)
<1>8. /\ v \in Seq(Entries) /\ Len(v) = n - o
      /\ \A a \in 1..(n - o) : v[a] = entries[a + o]
      /\ Selects(v, entries, (o + 1)..n, shift)
  BY <1>2, <1>7, EndSelected, ZenonT(60)
<1>9. w = ItemsAt(v, L)
  BY <1>8 DEF Replayed, OfKinds
<1>. HIDE DEF o, v, w, shift
<1>10. w \in Seq(Entries) /\ \E q : Selects(w, v, L, q)
  BY <1>8, <1>9, ItemsSelected
<1>11. PICK q : Selects(w, v, L, q)
  BY <1>10
<1>12. Size(w) <= Size(Beyond(entries, start))
  <2>1. Size(w) <= Size(v)
    BY <1>8, <1>10, <1>11, SelectionCosts
  <2>. DEFINE u == Beyond(entries, start)
  <2>2. u \in Seq(Entries) /\ Len(u) = n - start /\ \A a \in 1..(n - start) : u[a] = entries[a + start]
    BY <1>2, <1>7, EndSelected
  <2>. HIDE DEF u, n
  <2>3. o - start \in 0..Len(u) /\ Len(u) - (o - start) = n - o
    BY <1>7, <2>2
  <2>. DEFINE e == o - start
  <2>4. /\ Beyond(u, e) \in Seq(Entries) /\ Len(Beyond(u, e)) = n - o
        /\ \A a \in 1..(n - o) : Beyond(u, e)[a] = u[a + e]
        /\ \E r : Selects(Beyond(u, e), u, (e + 1)..Len(u), r)
    <3>1. u \in Seq(Entries) /\ e \in 0..Len(u) /\ Len(u) - e = n - o
      BY <2>2, <2>3
    <3>. HIDE DEF e
    <3>2. /\ Beyond(u, e) \in Seq(Entries) /\ Len(Beyond(u, e)) = Len(u) - e
          /\ \A a \in 1..(Len(u) - e) : Beyond(u, e)[a] = u[a + e]
      BY <3>1, EndSelected
    <3>3. \E r : Selects(Beyond(u, e), u, (e + 1)..Len(u), r)
      BY <3>1, EndIsPart
    <3>. QED  BY <3>1, <3>2, <3>3
  <2>5. v = Beyond(u, o - start)
    <3>1. \A a \in 1..(n - o) : v[a] = Beyond(u, o - start)[a]
      <4>. SUFFICES ASSUME NEW a \in 1..(n - o) PROVE v[a] = Beyond(u, o - start)[a]
        OBVIOUS
      <4>1. a + (o - start) \in 1..(n - start) /\ (a + (o - start)) + start = a + o
        BY <1>7
      <4>2. Beyond(u, o - start)[a] = u[a + (o - start)]
        BY <2>4
      <4>3. u[a + (o - start)] = entries[a + o]
        BY <2>2, <4>1
      <4>. QED  BY <1>8, <4>2, <4>3
    <3>. QED  BY <1>8, <2>4, <3>1
  <2>6. Size(v) <= Size(u)
    BY <2>2, <2>4, <2>5, SelectionCosts
  <2>7. Size(w) \in Nat /\ Size(v) \in Nat /\ Size(u) \in Nat
    BY <1>8, <1>10, <2>2, CostOfFew
  <2>. QED  BY <2>1, <2>6, <2>7 DEF u
<1>. HIDE DEF n
<1>13. {shift[a] : a \in L} = M
  <2>1. ASSUME NEW a \in L PROVE shift[a] \in M
    <3>1. a \in 1..(n - o) /\ a + o \in (o + 1)..n
      BY <1>7, <1>8
    <3>. QED  BY <1>8, <3>1 DEF shift
  <2>2. ASSUME NEW k \in M PROVE \E a \in L : shift[a] = k
    <3>1. k - o \in 1..(n - o) /\ (k - o) + o = k
      BY <1>7
    <3>2. v[k - o] = entries[k]
      BY <1>8, <3>1
    <3>3. k - o \in L
      BY <1>8, <3>1, <3>2
    <3>. QED  BY <3>1, <3>3 DEF shift
  <2>. HIDE DEF L, M
  <2>. QED  BY <2>1, <2>2
<1>14. \E r : MadeOf(w, entries, M, r)
  <2>1. MadeOf(w, v, L, q)
    BY <1>11, SelectsCarries
  <2>2. MadeOf(v, entries, (o + 1)..n, shift)
    BY <1>8, SelectsCarries DEF n
  <2>. HIDE DEF L, M
  <2>3. \A k : k \in M <=> \E a \in L : shift[a] = k
    BY <1>13
  <2>4. CarriedOn(entries, v, w, (o + 1)..n, L, M, shift, q)
    BY <1>2, <1>8, <1>10, <2>1, <2>2, <2>3 DEF CarriedOn
  <2>. QED  BY <2>4, CarriedTwice
<1>15. PICK r : MadeOf(w, entries, M, r)
  BY <1>14
<1>. DEFINE H == {p[k] : k \in M}
<1>16. \E s : MadeOf(w, items, H, s)
  <2>. HIDE DEF M
  <2>1. \A i : i \in H <=> \E k \in M : p[k] = i
    OBVIOUS
  <2>. HIDE DEF H
  <2>2. CarriedOn(items, entries, w, K, M, H, p, r)
    BY <1>2, <1>4, <1>10, <1>15, <2>1 DEF CarriedOn
  <2>. QED  BY <2>2, CarriedTwice
<1>17. /\ \A a \in 1..n : p[a] \in K /\ p[a] \in 1..Len(items)
       /\ \A a, b \in 1..n : a < b <=> p[a] < p[b]
       /\ \A a, b \in 1..n : p[a] = p[b] => a = b
       /\ \A i \in K : i \in 1..Len(items) /\ \E a \in 1..n : p[a] = i
  BY <1>2, <1>4, PlacesOrdered DEF n
<1>18. \A k \in 1..n : p[k] \in H <=> k \in M
  <2>1. M \subseteq 1..n
    BY <1>7
  <2>. HIDE DEF M
  <2>. QED  BY <1>17, <2>1
<1>19. \A k \in 1..n : entries[k] = items[p[k]]
  BY <1>3 DEF Selects, n
<1>20. \A i, j : Joins(items, i, j) =>
          /\ i \in 1..Len(items) /\ j \in 1..Len(items) /\ i < j
          /\ items[i].kind = "call" /\ items[j].kind = "output"
  BY AnsweredPairs
\* What is joined, by the places among the units.
<1>21. ASSUME NEW i, NEW j, Joins(items, i, j)
       PROVE  \E a, b \in 1..n : /\ p[a] = i /\ p[b] = j /\ a < b
                                 /\ entries[a].kind = "call" /\ entries[b].kind = "output"
  <2>1. i \in K /\ j \in K /\ i < j
    BY <1>20, <1>21 DEF K
  <2>2. PICK a \in 1..n : p[a] = i
    BY <1>17, <2>1
  <2>3. PICK b \in 1..n : p[b] = j
    BY <1>17, <2>1
  <2>. QED  BY <1>17, <1>19, <1>20, <1>21, <2>1, <2>2, <2>3, SMTT(30)
<1>22. ASSUME NEW i, NEW j, Joins(items, i, j), i \in H PROVE j \in H
  <2>1. PICK a, b \in 1..n : p[a] = i /\ p[b] = j /\ a < b /\ entries[b].kind = "output"
    BY <1>21, <1>22
  <2>2. a \in M
    BY <1>18, <1>22, <2>1
  <2>3. b \in M
    BY <1>7, <2>1, <2>2
  <2>. QED  BY <1>18, <2>1, <2>3
<1>23. ASSUME NEW i, NEW j, Joins(items, i, j), j \in H, i \notin H
       PROVE  CutFrom(items, w, items[j].pair)
  <2>1. PICK a, b \in 1..n : /\ p[a] = i /\ p[b] = j /\ a < b
                             /\ entries[a].kind = "call" /\ entries[b].kind = "output"
    BY <1>21, <1>23
  <2>2. b \in M /\ a \notin M
    BY <1>18, <1>23, <2>1
  <2>3. a <= o /\ o < b
    BY <1>7, <2>1, <2>2
  <2>. DEFINE c == o + 1
              x == p[c]
  <2>4. c \in 1..n /\ a < c /\ c <= b /\ o # n
    BY <1>7, <2>1, <2>3
  <2>5. x \in 1..Len(items) /\ i < x /\ x <= j
    BY <1>17, <2>1, <2>4
  <2>6. Spans(items, i, j)
    BY <1>23, SpanIs
  <2>7. PICK last \in i..(j - 1) : \A k \in i..j : items[k].kind = IF k <= last THEN "call" ELSE "output"
    BY <2>6 DEF Spans
  <2>8. i \in 1..Len(items) /\ j \in 1..Len(items)
    BY <1>20, <1>23
  <2>9. x <= last
    <3>. SUFFICES ASSUME ~(x <= last) PROVE FALSE
      OBVIOUS
    <3>1. items[x].kind = "output"
      BY <2>5, <2>7, <2>8
    <3>2. PICK g : Joins(items, g, x)
      BY <2>5, <3>1, AnsweredPairs
    <3>3. PICK d, e \in 1..n : p[d] = g /\ p[e] = x /\ d < e /\ entries[d].kind = "call"
      BY <1>21, <3>2
    <3>4. e = c
      BY <1>17, <2>4, <3>3
    <3>5. Joins(entries, d, c)
      BY <1>6, <2>4, <3>2, <3>3, <3>4 DEF n
    <3>6. ~(d <= start)
      BY <1>7, <2>4, <3>5
    <3>7. d \in (start + 1)..o
      BY <1>7, <3>3, <3>4, <3>6
    <3>. QED  BY <1>7, <3>3, <3>7
  <2>. HIDE DEF x
  <2>10. /\ items[x].kind = "call" /\ items[i].pair = items[j].pair
         /\ \A k \in i..x : items[k].kind = "call"
    <3>1. x \in i..x /\ \A k \in i..x : k \in i..j /\ k <= last
      BY <2>5, <2>7, <2>8, <2>9
    <3>2. \A k \in i..x : items[k].kind = "call"
      BY <2>7, <3>1
    <3>3. items[i].pair = items[j].pair
      BY <1>23 DEF Joins
    <3>. QED  BY <3>1, <3>2, <3>3
  <2>11. w # <<>> /\ Head(w) = items[x]
    <3>1. entries[c] = items[x]
      BY <1>19, <2>4 DEF x
    <3>2. 1 \in 1..(n - o) /\ 1 + o = c
      BY <1>7, <2>4
    <3>3. v[1] = entries[c]
      BY <1>8, <3>2
    <3>4. 1 \in L
      BY <1>8, <2>10, <3>1, <3>2, <3>3
    <3>5. /\ q \in [1..Len(w) -> 1..Len(v)]
          /\ \A y, z \in 1..Len(w) : y < z => q[y] < q[z]
          /\ \A y \in 1..Len(w) : w[y] = v[q[y]]
          /\ {q[y] : y \in 1..Len(w)} = L
      BY <1>11 DEF Selects
    <3>6. PICK y \in 1..Len(w) : q[y] = 1
      BY <3>4, <3>5
    <3>7. Len(w) \in Nat /\ 1 \in 1..Len(w)
      BY <1>10
    <3>8. y = 1
      <4>1. q[1] \in Nat /\ q[1] >= 1
        BY <3>5, <3>7
      <4>. QED  BY <3>5, <3>6, <3>7, <4>1
    <3>9. w[1] = items[x]
      BY <3>1, <3>3, <3>5, <3>6, <3>8
    <3>. QED  BY <1>10, <3>7, <3>9
  <2>. QED  BY <2>5, <2>8, <2>10, <2>11 DEF CutFrom
<1>24. WindowKept(w, items)
  <2>. HIDE DEF H
  <2>. QED  BY <1>10, <1>16, <1>22, <1>23 DEF WindowKept
<1>. QED  BY <1>2, <1>12, <1>24 DEF w

\* What is replayed costs no more than its budget.
LEMMA WindowFits ==
    ASSUME skipped \in Nat, NEW items \in Seq(Entries), Answered(items), Together(items), NEW budget \in Nat,
           NEW played, played = HistoryWindow(items, budget)
    PROVE  /\ WindowKept(played.items, items) /\ Size(played.items) <= budget
           /\ played.start \in Nat
           /\ played.items # <<>> => /\ played.start <= Len(Replayable(items))
                                    /\ played.items = Replayed(Replayable(items), played.start)
<1>. DEFINE entries == Replayable(items)
            start == StickyStart(entries, budget)
<1>1. played = IF budget = 0 \/ entries = <<>> THEN [items |-> <<>>, start |-> skipped]
               ELSE [items |-> Replayed(entries, start), start |-> start]
  BY DEF HistoryWindow
<1>2. entries \in Seq(Entries)
  <2>. DEFINE K == {i \in DOMAIN items : items[i].kind \in {"user", "image", "answer", "call", "output"}}
  <2>1. entries = ItemsAt(items, K) /\ K \in SUBSET (1..Len(items))
    BY DEF Replayable, OfKinds
  <2>. QED  BY <2>1, ItemsSelected
<1>. HIDE DEF entries
<1>3. start \in 0..Len(entries) /\ Size(Beyond(entries, start)) <= budget
  BY <1>2, StartFits
<1>. HIDE DEF start
<1>4. /\ WindowKept(Replayed(entries, start), items)
      /\ Size(Replayed(entries, start)) <= Size(Beyond(entries, start))
  BY <1>3, ReplayedKept DEF entries
<1>5. WindowKept(<<>>, items) /\ Size(<<>>) = 0
  <2>1. MadeOf(<<>>, items, {}, [a \in 1..0 |-> 1])
    BY DEF MadeOf
  <2>2. <<>> \in Seq(Entries) /\ Len(<<>>) = 0
    OBVIOUS
  <2>3. WindowKept(<<>>, items)
    <3>. DEFINE p == [a \in 1..0 |-> 1]
    <3>. HIDE DEF p
    <3>1. MadeOf(<<>>, items, {}, p)
      BY <2>1 DEF p
    <3>. QED  BY <2>2, <3>1 DEF WindowKept
  <2>4. Size(<<>>) = 0
    BY <2>2, CostOfFew
  <2>. QED  BY <2>3, <2>4
<1>6. CASE budget = 0 \/ entries = <<>>
  <2>1. played = [items |-> <<>>, start |-> skipped]
    BY <1>1, <1>6
  <2>. QED  BY <1>5, <2>1
<1>7. CASE ~(budget = 0 \/ entries = <<>>)
  <2>1. played = [items |-> Replayed(entries, start), start |-> start]
    BY <1>1, <1>7
  <2>2. Replayed(entries, start) \in Seq(Entries) /\ Beyond(entries, start) \in Seq(Entries)
    BY <1>2, <1>3, <1>4, EndSelected DEF WindowKept
  <2>3. Size(Replayed(entries, start)) \in Nat /\ Size(Beyond(entries, start)) \in Nat
    BY <2>2, CostOfFew
  <2>4. Size(Replayed(entries, start)) <= budget /\ start \in Nat /\ start <= Len(entries)
    BY <1>2, <1>3, <1>4, <2>3
  <2>. QED  BY <1>4, <1>7, <2>1, <2>4 DEF entries
<1>. QED  BY <1>6, <1>7

-----------------------------------------------------------------------------
(* What is sent                                                                *)

\* What comes before a number, and what comes after it, put together.
LEMMA BodyCarried ==
    ASSUME NEW base \in Seq(Entries), NEW s \in Seq(Entries), NEW t \in Seq(Entries), NEW H, NEW I, NEW p, NEW q,
           MadeOf(s, base, H, p), MadeOf(t, base, I, q), NEW n \in Nat, \A i \in H : i <= n, \A i \in I : n < i
    PROVE  s \o t \in Seq(Entries) /\ \E r : MadeOf(s \o t, base, H \union I, r)
<1>. DEFINE k == Len(s)
            m == Len(t)
            b == Len(base)
            u == s \o t
            r == [a \in 1..(k + m) |-> IF a <= k THEN p[a] ELSE q[a - k]]
<1>1. /\ u \in Seq(Entries) /\ k \in Nat /\ m \in Nat /\ Len(u) = k + m
      /\ \A x \in 1..k : u[x] = s[x]
      /\ \A x \in 1..m : u[k + x] = t[x]
  BY ConcatOf
<1>2. /\ p \in [1..k -> 1..b] /\ q \in [1..m -> 1..b]
      /\ \A x, y \in 1..k : x < y => p[x] < p[y]
      /\ \A x, y \in 1..m : x < y => q[x] < q[y]
      /\ \A x \in 1..k : s[x].id = base[p[x]].id /\ s[x].kind = base[p[x]].kind /\ s[x].pair = base[p[x]].pair
      /\ \A x \in 1..m : t[x].id = base[q[x]].id /\ t[x].kind = base[q[x]].kind /\ t[x].pair = base[q[x]].pair
      /\ {p[x] : x \in 1..k} = H /\ {q[x] : x \in 1..m} = I
  BY DEF MadeOf
<1>3. b \in Nat
  OBVIOUS
<1>. HIDE DEF k, m, b, u
<1>4. \A a \in 1..(k + m) : \/ a \in 1..k /\ a <= k /\ r[a] = p[a] /\ u[a] = s[a]
                            \/ /\ a - k \in 1..m /\ ~(a <= k) /\ r[a] = q[a - k] /\ u[a] = t[a - k]
                               /\ k + (a - k) = a
  <2>. SUFFICES ASSUME NEW a \in 1..(k + m)
                PROVE  \/ a \in 1..k /\ a <= k /\ r[a] = p[a] /\ u[a] = s[a]
                       \/ /\ a - k \in 1..m /\ ~(a <= k) /\ r[a] = q[a - k] /\ u[a] = t[a - k]
                          /\ k + (a - k) = a
    OBVIOUS
  <2>1. CASE a <= k
    <3>1. a \in 1..k
      BY <1>1, <2>1
    <3>. QED  BY <1>1, <2>1, <3>1
  <2>2. CASE ~(a <= k)
    <3>1. a - k \in 1..m /\ k + (a - k) = a
      BY <1>1, <2>2
    <3>2. u[a] = t[a - k]
      BY <1>1, <3>1
    <3>. QED  BY <2>2, <3>1, <3>2
  <2>. QED  BY <2>1, <2>2
<1>5. \A a \in 1..k : a \in 1..(k + m) /\ r[a] = p[a]
  BY <1>1
<1>6. \A a \in 1..m : k + a \in 1..(k + m) /\ r[k + a] = q[a]
  <2>. SUFFICES ASSUME NEW a \in 1..m PROVE k + a \in 1..(k + m) /\ r[k + a] = q[a]
    OBVIOUS
  <2>1. k + a \in 1..(k + m) /\ ~(k + a <= k) /\ (k + a) - k = a
    BY <1>1
  <2>. QED  BY <2>1
<1>. HIDE DEF r
<1>7. r \in [1..(k + m) -> 1..b]
  <2>1. \A a \in 1..(k + m) : r[a] \in 1..b
    BY <1>2, <1>4
  <2>. QED  BY <2>1 DEF r
<1>8. ASSUME NEW x \in 1..(k + m), NEW y \in 1..(k + m), x < y PROVE r[x] < r[y]
  <2>1. CASE y <= k
    <3>1. x \in 1..k /\ y \in 1..k
      BY <1>1, <1>8, <2>1
    <3>. QED  BY <1>2, <1>5, <1>8, <3>1
  <2>2. CASE ~(y <= k) /\ x <= k
    <3>1. r[x] \in H /\ r[y] \in I
      BY <1>2, <1>4, <2>2
    <3>2. r[x] <= n /\ n < r[y] /\ r[x] \in Nat /\ r[y] \in Nat
      BY <1>3, <1>7, <3>1
    <3>. QED  BY <3>2
  <2>3. CASE ~(x <= k)
    <3>1. x - k \in 1..m /\ y - k \in 1..m /\ x - k < y - k /\ ~(y <= k)
      BY <1>1, <1>8, <2>3
    <3>2. r[x] = q[x - k] /\ r[y] = q[y - k]
      BY <1>4, <2>3, <3>1
    <3>. QED  BY <1>2, <3>1, <3>2
  <2>. QED  BY <2>1, <2>2, <2>3
<1>9. \A a \in 1..(k + m) : u[a].id = base[r[a]].id /\ u[a].kind = base[r[a]].kind /\ u[a].pair = base[r[a]].pair
  BY <1>2, <1>4, SMTT(30)
<1>10. {r[a] : a \in 1..(k + m)} = H \union I
  <2>1. \A a \in 1..(k + m) : r[a] \in H \union I
    BY <1>2, <1>4
  <2>2. \A i \in H : \E a \in 1..(k + m) : r[a] = i
    BY <1>2, <1>5
  <2>3. \A i \in I : \E a \in 1..(k + m) : r[a] = i
    BY <1>2, <1>6
  <2>. QED  BY <2>1, <2>2, <2>3
<1>11. MadeOf(u, base, H \union I, r)
  BY <1>1, <1>7, <1>8, <1>9, <1>10 DEF MadeOf, b
<1>. QED  BY <1>1, <1>11 DEF u

\* Everything once and in order, calls with their outputs, and outputs with their calls but
\* for those of calls that are left out.
BodySound(body, base, J) ==
    /\ \A i, j \in DOMAIN body : i < j => body[i].id < body[j].id
    /\ \A i \in DOMAIN body : body[i].kind = "call" => \E j \in DOMAIN body : Joins(body, i, j)
    /\ \A j \in DOMAIN body : body[j].kind = "output" =>
          \/ \E i \in DOMAIN body : Joins(body, i, j)
          \/ \E x, y : Joins(base, x, y) /\ y \in J /\ x \notin J /\ base[y].pair = body[j].pair

\* What carries a transcript, with the outputs of its calls.
LEMMA CarriedSound ==
    ASSUME NEW base \in Seq(Entries), Answered(base), IdsRise(base), NEW body \in Seq(Entries), NEW J, NEW r,
           MadeOf(body, base, J, r), \A i, j : Joins(base, i, j) /\ i \in J => j \in J
    PROVE  BodySound(body, base, J)
<1>. DEFINE n == Len(body)
            b == Len(base)
<1>1. /\ r \in [1..n -> 1..b]
      /\ \A x, y \in 1..n : x < y => r[x] < r[y]
      /\ \A x \in 1..n : body[x].id = base[r[x]].id /\ body[x].kind = base[r[x]].kind
                         /\ body[x].pair = base[r[x]].pair
      /\ {r[x] : x \in 1..n} = J
  BY DEF MadeOf
<1>2. DOMAIN body = 1..n /\ n \in Nat
  OBVIOUS
<1>3. /\ \A i, j : Joins(base, i, j) =>
            i < j /\ i \in 1..b /\ j \in 1..b /\ base[i].kind = "call" /\ base[j].kind = "output"
            /\ base[i].pair = base[j].pair
      /\ \A i \in 1..b : base[i].kind = "call" => \E j : Joins(base, i, j)
      /\ \A j \in 1..b : base[j].kind = "output" => \E i : Joins(base, i, j)
  BY AnsweredPairs
<1>4. \A x, y \in 1..n : x < y <=> r[x] < r[y]
  BY PlacesOrdered
<1>5. \A i, j \in 1..b : i < j => base[i].id < base[j].id
  BY DEF IdsRise
<1>. HIDE DEF n, b
<1>6. \A x, y \in 1..n : Joins(base, r[x], r[y]) => Joins(body, x, y)
  BY <1>1, <1>2, <1>3, <1>4 DEF Joins
<1>7. ASSUME NEW x \in 1..n, NEW y \in 1..n, x < y PROVE body[x].id < body[y].id
  <2>1. r[x] \in 1..b /\ r[y] \in 1..b /\ r[x] < r[y]
    BY <1>1, <1>7
  <2>. QED  BY <1>1, <1>5, <2>1
<1>8. ASSUME NEW x \in 1..n, body[x].kind = "call" PROVE \E y \in 1..n : Joins(body, x, y)
  <2>1. r[x] \in 1..b /\ base[r[x]].kind = "call" /\ r[x] \in J
    BY <1>1, <1>8
  <2>2. PICK j : Joins(base, r[x], j)
    BY <1>3, <2>1
  <2>3. j \in J
    BY <2>1, <2>2
  <2>4. PICK y \in 1..n : r[y] = j
    BY <1>1, <2>3
  <2>. QED  BY <1>6, <2>2, <2>4
<1>9. ASSUME NEW y \in 1..n, body[y].kind = "output"
      PROVE  \/ \E x \in 1..n : Joins(body, x, y)
             \/ \E i, j : Joins(base, i, j) /\ j \in J /\ i \notin J /\ base[j].pair = body[y].pair
  <2>1. r[y] \in 1..b /\ base[r[y]].kind = "output" /\ r[y] \in J /\ base[r[y]].pair = body[y].pair
    BY <1>1, <1>9
  <2>2. PICK i : Joins(base, i, r[y])
    BY <1>3, <2>1
  <2>3. CASE i \notin J
    BY <2>1, <2>2, <2>3
  <2>4. CASE i \in J
    <3>1. PICK x \in 1..n : r[x] = i
      BY <1>1, <2>4
    <3>. QED  BY <1>6, <2>2, <3>1
  <2>. QED  BY <2>3, <2>4
<1>. QED  BY <1>2, <1>7, <1>8, <1>9 DEF BodySound

\* A window of a beginning of the transcript, which base goes on, and a part of what is after it.
SentApart(items, base, f, played, turn, I, q) ==
    /\ items \in Seq(Entries) /\ Answered(items) /\ Together(items)
    /\ base \in Seq(Entries) /\ Answered(base) /\ IdsRise(base)
    /\ Len(items) <= Len(base) /\ Alike(Len(items), items, base) /\ Uncut(base, Len(items))
    /\ f \in 0..Len(items) /\ Uncut(items, f)
    /\ WindowKept(played, SubSeq(items, 1, f))
    /\ turn \in Seq(Entries) /\ MadeOf(turn, base, I, q) /\ (\A i \in I : f < i) /\ PairsClosed(base, I)

\* The two put together.
LEMMA SentSound ==
    ASSUME NEW items, NEW base, NEW f, NEW played, NEW turn, NEW I, NEW q,
           SentApart(items, base, f, played, turn, I, q)
    PROVE  /\ played \o turn \in Seq(Entries)
           /\ \E J : /\ BodySound(played \o turn, base, J)
                     /\ \A x, y : Joins(base, x, y) /\ y \in J /\ x \notin J => CutFrom(items, played, base[y].pair)
<1>0. /\ items \in Seq(Entries) /\ Answered(items) /\ Together(items)
      /\ base \in Seq(Entries) /\ Answered(base) /\ IdsRise(base)
      /\ Len(items) <= Len(base) /\ Alike(Len(items), items, base) /\ Uncut(base, Len(items))
      /\ f \in 0..Len(items) /\ Uncut(items, f)
      /\ WindowKept(played, SubSeq(items, 1, f))
      /\ turn \in Seq(Entries) /\ MadeOf(turn, base, I, q) /\ (\A i \in I : f < i) /\ PairsClosed(base, I)
  BY DEF SentApart
<1>. USE <1>0
<1>. DEFINE pre == SubSeq(items, 1, f)
            b == Len(base)
<1>1. ToolsAnswered(items)
  BY AnsweredTogether
<1>2. /\ pre \in Seq(Entries) /\ Len(pre) = f
      /\ \A i \in 1..f : pre[i] = items[i]
  BY <1>1, CutAnswered
<1>. HIDE DEF pre
<1>3. PICK H, p : /\ MadeOf(played, pre, H, p)
                  /\ \A i, j : Joins(pre, i, j) /\ i \in H => j \in H
                  /\ \A i, j : Joins(pre, i, j) /\ j \in H /\ i \notin H => CutFrom(pre, played, pre[j].pair)
  BY DEF WindowKept, pre
<1>4. played \in Seq(Entries)
  BY DEF WindowKept, pre
<1>5. f \in Nat /\ b \in Nat /\ f <= b /\ Len(items) \in Nat /\ f <= Len(items) /\ Len(items) <= b
  OBVIOUS
<1>6. \A i \in 1..f : pre[i] = base[i] /\ i \in 1..Len(items)
  BY <1>2, <1>5 DEF Alike
<1>. HIDE DEF b
<1>7. H \subseteq 1..f
  BY <1>2, <1>3 DEF MadeOf
<1>8. MadeOf(played, base, H, p)
  <2>1. /\ p \in [1..Len(played) -> 1..f]
        /\ \A x, y \in 1..Len(played) : x < y => p[x] < p[y]
        /\ \A x \in 1..Len(played) : played[x].id = pre[p[x]].id /\ played[x].kind = pre[p[x]].kind
                                     /\ played[x].pair = pre[p[x]].pair
        /\ {p[x] : x \in 1..Len(played)} = H
    BY <1>2, <1>3 DEF MadeOf
  <2>2. p \in [1..Len(played) -> 1..b]
    BY <1>5, <2>1
  <2>3. \A x \in 1..Len(played) : played[x].id = base[p[x]].id /\ played[x].kind = base[p[x]].kind
                                  /\ played[x].pair = base[p[x]].pair
    BY <1>6, <2>1
  <2>. QED  BY <2>1, <2>2, <2>3 DEF MadeOf, b
<1>9. /\ played \o turn \in Seq(Entries)
      /\ \E r : MadeOf(played \o turn, base, H \union I, r)
  <2>1. f \in Nat /\ (\A i \in H : i <= f) /\ (\A i \in I : f < i)
    BY <1>5, <1>7
  <2>. QED  BY <1>4, <1>8, <2>1, BodyCarried
\* What is joined in the part before.
<1>10. ASSUME NEW i, NEW j, Joins(base, i, j), i \in H \/ j \in H PROVE Joins(pre, i, j)
  <2>0. i \in 1..b /\ j \in 1..b /\ i < j
    BY <1>10, AnsweredPairs DEF b
  <2>1. i \in 1..f
    BY <1>5, <1>7, <1>10, <2>0
  <2>2. i \in 1..Len(items)
    BY <1>5, <2>1
  <2>3. j <= Len(items)
    BY <1>10, <2>2 DEF Uncut
  <2>4. Joins(items, i, j)
    BY <1>10, <2>3, BeginningJoins
  <2>5. j <= f
    BY <2>1, <2>4 DEF Uncut
  <2>6. Alike(Len(pre), pre, items)
    BY <1>2 DEF Alike
  <2>7. Joins(pre, i, j)
    BY <1>2, <1>5, <2>4, <2>5, <2>6, BeginningJoins
  <2>. QED  BY <2>7
<1>11. \A i, j : Joins(base, i, j) => (i \in I <=> j \in I)
  BY DEF PairsClosed
<1>12. \A i, j : Joins(base, i, j) /\ i \in H \union I => j \in H \union I
  BY <1>3, <1>10, <1>11
<1>13. ASSUME NEW pair, CutFrom(pre, played, pair) PROVE CutFrom(items, played, pair)
  <2>1. PICK c \in DOMAIN pre, i \in DOMAIN pre :
           /\ c < i /\ pre[c].pair = pair
           /\ \A k \in c..i : pre[k].kind = "call"
           /\ played # <<>> /\ pre[i] = Head(played)
    BY <1>13 DEF CutFrom
  <2>2. c \in 1..f /\ i \in 1..f /\ \A k \in c..i : k \in 1..f
    BY <1>2, <1>5, <2>1
  <2>3. c \in DOMAIN items /\ i \in DOMAIN items
    BY <1>5, <2>2
  <2>4. items[c] = pre[c] /\ items[i] = pre[i] /\ \A k \in c..i : items[k] = pre[k]
    BY <1>2, <2>2
  <2>. QED  BY <2>1, <2>3, <2>4 DEF CutFrom
<1>14. \A x, y : Joins(base, x, y) /\ y \in H \union I /\ x \notin H \union I =>
                CutFrom(items, played, base[y].pair)
  <2>. SUFFICES ASSUME NEW x, NEW y, Joins(base, x, y), y \in H \union I, x \notin H \union I
                PROVE  CutFrom(items, played, base[y].pair)
    OBVIOUS
  <2>1. y \in H /\ Joins(pre, x, y)
    BY <1>10, <1>11
  <2>2. y \in 1..f /\ pre[y] = base[y]
    BY <1>2, <1>6, <2>1 DEF Joins
  <2>3. CutFrom(pre, played, pre[y].pair)
    BY <1>3, <2>1
  <2>. QED  BY <1>13, <2>2, <2>3
<1>15. BodySound(played \o turn, base, H \union I)
  BY <1>9, <1>12, CarriedSound
<1>. QED  BY <1>9, <1>14, <1>15

\* Where the active turn begins, less one.
Before(items) == First0(ActiveIndices(items)) - 1

\* What a request was made into, by the window that was chosen for it.
BuiltAs(items, built) ==
    /\ built.skipped \in Nat
    /\ built.made.status = "sent" =>
          /\ built.made.budget \in Nat /\ ActiveIndices(items) # {}
          /\ built.made.history = HistoryWindow(SubSeq(items, 1, Before(items)), built.made.budget).items
          /\ built.skipped = HistoryWindow(SubSeq(items, 1, Before(items)), built.made.budget).start
    /\ built.made.status # "sent" => built.made.history = <<>>

\* A request that is refused for what it is.
LEMMA DeclinedSound ==
    ASSUME NEW items, NEW why, why \notin {"sent", "too long"}
    PROVE  Sound(items, Declined(why)) /\ Declined(why).status # "sent" /\ Declined(why).history = <<>>
BY DEF Sound, Declined, Nothing

\* Line by which a turn goes on of which nothing is left.
LEMMA GoesOnSound ==
    ASSUME NEW items \in Seq(Entries), ToolsAnswered(items), IdsRise(items), Len(items) > 0,
           NEW base, base = items \o <<GoesOn(items)>>
    PROVE  /\ GoesOn(items) \in Entries /\ GoesOn(items).size = 1
           /\ base \in Seq(Entries) /\ Len(base) = Len(items) + 1 /\ Alike(Len(items), items, base)
           /\ ToolsAnswered(base) /\ IdsRise(base) /\ Uncut(base, Len(items))
           /\ MadeOf(<<GoesOn(items)>>, base, {Len(items) + 1}, [a \in 1..1 |-> Len(items) + 1])
           /\ PairsClosed(base, {Len(items) + 1})
<1>. DEFINE g == GoesOn(items)
            u == <<g>>
            n == Len(items)
            id == items[Len(items)].id + 1
<1>0. n \in 1..Len(items) /\ n \in Nat /\ \A x \in 1..n : items[x] \in Entries /\ items[x].id \in Nat
  <2>1. n \in 1..Len(items) /\ n \in Nat /\ \A x \in 1..n : items[x] \in Entries
    OBVIOUS
  <2>. QED  BY <2>1 DEF Entries
<1>1. g = [id |-> id, kind |-> "user", size |-> 1, pair |-> 0] /\ id \in Nat
  BY <1>0 DEF GoesOn
<1>2. g \in Entries /\ g.size = 1 /\ g.kind = "user" /\ g.id = id
  BY <1>1 DEF Entries
<1>. HIDE DEF g
<1>3. u \in Seq(Entries) /\ Len(u) = 1 /\ u[1] = g /\ DOMAIN u = {1}
  BY <1>2
<1>. HIDE DEF u, id
<1>4. /\ base \in Seq(Entries) /\ n \in Nat /\ Len(base) = n + 1
      /\ \A x \in 1..n : base[x] = items[x]
      /\ \A x \in 1..1 : base[n + x] = u[x]
  BY <1>3, ConcatOf DEF u, g
<1>5. base[n + 1] = g
  BY <1>3, <1>4
<1>6. ToolsAnswered(u)
  BY <1>2, <1>3 DEF ToolsAnswered, Joins, Tools
<1>7. ToolsAnswered(base) /\ Uncut(base, n)
  <2>1. \A i \in 1..Len(items), j \in 1..Len(u) :
           items[i].kind \in Tools /\ u[j].kind \in Tools => items[i].pair # u[j].pair
    BY <1>2, <1>3 DEF Tools
  <2>2. base = items \o u
    BY DEF u, g
  <2>. QED  BY <1>3, <1>6, <2>1, <2>2, AddedAnswered
<1>. HIDE DEF n
<1>8. \A x \in 1..(n + 1) : x = n + 1 \/ x \in 1..n
  BY <1>4
<1>9. ASSUME NEW x \in 1..(n + 1), NEW y \in 1..(n + 1), x < y PROVE base[x].id < base[y].id
  <2>1. x \in 1..n
    BY <1>4, <1>9
  <2>2. CASE y \in 1..n
    BY <1>4, <1>9, <2>1, <2>2 DEF IdsRise, n
  <2>3. CASE y = n + 1
    <3>. PICK a, b, c : a = items[x].id /\ b = items[n].id /\ c = g.id
      OBVIOUS
    <3>1. x = n \/ x < n
      BY <1>0, <2>1
    <3>2. a = b \/ a < b
      BY <1>0, <2>1, <3>1 DEF IdsRise, n
    <3>3. a \in Nat /\ b \in Nat /\ c = b + 1
      BY <1>0, <1>2, <2>1 DEF id, n
    <3>4. a < c
      BY <3>2, <3>3, SMTT(30)
    <3>. QED  BY <1>4, <1>5, <2>1, <2>3, <3>4
  <2>. QED  BY <1>8, <2>2, <2>3
<1>10. IdsRise(base)
  BY <1>4, <1>9 DEF IdsRise
<1>11. MadeOf(u, base, {n + 1}, [a \in 1..1 |-> n + 1])
  <2>. DEFINE p == [a \in 1..1 |-> n + 1]
  <2>1. p \in [1..1 -> 1..(n + 1)] /\ p[1] = n + 1 /\ {p[a] : a \in 1..1} = {n + 1}
    BY <1>4
  <2>2. \A a, b \in 1..1 : ~(a < b) /\ a = 1
    OBVIOUS
  <2>. HIDE DEF p
  <2>4. \A a \in 1..1 : u[a] = base[p[a]]
    BY <1>3, <1>5, <2>1, <2>2
  <2>5. \A a \in 1..1 : u[a].id = base[p[a]].id /\ u[a].kind = base[p[a]].kind /\ u[a].pair = base[p[a]].pair
    BY <2>4
  <2>3. MadeOf(u, base, {n + 1}, p)
    BY <1>3, <1>4, <2>1, <2>2, <2>5 DEF MadeOf
  <2>. QED  BY <2>3 DEF p
<1>12. PairsClosed(base, {n + 1})
  <2>1. \A i, j : Joins(base, i, j) => base[i].kind = "call" /\ base[j].kind = "output"
    BY DEF Joins
  <2>. QED  BY <1>2, <1>5, <2>1 DEF PairsClosed
<1>. QED  BY <1>2, <1>4, <1>7, <1>10, <1>11, <1>12 DEF Alike, n, u, g

\* A user's instruction is in the turn that begins with it.
LEMMA InstructionIs ==
    ASSUME NEW items \in Seq(Entries), Answered(items), Together(items), Refusal(items) = "none"
    PROVE  /\ ActiveIndices(items) # {}
           /\ {i \in Users(items) : items[i].kind = "user"} # {} =>
                 LET user == Last0({i \in Users(items) : items[i].kind = "user"})
                 IN  user \in ActiveIndices(items) /\ items[user].kind = "user"
<1>. DEFINE users == {i \in Users(items) : items[i].kind = "user"}
<1>1. CASE Users(items) = {}
  <2>1. Completed(items) # {}
    BY <1>1 DEF Refusal
  <2>2. ActiveIndices(items) # {}
    BY <1>1, <2>1, CompletedIs
  <2>. QED  BY <1>1, <2>2
<1>2. CASE Users(items) # {}
  <2>0. Len(items) \in Nat
    OBVIOUS
  <2>1. Users(items) \in SUBSET (1..Len(items)) /\ \A i \in Users(items) : items[i].kind \in {"user", "image"}
    BY DEF Users
  <2>2. Last0(Users(items)) \in Users(items) /\ \A i \in Users(items) : i <= Last0(Users(items))
    BY <1>2, <2>0, <2>1, LastOf
  <2>3. items[Last0(Users(items))].kind # "image"
    BY <1>2 DEF Refusal
  <2>4. Last0(Users(items)) \in users
    BY <2>1, <2>2, <2>3
  <2>5. Last0(users) = Last0(Users(items))
    <3>1. users \in SUBSET (1..Len(items)) /\ users # {}
      BY <2>1, <2>4
    <3>2. Last0(users) \in users /\ \A i \in users : i <= Last0(users)
      <4>. HIDE DEF users
      <4>. QED  BY <2>0, <3>1, LastOf
    <3>3. Last0(users) <= Last0(Users(items)) /\ Last0(Users(items)) <= Last0(users)
      BY <2>2, <2>4, <3>2
    <3>4. Last0(users) \in Nat /\ Last0(Users(items)) \in Nat
      BY <2>1, <2>2, <3>1, <3>2
    <3>. QED  BY <3>3, <3>4
  <2>6. Last0(Users(items)) \in ActiveIndices(items)
    BY <1>2 DEF ActiveIndices
  <2>. HIDE DEF users
  <2>7. items[Last0(users)].kind = "user"
    BY <2>4, <2>5 DEF users
  <2>. QED  BY <2>5, <2>6, <2>7 DEF users
<1>. QED  BY <1>1, <1>2

\* What is sent is in order, and paired but for parallel calls the window left out; and
\* has the instruction.
SentAs(items, played, turn) ==
    /\ \A i, j \in DOMAIN (played \o turn) : i < j => (played \o turn)[i].id < (played \o turn)[j].id
    /\ LET users == {i \in Users(items) : items[i].kind = "user"}
       IN  users # {} => \E i \in DOMAIN turn : turn[i].id = items[Last0(users)].id
    /\ \A j \in DOMAIN (played \o turn) :
          (played \o turn)[j].kind = "output" /\ ~CutFrom(items, played, (played \o turn)[j].pair) =>
            \E i \in DOMAIN (played \o turn) : Joins(played \o turn, i, j)
    /\ \A i \in DOMAIN (played \o turn) : (played \o turn)[i].kind = "call" =>
          \E j \in DOMAIN (played \o turn) : Joins(played \o turn, i, j)

\* What is sent, whichever turn is left: some of the active turn, or the line in its place.
LEMMA TurnSent ==
    ASSUME NEW items \in Seq(Entries), ToolsAnswered(items), IdsRise(items), Refusal(items) = "none",
           NEW left, TurnKept(left, items), Size(left) <= ActiveBudget,
           NEW turn, turn = IF left = <<>> THEN <<GoesOn(items)>> ELSE left,
           NEW played, WindowKept(played, SubSeq(items, 1, Before(items)))
    PROVE  /\ turn \in Seq(Entries) /\ Size(turn) <= ActiveBudget
           /\ SentAs(items, played, turn)
<1>. DEFINE picked == ActiveIndices(items)
            f == Before(items)
            users == {i \in Users(items) : items[i].kind = "user"}
<1>1. Answered(items) /\ Together(items)
  BY AnsweredTogether
<1>2. /\ picked # {}
      /\ users # {} => Last0(users) \in picked /\ items[Last0(users)].kind = "user"
  BY <1>1, InstructionIs
<1>3. TurnShaped(items)
  BY <1>1, <1>2, TurnIs
<1>4. /\ picked \in SUBSET (1..Len(items)) /\ Len(items) \in Nat
      /\ f \in 0..Len(items) /\ \A i \in picked : f < i
      /\ Uncut(items, f)
  <2>1. /\ picked \in SUBSET (1..Len(items)) /\ First0(picked) \in picked
        /\ \A i \in picked : First0(picked) <= i
        /\ Uncut(items, f)
    BY <1>3 DEF TurnShaped, Before
  <2>2. Len(items) \in Nat
    OBVIOUS
  <2>. HIDE DEF picked
  <2>3. f = First0(picked) - 1
    BY DEF Before, picked
  <2>4. f \in 0..Len(items) /\ \A i \in picked : f < i
    <3>. PICK b, g : b = First0(picked) /\ g = f
      OBVIOUS
    <3>1. g = b - 1 /\ b \in 1..Len(items) /\ \A i \in picked : b <= i /\ i \in 1..Len(items)
      BY <2>1, <2>3
    <3>2. g \in 0..Len(items) /\ \A i \in picked : g < i
      BY <2>2, <3>1
    <3>. QED  BY <3>2
  <2>. QED  BY <2>1, <2>2, <2>4
<1>5. left \in Seq(Entries) /\ \E I, p : MadeOf(left, items, I, p) /\ I \subseteq picked /\ PairsClosed(items, I)
                              /\ \A i \in picked : items[i].kind = "user" => i \in I
  BY DEF TurnKept
<1>6. PICK I, p : /\ MadeOf(left, items, I, p) /\ I \subseteq picked /\ PairsClosed(items, I)
                  /\ \A i \in picked : items[i].kind = "user" => i \in I
  BY <1>5
<1>. HIDE DEF picked, f, users
<1>7. /\ \A a \in 1..Len(left) : left[a].id = items[p[a]].id
      /\ {p[a] : a \in 1..Len(left)} = I
  BY <1>6 DEF MadeOf
<1>8. users # {} => \E a \in 1..Len(left) : left[a].id = items[Last0(users)].id
  <2>. SUFFICES ASSUME users # {} PROVE \E a \in 1..Len(left) : left[a].id = items[Last0(users)].id
    OBVIOUS
  <2>1. Last0(users) \in I
    BY <1>2, <1>6
  <2>. QED  BY <1>7, <2>1
<1>9. WindowKept(played, SubSeq(items, 1, f))
  BY DEF f
<1>. DEFINE body == played \o turn
<1>10. ASSUME NEW base, NEW J, BodySound(body, base, J),
              \A x, y : Joins(base, x, y) /\ y \in J /\ x \notin J => CutFrom(items, played, base[y].pair)
       PROVE  /\ \A i, j \in DOMAIN body : i < j => body[i].id < body[j].id
              /\ \A j \in DOMAIN body :
                    body[j].kind = "output" /\ ~CutFrom(items, played, body[j].pair) =>
                      \E i \in DOMAIN body : Joins(body, i, j)
              /\ \A i \in DOMAIN body : body[i].kind = "call" => \E j \in DOMAIN body : Joins(body, i, j)
  <2>. HIDE DEF body
  <2>. QED  BY <1>10 DEF BodySound
<1>11. CASE left = <<>>
  <2>. DEFINE base == items \o <<GoesOn(items)>>
              n == Len(items)
  <2>1. turn = <<GoesOn(items)>>
    BY <1>11
  <2>2. /\ GoesOn(items) \in Entries /\ GoesOn(items).size = 1
        /\ base \in Seq(Entries) /\ Len(base) = n + 1 /\ Alike(n, items, base)
        /\ ToolsAnswered(base) /\ IdsRise(base) /\ Uncut(base, n)
        /\ MadeOf(<<GoesOn(items)>>, base, {n + 1}, [a \in 1..1 |-> n + 1])
        /\ PairsClosed(base, {n + 1})
    <3>1. Len(items) > 0
      BY <1>2, <1>4
    <3>. QED  BY <3>1, GoesOnSound
  <2>. DEFINE q == [a \in 1..1 |-> n + 1]
  <2>3. MadeOf(turn, base, {n + 1}, q)
    BY <2>1, <2>2
  <2>4. Answered(base)
    BY <2>2, AnsweredTogether
  <2>. HIDE DEF base, q
  <2>5. turn \in Seq(Entries) /\ Len(turn) = 1 /\ turn[1] = GoesOn(items)
    <3>. PICK g : g = GoesOn(items)
      OBVIOUS
    <3>1. g \in Entries /\ turn = <<g>>
      BY <2>1, <2>2
    <3>2. <<g>> \in Seq(Entries) /\ Len(<<g>>) = 1 /\ <<g>>[1] = g
      BY <3>1
    <3>. QED  BY <3>1, <3>2, Zenon
  <2>6. n <= Len(base) /\ \A i \in {n + 1} : f < i
    BY <1>4, <2>2
  <2>7. \E J : /\ BodySound(body, base, J)
               /\ \A x, y : Joins(base, x, y) /\ y \in J /\ x \notin J => CutFrom(items, played, base[y].pair)
    <3>1. Len(items) <= Len(base) /\ Alike(Len(items), items, base) /\ Uncut(base, Len(items))
          /\ PairsClosed(base, {n + 1})
      BY <2>2, <2>6
    <3>. HIDE DEF n
    <3>2. base \in Seq(Entries) /\ IdsRise(base)
      BY <2>2
    <3>3. SentApart(items, base, f, played, turn, {n + 1}, q)
      BY <1>1, <1>4, <1>9, <2>3, <2>4, <2>5, <2>6, <3>1, <3>2 DEF SentApart
    <3>. QED  BY <3>3, SentSound
  <2>8. users = {}
    <3>1. Len(left) = 0
      BY <1>11
    <3>. QED  BY <1>8, <3>1
  <2>9. Size(turn) = 1 /\ ActiveBudget \in Nat \ {0}
    BY <2>2, <2>5, CostOfFew, AllocationAssumption
  <2>10. Size(turn) <= ActiveBudget
    BY <2>9
  <2>. QED  BY <1>10, <2>5, <2>7, <2>8, <2>10 DEF SentAs, users
<1>12. CASE left # <<>>
  <2>1. turn = left
    BY <1>12
  <2>2. Alike(Len(items), items, items) /\ Uncut(items, Len(items)) /\ Len(items) <= Len(items)
    <3>1. \A i, j : Joins(items, i, j) => i \in 1..Len(items) /\ j \in 1..Len(items)
      BY <1>1, AnsweredPairs
    <3>. QED  BY <1>4, <3>1 DEF Alike, Uncut
  <2>3. \A i \in I : f < i
    BY <1>4, <1>6
  <2>4. turn \in Seq(Entries) /\ MadeOf(turn, items, I, p)
    BY <1>5, <1>6, <2>1
  <2>5. \E J : /\ BodySound(body, items, J)
               /\ \A x, y : Joins(items, x, y) /\ y \in J /\ x \notin J => CutFrom(items, played, items[y].pair)
    <3>1. SentApart(items, items, f, played, turn, I, p)
      BY <1>1, <1>4, <1>6, <1>9, <2>2, <2>3, <2>4 DEF SentApart
    <3>. QED  BY <3>1, SentSound
  <2>6. users # {} => \E i \in DOMAIN turn : turn[i].id = items[Last0(users)].id
    BY <1>8, <2>1, <2>4
  <2>. QED  BY <1>10, <2>1, <2>4, <2>5, <2>6 DEF SentAs, users
<1>. QED  BY <1>11, <1>12

\* What is left for history, and the turn, are within the budget of the turn.
LEMMA BudgetIs ==
    ASSUME NEW turn \in Seq(Entries), Size(turn) <= ActiveBudget
    PROVE  Budget(turn) \in Nat /\ Budget(turn) + Size(turn) <= ActiveBudget
<1>1. Size(turn) \in Nat /\ ActiveBudget \in Nat /\ HistoryBudget \in Nat
  BY CostOfFew, AllocationAssumption
<1>. PICK size, left : size = Size(turn) /\ left = IF size < ActiveBudget THEN ActiveBudget - size ELSE 0
  OBVIOUS
<1>2. Budget(turn) = IF left < HistoryBudget THEN left ELSE HistoryBudget
  BY DEF Budget
<1>3. left \in Nat /\ left + size <= ActiveBudget /\ size \in Nat
  BY <1>1
<1>. QED  BY <1>1, <1>2, <1>3

\* All that is sent has the room that was allotted: nothing has to go.
LEMMA AllFits ==
    ASSUME NEW turn \in Seq(Entries), Size(turn) <= ActiveBudget, NEW played \in Seq(Entries),
           Size(played) <= Budget(turn), NEW memory \in {0, MemoryBudget}, NEW budget
    PROVE  Fitted(played, turn, memory, budget) =
              [status |-> "sent", history |-> played, active |-> turn, budget |-> budget, whole |-> TRUE]
<1>1. Budget(turn) \in Nat /\ Budget(turn) + Size(turn) <= ActiveBudget
  BY BudgetIs
<1>2. Size(turn) \in Nat /\ Size(played) \in Nat
  BY CostOfFew
<1>3. /\ SystemBudget \in Nat /\ MemoryBudget \in Nat /\ ToolsBudget \in Nat /\ ActiveBudget \in Nat /\ MaxInput \in Nat
      /\ SystemBudget + MemoryBudget + ToolsBudget + ActiveBudget <= MaxInput
  BY AllocationAssumption
<1>. PICK a, w, b : a = Size(turn) /\ w = Size(played) /\ b = Budget(turn)
  OBVIOUS
<1>4. SystemBudget + w + memory + a + ToolsBudget <= MaxInput
  BY <1>1, <1>2, <1>3, SMTT(30)
<1>5. Total(played, turn, memory, ToolsBudget) <= MaxInput
  BY <1>4 DEF Total
<1>. QED  BY <1>5 DEF Fitted

\* A request that has an instruction is made into something sound, or refused.
LEMMA BuiltSound ==
    ASSUME skipped \in Nat, NEW items \in Seq(Entries), ToolsAnswered(items), IdsRise(items), Refusal(items) = "none",
           NEW memory \in {0, MemoryBudget}, NEW built, built = Built(items, memory)
    PROVE  Sound(items, built.made) /\ BuiltAs(items, built)
<1>. DEFINE picked == ActiveIndices(items)
            trimmed == Trimmed(ItemsAt(items, picked))
            turn == IF trimmed.items = <<>> THEN <<GoesOn(items)>> ELSE trimmed.items
            budget == Budget(turn)
            pre == SubSeq(items, 1, Before(items))
            played == HistoryWindow(pre, budget)
<1>1. built = IF ~trimmed.fits THEN [made |-> Declined("turn too long"), skipped |-> skipped]
              ELSE [made |-> Fitted(played.items, turn, memory, budget), skipped |-> played.start]
  BY DEF Built, Before
<1>2. Answered(items) /\ Together(items)
  BY AnsweredTogether
<1>3. picked # {} /\ TurnShaped(items)
  BY <1>2, InstructionIs, TurnIs
<1>. HIDE DEF played, pre, budget, turn, trimmed
<1>4. CASE ~trimmed.fits
  <2>1. built = [made |-> Declined("turn too long"), skipped |-> skipped]
    BY <1>1, <1>4
  <2>2. "turn too long" \notin {"sent", "too long"}
    OBVIOUS
  <2>3. \E s : built = [made |-> s, skipped |-> skipped] /\ Sound(items, s) /\ s.status # "sent" /\ s.history = <<>>
    BY <2>1, <2>2, DeclinedSound, Zenon
  <2>4. PICK s : built = [made |-> s, skipped |-> skipped] /\ Sound(items, s) /\ s.status # "sent" /\ s.history = <<>>
    BY <2>3
  <2>5. built.made = s /\ built.skipped = skipped
    BY <2>4
  <2>. QED  BY <2>4, <2>5 DEF BuiltAs
<1>5. CASE trimmed.fits
  <2>1. TurnKept(trimmed.items, items) /\ Size(trimmed.items) <= ActiveBudget
    BY <1>2, <1>3, <1>5, TurnTrimmed DEF trimmed
  <2>2. \A w : WindowKept(w, pre) =>
           turn \in Seq(Entries) /\ Size(turn) <= ActiveBudget /\ SentAs(items, w, turn)
    BY <2>1, TurnSent DEF turn, pre
  <2>3. pre \in Seq(Entries) /\ Answered(pre) /\ Together(pre)
    <3>1. /\ picked \in SUBSET (1..Len(items)) /\ First0(picked) \in picked /\ Uncut(items, Before(items))
      BY <1>3 DEF TurnShaped, Before
    <3>. HIDE DEF picked
    <3>2. Len(items) \in Nat /\ Before(items) = First0(picked) - 1
      BY DEF Before, picked
    <3>. PICK f, b : f = First0(picked) /\ b = Before(items)
      OBVIOUS
    <3>4. f \in 1..Len(items) /\ b = f - 1
      BY <3>1, <3>2
    <3>3. Before(items) \in 0..Len(items)
      BY <3>2, <3>4
    <3>. QED  BY <3>1, <3>3, CutAnswered, AnsweredTogether DEF pre
  <2>4. turn \in Seq(Entries) /\ Size(turn) <= ActiveBudget
    <3>1. \E w : WindowKept(w, pre)
      <4>1. 0 \in Nat
        OBVIOUS
      <4>2. WindowKept(HistoryWindow(pre, 0).items, pre)
        BY <2>3, <4>1, WindowFits
      <4>. QED  BY <4>2
    <3>. QED  BY <2>2, <3>1
  <2>5. budget \in Nat
    BY <2>4, BudgetIs DEF budget
  <2>6. WindowKept(played.items, pre) /\ Size(played.items) <= budget /\ played.start \in Nat
    BY <2>3, <2>5, WindowFits DEF played
  <2>7. SentAs(items, played.items, turn)
    BY <2>2, <2>6
  <2>8. played.items \in Seq(Entries)
    BY <2>6 DEF WindowKept
  <2>9. /\ built.made = [status |-> "sent", history |-> played.items, active |-> turn, budget |-> budget,
                         whole |-> TRUE]
        /\ built.skipped = played.start
    <3>1. built = [made |-> Fitted(played.items, turn, memory, budget), skipped |-> played.start]
      BY <1>1, <1>5
    <3>2. Fitted(played.items, turn, memory, budget) =
             [status |-> "sent", history |-> played.items, active |-> turn, budget |-> budget, whole |-> TRUE]
      BY <2>4, <2>6, <2>8, AllFits, ZenonT(60) DEF budget
    <3>. QED  BY <3>1, <3>2
  <2>10. Sound(items, built.made)
    <3>. PICK s : s = built.made
      OBVIOUS
    <3>1. s.status = "sent" /\ s.whole = TRUE /\ s.history = played.items /\ s.active = turn
      BY <2>9
    <3>2. SentAs(items, s.history, s.active)
      BY <2>7, <3>1
    <3>3. Sound(items, s)
      BY <3>1, <3>2 DEF Sound, SentAs
    <3>. QED  BY <3>3
  <2>11. BuiltAs(items, built)
    <3>1. built.made.status = "sent" /\ built.made.budget = budget /\ built.made.history = played.items
      BY <2>9
    <3>. QED  BY <1>3, <2>5, <2>6, <2>9, <3>1 DEF BuiltAs, played, pre
  <2>. QED  BY <2>10, <2>11
<1>. QED  BY <1>4, <1>5

-----------------------------------------------------------------------------
(* From request to request                                                     *)

\* What was replayed last is of a beginning of the transcript, before the active turn there
\* is now, and from where the next window is tried to start.
HistoryInv ==
    ~undone /\ made.history # <<>> =>
        /\ ActiveIndices(thread) # {}
        /\ \E f \in 0..Before(thread) :
              /\ Uncut(thread, f)
              /\ skipped <= Len(Replayable(SubSeq(thread, 1, f)))
              /\ made.history = Replayed(Replayable(SubSeq(thread, 1, f)), skipped)

\* Two beginnings of one transcript, one within the other, and what is replayed of both from
\* one start.
Nested(s, t, start) ==
    /\ s \in Seq(Entries) /\ Answered(s) /\ t \in Seq(Entries) /\ Answered(t)
    /\ Len(s) <= Len(t) /\ Alike(Len(s), s, t)
    /\ start \in 0..Len(s)

\* Both open at the same place, unless nothing of the one is left.
LEMMA OpenAlike ==
    ASSUME NEW s, NEW t, NEW start, Nested(s, t, start), Opening(s, start) # Len(s)
    PROVE  Opening(t, start) = Opening(s, start)
<1>. DEFINE x == Opening(s, start)
            y == Opening(t, start)
            orphan(k) == \E i : i <= start /\ Joins(s, i, k)
<1>1. /\ s \in Seq(Entries) /\ Answered(s) /\ t \in Seq(Entries) /\ Answered(t)
      /\ Len(s) <= Len(t) /\ Alike(Len(s), s, t)
      /\ start \in 0..Len(s) /\ start \in 0..Len(t) /\ start \in Nat /\ Len(s) \in Nat /\ Len(t) \in Nat
  BY DEF Nested
<1>2. /\ x \in start..Len(s) /\ ~orphan(x + 1)
      /\ \A k \in (start + 1)..x : orphan(k)
  BY <1>1, OpeningIs
<1>3. /\ y \in start..Len(t)
      /\ \A k \in (start + 1)..y : \E i : i <= start /\ Joins(t, i, k)
      /\ y = Len(t) \/ ~\E i : i <= start /\ Joins(t, i, y + 1)
  BY <1>1, OpeningIs
<1>4. \A k : k <= Len(s) => (orphan(k) <=> \E i : i <= start /\ Joins(t, i, k))
  BY <1>1, BeginningJoins
<1>. HIDE DEF x, y
<1>5. x < Len(s)
  BY <1>1, <1>2 DEF x
<1>6. ~(y < x)
  <2>. SUFFICES ASSUME y < x PROVE FALSE
    OBVIOUS
  <2>1. y + 1 \in (start + 1)..x /\ y + 1 <= Len(s) /\ y # Len(t)
    BY <1>1, <1>2, <1>3, <1>5
  <2>2. orphan(y + 1)
    BY <1>2, <2>1
  <2>. QED  BY <1>3, <1>4, <2>1, <2>2
<1>7. ~(x < y)
  <2>. SUFFICES ASSUME x < y PROVE FALSE
    OBVIOUS
  <2>1. x + 1 \in (start + 1)..y /\ x + 1 <= Len(s)
    BY <1>1, <1>2, <1>3, <1>5
  <2>2. orphan(x + 1)
    BY <1>3, <1>4, <2>1
  <2>. QED  BY <1>2, <2>2
<1>8. x \in Nat /\ y \in Nat
  BY <1>1, <1>2, <1>3
<1>9. x = y
  BY <1>6, <1>7, <1>8
<1>. QED  BY <1>9 DEF x, y

\* What is replayed of one is how what is replayed of the other begins.
LEMMA ReplayedAlike ==
    ASSUME NEW s, NEW t, NEW start, Nested(s, t, start), Replayed(s, start) # <<>>
    PROVE  /\ start < Len(s)
           /\ IsPrefix(Replayed(s, start), Replayed(t, start))
<1>. DEFINE told == {"user", "answer", "call", "output"}
            o == Opening(s, start)
            v == Beyond(s, o)
            w == Beyond(t, o)
            n == Len(s)
            m == Len(t)
            I == {i \in DOMAIN v : v[i].kind \in told}
            J == {i \in DOMAIN w : w[i].kind \in told}
<1>1. /\ s \in Seq(Entries) /\ Answered(s) /\ t \in Seq(Entries) /\ Answered(t)
      /\ n <= m /\ Alike(n, s, t)
      /\ start \in 0..n /\ n \in Nat /\ m \in Nat
  BY DEF Nested
<1>2. o \in start..n
  BY <1>1, OpeningIs
<1>3. Replayed(s, start) = ItemsAt(v, I)
  BY DEF Replayed, OfKinds
<1>. HIDE DEF o, n, m
<1>4. o \in 0..n /\ o \in 0..m
  BY <1>1, <1>2
<1>5. v \in Seq(Entries) /\ Len(v) = n - o /\ \A a \in 1..(n - o) : v[a] = s[a + o]
  BY <1>1, <1>4, EndSelected DEF n
<1>6. w \in Seq(Entries) /\ Len(w) = m - o /\ \A a \in 1..(m - o) : w[a] = t[a + o]
  BY <1>1, <1>4, EndSelected DEF m
<1>. HIDE DEF v, w
<1>7. o # n
  <2>. SUFFICES ASSUME o = n PROVE FALSE
    OBVIOUS
  <2>1. Len(v) = 0 /\ I = {} /\ I \in SUBSET (1..Len(v))
    <3>1. Len(v) = 0
      BY <1>1, <1>5
    <3>. QED  BY <1>5, <3>1
  <2>2. ItemsAt(v, I) \in Seq(Entries) /\ \E p : Selects(ItemsAt(v, I), v, I, p)
    BY <1>5, <2>1, ItemsSelected
  <2>. HIDE DEF I
  <2>. PICK u : u = ItemsAt(v, I)
    OBVIOUS
  <2>3. PICK p : Selects(u, v, I, p)
    BY <2>2
  <2>4. u \in Seq(Entries) /\ Len(u) \in Nat /\ {p[a] : a \in 1..Len(u)} = {}
    BY <2>1, <2>2, <2>3 DEF Selects
  <2>5. Len(u) = 0
    <3>1. \A a \in 1..Len(u) : FALSE
      BY <2>4
    <3>2. Len(u) # 0 => 1 \in 1..Len(u)
      BY <2>4
    <3>. QED  BY <3>1, <3>2
  <2>6. u = <<>>
    BY <2>4, <2>5
  <2>. QED  BY <1>3, <2>6
<1>8. start < n
  BY <1>1, <1>2, <1>7
<1>9. Opening(t, start) = o
  BY <1>7, OpenAlike DEF o, n
<1>10. Replayed(t, start) = ItemsAt(w, J)
  BY <1>9 DEF Replayed, OfKinds, w
<1>11. Len(v) <= Len(w) /\ Alike(Len(v), v, w)
  <2>1. \A a \in 1..(n - o) : v[a] = w[a] /\ a \in 1..(m - o)
    <3>. SUFFICES ASSUME NEW a \in 1..(n - o) PROVE v[a] = w[a] /\ a \in 1..(m - o)
      OBVIOUS
    <3>1. a + o \in 1..n /\ a \in 1..(m - o)
      BY <1>1, <1>4
    <3>2. s[a + o] = t[a + o]
      BY <1>1, <3>1 DEF Alike
    <3>. QED  BY <1>5, <1>6, <3>1, <3>2
  <2>2. Len(v) <= Len(w)
    BY <1>1, <1>4, <1>5, <1>6
  <2>. QED  BY <1>5, <2>1, <2>2 DEF Alike
<1>12. \A i \in 1..Len(v) : i \in I <=> i \in J
  <2>. SUFFICES ASSUME NEW i \in 1..Len(v) PROVE i \in I <=> i \in J
    OBVIOUS
  <2>1. Len(v) \in Nat /\ Len(w) \in Nat /\ DOMAIN v = 1..Len(v) /\ DOMAIN w = 1..Len(w)
    BY <1>5, <1>6
  <2>2. i \in 1..Len(w) /\ v[i] = w[i]
    BY <1>11, <2>1 DEF Alike
  <2>. QED  BY <2>1, <2>2
<1>. HIDE DEF I, J
<1>13. /\ ItemsAt(v, I) \in Seq(Entries) /\ ItemsAt(w, J) \in Seq(Entries)
       /\ Len(ItemsAt(v, I)) <= Len(ItemsAt(w, J))
       /\ Alike(Len(ItemsAt(v, I)), ItemsAt(v, I), ItemsAt(w, J))
  BY <1>5, <1>6, <1>11, <1>12, BeginningSelected
<1>14. \A a, b : /\ a \in Seq(Entries) /\ b \in Seq(Entries) /\ Len(a) <= Len(b) /\ Alike(Len(a), a, b)
                 => IsPrefix(a, b)
  <2>. SUFFICES ASSUME NEW a \in Seq(Entries), NEW b \in Seq(Entries), Len(a) <= Len(b), Alike(Len(a), a, b)
                PROVE  IsPrefix(a, b)
    OBVIOUS
  <2>1. \A i \in 1..Len(a) : a[i] = b[i]
    BY DEF Alike
  <2>2. SubSeq(a, 1, Len(a)) = SubSeq(b, 1, Len(a))
    BY <2>1
  <2>. QED  BY <2>2 DEF IsPrefix
<1>. QED  BY <1>3, <1>8, <1>10, <1>13, <1>14 DEF n

\* The window that fits from where the last one was started opens as that one did.
LEMMA WindowOpens ==
    ASSUME skipped \in Nat, NEW s, NEW items, NEW t, t = Replayable(items), Nested(s, t, skipped),
           Replayed(s, skipped) # <<>>, NEW budget \in Nat,
           Size(Beyond(t, skipped)) <= budget, skipped = 0 \/ ~(Size(t) <= budget)
    PROVE  IsPrefix(Replayed(s, skipped), HistoryWindow(items, budget).items)
<1>1. /\ skipped < Len(s) /\ IsPrefix(Replayed(s, skipped), Replayed(t, skipped))
  BY ReplayedAlike
<1>2. s \in Seq(Entries) /\ t \in Seq(Entries) /\ Len(s) <= Len(t) /\ Len(s) \in Nat /\ Len(t) \in Nat
  BY DEF Nested
<1>3. skipped \in 0..Len(t) /\ skipped < Len(t)
  BY <1>1, <1>2
<1>. DEFINE u == Beyond(t, skipped)
            n == Len(t)
<1>4. u \in Seq(Entries) /\ Len(u) = n - skipped /\ \A a \in 1..(n - skipped) : u[a] = t[a + skipped]
  BY <1>2, <1>3, EndSelected
<1>. HIDE DEF u, n
<1>5. Len(u) # 0
  BY <1>3, <1>4 DEF n
<1>6. Size(u) \in Nat /\ Size(u) > 0
  BY <1>4, <1>5, CostOfFew
<1>7. budget # 0
  BY <1>6 DEF u
<1>8. t # <<>>
  BY <1>2, <1>3
<1>9. StickyStart(t, budget) = skipped
  <2>1. CASE skipped = 0
    <3>1. u = t
      <4>1. \A a \in 1..n : u[a] = t[a]
        BY <1>2, <1>4, <2>1 DEF n
      <4>2. Len(u) = n
        BY <1>2, <1>4, <2>1 DEF n
      <4>. QED  BY <1>2, <1>4, <4>1, <4>2 DEF n
    <3>2. Size(t) <= budget
      BY <3>1 DEF u
    <3>. QED  BY <2>1, <3>2 DEF StickyStart
  <2>2. CASE skipped # 0
    <3>1. 0 < skipped /\ ~(Size(t) <= budget)
      BY <2>2
    <3>. QED  BY <1>3, <3>1 DEF StickyStart
  <2>. QED  BY <2>1, <2>2
<1>. DEFINE played == HistoryWindow(items, budget)
<1>10. played = IF budget = 0 \/ t = <<>> THEN [items |-> <<>>, start |-> skipped]
                ELSE [items |-> Replayed(t, StickyStart(t, budget)), start |-> StickyStart(t, budget)]
  BY DEF HistoryWindow
<1>. HIDE DEF played
<1>11. played.items = Replayed(t, skipped)
  BY <1>7, <1>8, <1>9, <1>10
<1>. QED  BY <1>1, <1>11 DEF played

\* What is replayed of a beginning of a transcript, and of a longer one.
LEMMA UnitsNested ==
    ASSUME NEW items \in Seq(Entries), ToolsAnswered(items), NEW more \in Seq(Entries), ToolsAnswered(more),
           Len(items) <= Len(more), Alike(Len(items), items, more),
           NEW f \in 0..Len(items), NEW g \in 0..Len(more), f <= g, Uncut(items, f), Uncut(more, g),
           NEW start \in Nat, start <= Len(Replayable(SubSeq(items, 1, f)))
    PROVE  Nested(Replayable(SubSeq(items, 1, f)), Replayable(SubSeq(more, 1, g)), start)
<1>. DEFINE told == {"user", "image", "answer", "call", "output"}
            a == SubSeq(items, 1, f)
            b == SubSeq(more, 1, g)
            I == {i \in DOMAIN a : a[i].kind \in told}
            J == {i \in DOMAIN b : b[i].kind \in told}
            s == Replayable(a)
            t == Replayable(b)
<1>1. /\ a \in Seq(Entries) /\ Len(a) = f /\ \A i \in 1..f : a[i] = items[i]
      /\ ToolsAnswered(a)
  BY CutAnswered
<1>2. /\ b \in Seq(Entries) /\ Len(b) = g /\ \A i \in 1..g : b[i] = more[i]
      /\ ToolsAnswered(b)
  BY CutAnswered
<1>3. f \in Nat /\ g \in Nat /\ Len(items) \in Nat /\ f <= Len(items)
  OBVIOUS
<1>4. s = ItemsAt(a, I) /\ t = ItemsAt(b, J)
  BY DEF Replayable, OfKinds
<1>. HIDE DEF a, b, s, t
<1>5. Len(a) <= Len(b) /\ Alike(Len(a), a, b)
  <2>1. \A i \in 1..f : i \in 1..Len(items) /\ i \in 1..g
    BY <1>3
  <2>2. \A i \in 1..f : a[i] = b[i]
    BY <1>1, <1>2, <2>1 DEF Alike
  <2>. QED  BY <1>1, <1>2, <2>2 DEF Alike
<1>6. DOMAIN a = 1..Len(a) /\ DOMAIN b = 1..Len(b) /\ Len(a) \in Nat /\ Len(b) \in Nat
  BY <1>1, <1>2
<1>7. \A i \in 1..Len(a) : i \in I <=> i \in J
  BY <1>5, <1>6 DEF Alike
<1>8. I = {i \in 1..Len(a) : a[i].kind \in told} /\ J = {i \in 1..Len(b) : b[i].kind \in told}
  BY <1>6
<1>9. ASSUME NEW c \in Seq(Entries), ToolsAnswered(c), NEW K, K = {i \in 1..Len(c) : c[i].kind \in told}
      PROVE  ItemsAt(c, K) \in Seq(Entries) /\ Answered(ItemsAt(c, K))
  <2>1. Answered(c)
    BY <1>9, AnsweredTogether
  <2>2. K \in SUBSET (1..Len(c))
    BY <1>9
  <2>3. ItemsAt(c, K) \in Seq(Entries) /\ \E p : Selects(ItemsAt(c, K), c, K, p)
    BY <2>2, ItemsSelected
  <2>4. PICK p : MadeOf(ItemsAt(c, K), c, K, p)
    BY <2>3, SelectsCarries
  <2>5. PairsClosed(c, K)
    BY <1>9, <2>1, AnsweredPairs DEF PairsClosed
  <2>. QED  BY <2>1, <2>3, <2>4, <2>5, CarriedAnswered
<1>. HIDE DEF I, J
<1>10. s \in Seq(Entries) /\ Answered(s) /\ t \in Seq(Entries) /\ Answered(t)
  BY <1>1, <1>2, <1>4, <1>8, <1>9
<1>11. Len(s) <= Len(t) /\ Alike(Len(s), s, t)
  BY <1>1, <1>2, <1>4, <1>5, <1>7, BeginningSelected
<1>12. start \in 0..Len(s)
  BY <1>10 DEF s, a
<1>. QED  BY <1>10, <1>11, <1>12 DEF Nested, s, t, a, b

\* Where the active turn begins, there is nothing joined over it.
LEMMA TurnPlaced ==
    ASSUME NEW items \in Seq(Entries), ToolsAnswered(items), ActiveIndices(items) # {}
    PROVE  Before(items) \in 0..Len(items) /\ Uncut(items, Before(items))
<1>. DEFINE picked == ActiveIndices(items)
<1>1. TurnShaped(items)
  BY AnsweredTogether, TurnIs
<1>2. /\ picked \in SUBSET (1..Len(items)) /\ First0(picked) \in picked
      /\ Uncut(items, Before(items))
  BY <1>1 DEF TurnShaped, Before
<1>. HIDE DEF picked
<1>. PICK f, b : f = First0(picked) /\ b = Before(items)
  OBVIOUS
<1>3. b = f - 1
  BY DEF Before, picked
<1>6. Len(items) \in Nat
  OBVIOUS
<1>4. f \in 1..Len(items)
  BY <1>2
<1>5. b \in 0..Len(items)
  BY <1>3, <1>4, <1>6
<1>. QED  BY <1>2, <1>5

\* From one transcript to the next: what is in the invariant of the one holds of the other.
LEMMA HistoryGoesOn ==
    ASSUME NEW s \in Seq(Entries), ToolsAnswered(s), NEW t \in Seq(Entries), ToolsAnswered(t),
           Len(s) <= Len(t), Alike(Len(s), s, t), Uncut(t, Len(s)), ActiveIndices(s) # {},
           NEW f \in 0..Before(s), Uncut(s, f)
    PROVE  /\ ActiveIndices(t) # {} /\ Before(s) <= Before(t)
           /\ Before(s) \in 0..Len(s) /\ Before(t) \in 0..Len(t) /\ Uncut(t, Before(t))
           /\ f \in 0..Before(t) /\ f \in 0..Len(s) /\ Uncut(t, f)
           /\ SubSeq(t, 1, f) = SubSeq(s, 1, f)
<1>1. Answered(s) /\ Together(s) /\ Answered(t) /\ Together(t)
  BY AnsweredTogether
<1>2. ActiveIndices(t) # {} /\ First0(ActiveIndices(s)) <= First0(ActiveIndices(t))
  BY <1>1, TurnGoesOn
<1>3. Before(s) \in 0..Len(s) /\ Before(t) \in 0..Len(t) /\ Uncut(t, Before(t))
  BY <1>2, TurnPlaced
<1>4. Before(s) <= Before(t)
  <2>. PICK x, y : x = First0(ActiveIndices(s)) /\ y = First0(ActiveIndices(t))
    OBVIOUS
  <2>1. Before(s) = x - 1 /\ Before(t) = y - 1 /\ x <= y
    BY <1>2 DEF Before
  <2>2. x \in 1..Len(s) /\ y \in 1..Len(t)
    <3>1. TurnShaped(s) /\ TurnShaped(t)
      BY <1>1, <1>2, TurnIs
    <3>. QED  BY <3>1 DEF TurnShaped
  <2>3. x \in Int /\ y \in Int
    BY <2>2
  <2>4. x - 1 <= y - 1
    BY <2>1, <2>3
  <2>. QED  BY <2>1, <2>4
<1>. PICK c, d : c = Before(s) /\ d = Before(t)
  OBVIOUS
<1>5. Len(s) \in Nat /\ Len(t) \in Nat
  OBVIOUS
<1>6. f \in 0..d /\ f \in 0..Len(s) /\ f \in 0..Len(t) /\ f \in Nat /\ f <= Len(s)
  BY <1>3, <1>4, <1>5
<1>7. Uncut(t, f)
  <2>1. \A i, j : Joins(t, i, j) => i \in 1..Len(t) /\ j \in 1..Len(t) /\ i < j
    BY <1>1, AnsweredPairs
  <2>2. \A i, j : j <= Len(s) => (Joins(s, i, j) <=> Joins(t, i, j))
    BY BeginningJoins
  <2>. SUFFICES ASSUME NEW i, NEW j, Joins(t, i, j) PROVE i <= f <=> j <= f
    BY DEF Uncut
  <2>3. i \in 1..Len(t) /\ j \in 1..Len(t) /\ i < j /\ (i <= Len(s) <=> j <= Len(s))
    BY <2>1 DEF Uncut
  <2>4. CASE j <= Len(s)
    BY <2>2, <2>4 DEF Uncut
  <2>5. CASE ~(j <= Len(s))
    BY <1>5, <1>6, <2>3, <2>5
  <2>. QED  BY <2>4, <2>5
<1>8. SubSeq(t, 1, f) = SubSeq(s, 1, f)
  <2>1. /\ SubSeq(t, 1, f) \in Seq(Entries) /\ Len(SubSeq(t, 1, f)) = f
        /\ \A i \in 1..f : SubSeq(t, 1, f)[i] = t[i]
    BY <1>6, <1>7, CutAnswered
  <2>2. /\ SubSeq(s, 1, f) \in Seq(Entries) /\ Len(SubSeq(s, 1, f)) = f
        /\ \A i \in 1..f : SubSeq(s, 1, f)[i] = s[i]
    BY <1>6, CutAnswered
  <2>3. \A i \in 1..f : s[i] = t[i]
    BY <1>5, <1>6 DEF Alike
  <2>4. \A i \in 1..f : SubSeq(t, 1, f)[i] = SubSeq(s, 1, f)[i]
    BY <2>1, <2>2, <2>3
  <2>. QED  BY <2>1, <2>2, <2>4, SMTT(30)
<1>. QED  BY <1>2, <1>3, <1>4, <1>6, <1>7, <1>8

\* Why a request is refused is none of what may be said of one that is built.
LEMMA RefusalIs == \A items : Refusal(items) \notin {"sent", "too long"}
BY DEF Refusal

\* A request that is served here is sound, whatever comes of it.
LEMMA ServedSound ==
    ASSUME ThreadInv, NEW new \in FirstItems \union LaterItems, NEW memory \in {0, MemoryBudget},
           LocalServes(new, memory)
    PROVE  Sound(thread', made') /\ BuiltAs(thread', [made |-> made', skipped |-> skipped'])
<1>1. Grows(new)
  BY DEF LocalServes
<1>2. thread' = thread \o NamedItems(new)
  BY <1>1 DEF Grows
<1>. PICK items, now, kept : items = thread' /\ now = made' /\ kept = skipped'
  OBVIOUS
<1>3. /\ items \in Seq(Entries) /\ ToolsAnswered(items) /\ IdsRise(items)
  BY <1>1, ThreadGoesOn
<1>4. named \in Nat /\ skipped \in Nat
  BY DEF ThreadInv
<1>. DEFINE built == [made |-> now, skipped |-> kept]
<1>5. built.made = now /\ built.skipped = kept
  OBVIOUS
<1>6. CASE Refusal(items) = "none"
  <2>. DEFINE b == Built(items, memory)
  <2>1. Sound(items, b.made) /\ BuiltAs(items, b)
    BY <1>3, <1>4, <1>6, BuiltSound
  <2>2. now = b.made /\ kept = b.skipped
    BY <1>2, <1>6 DEF LocalServes
  <2>. HIDE DEF b, built
  <2>3. BuiltAs(items, built)
    BY <1>5, <2>1, <2>2 DEF BuiltAs
  <2>. QED  BY <2>1, <2>2, <2>3 DEF built
<1>7. CASE Refusal(items) # "none"
  <2>. DEFINE s == Declined(Refusal(items))
  <2>1. Sound(items, s) /\ s.status # "sent" /\ s.history = <<>>
    BY RefusalIs, DeclinedSound
  <2>. HIDE DEF s
  <2>2. now = s /\ kept = skipped
    <3>1. LET b == IF Refusal(items) = "none" THEN Built(items, memory)
                   ELSE [made |-> s, skipped |-> skipped]
          IN  now = b.made /\ kept = b.skipped
      BY <1>2 DEF LocalServes, s
    <3>. QED  BY <1>7, <3>1
  <2>. HIDE DEF built
  <2>3. BuiltAs(items, built)
    BY <1>4, <1>5, <2>1, <2>2 DEF BuiltAs
  <2>. QED  BY <2>1, <2>2, <2>3 DEF built
<1>. QED  BY <1>6, <1>7

CodexInvariant == ThreadInv /\ HistoryInv

\* A request that is served opens as the last one did.
LEMMA OpensOn ==
    ASSUME CodexInvariant, NEW new \in FirstItems \union LaterItems, Grows(new),
           BuiltAs(thread', [made |-> made', skipped |-> skipped'])
    PROVE  OpensAlike
<1>. PICK items, now, kept : items = thread' /\ now = made' /\ kept = skipped'
  OBVIOUS
<1>1. /\ thread \in Seq(Entries) /\ ToolsAnswered(thread) /\ skipped \in Nat
      /\ items \in Seq(Entries) /\ ToolsAnswered(items)
      /\ Len(thread) <= Len(items) /\ Alike(Len(thread), thread, items) /\ Uncut(items, Len(thread))
  BY ThreadGoesOn DEF CodexInvariant, ThreadInv
<1>2. BuiltAs(items, [made |-> now, skipped |-> kept])
  OBVIOUS
<1>3. now.status = "sent" => /\ now.budget \in Nat
                             /\ now.history = HistoryWindow(SubSeq(items, 1, Before(items)), now.budget).items
  BY <1>2 DEF BuiltAs
<1>. DEFINE t == Replayable(SubSeq(items, 1, Before(items)))
<1>. SUFFICES ASSUME now.status = "sent", ~undone, ~(Size(Beyond(t, skipped)) > now.budget),
                     ~(skipped # 0 /\ Size(t) <= now.budget)
              PROVE  IsPrefix(made.history, now.history)
  BY DEF OpensAlike, Before
<1>4. CASE made.history = <<>>
  <2>. PICK h : h = now.history
    OBVIOUS
  <2>1. h \in Seq(Entries)
    <3>. DEFINE pre == SubSeq(items, 1, Before(items))
    <3>1. ActiveIndices(items) # {}
      BY <1>2 DEF BuiltAs
    <3>2. Before(items) \in 0..Len(items) /\ Uncut(items, Before(items))
      BY <1>1, <3>1, TurnPlaced
    <3>3. pre \in Seq(Entries) /\ Answered(pre) /\ Together(pre)
      BY <1>1, <3>2, CutAnswered, AnsweredTogether
    <3>. HIDE DEF pre
    <3>4. WindowKept(HistoryWindow(pre, now.budget).items, pre)
      BY <1>1, <1>3, <3>3, WindowFits
    <3>. QED  BY <1>3, <3>4 DEF WindowKept, pre
  <2>2. Len(<<>>) <= Len(h) /\ SubSeq(<<>>, 1, 0) = <<>> /\ SubSeq(h, 1, 0) = <<>>
    BY <2>1
  <2>. QED  BY <1>4, <2>2 DEF IsPrefix
<1>5. CASE made.history # <<>>
  <2>1. /\ ActiveIndices(thread) # {}
        /\ \E f \in 0..Before(thread) :
              /\ Uncut(thread, f)
              /\ skipped <= Len(Replayable(SubSeq(thread, 1, f)))
              /\ made.history = Replayed(Replayable(SubSeq(thread, 1, f)), skipped)
    BY <1>5 DEF CodexInvariant, HistoryInv
  <2>2. PICK f \in 0..Before(thread) :
              /\ Uncut(thread, f)
              /\ skipped <= Len(Replayable(SubSeq(thread, 1, f)))
              /\ made.history = Replayed(Replayable(SubSeq(thread, 1, f)), skipped)
    BY <2>1
  <2>. DEFINE s == Replayable(SubSeq(thread, 1, f))
  <2>3. /\ Before(items) \in 0..Len(items) /\ Uncut(items, Before(items))
        /\ f \in 0..Before(items) /\ f \in 0..Len(thread)
    BY <1>1, <2>1, <2>2, HistoryGoesOn
  <2>4. f <= Before(items)
    BY <2>3
  <2>5. Nested(s, t, skipped)
    BY <1>1, <2>2, <2>3, <2>4, UnitsNested
  <2>6. Size(Beyond(t, skipped)) <= now.budget /\ (skipped = 0 \/ ~(Size(t) <= now.budget))
    <3>1. Beyond(t, skipped) \in Seq(Entries)
      <4>1. t \in Seq(Entries) /\ skipped \in 0..Len(t)
        BY <2>5 DEF Nested
      <4>. QED  BY <4>1, EndSelected
    <3>. PICK c, b : c = Size(Beyond(t, skipped)) /\ b = now.budget
      OBVIOUS
    <3>2. c \in Nat /\ b \in Nat
      BY <1>3, <3>1, CostOfFew
    <3>3. c <= b
      BY <3>2
    <3>. QED  BY <3>3
  <2>7. Replayed(s, skipped) # <<>>
    BY <1>5, <2>2
  <2>. HIDE DEF s, t
  <2>. DEFINE pre == SubSeq(items, 1, Before(items))
  <2>8. t = Replayable(pre)
    BY DEF t
  <2>. HIDE DEF pre
  <2>9. IsPrefix(Replayed(s, skipped), HistoryWindow(pre, now.budget).items)
    BY <1>1, <1>3, <2>5, <2>6, <2>7, <2>8, WindowOpens
  <2>. QED  BY <1>3, <2>2, <2>9 DEF s, pre
<1>. QED  BY <1>4, <1>5

\* The invariant after a request.
LEMMA RequestKeeps ==
    ASSUME CodexInvariant, NEW new \in FirstItems \union LaterItems, Requested(new)
    PROVE  CodexInvariant' /\ (made' # made => Sound(thread', made') /\ OpensAlike)
<1>1. Grows(new)
  BY DEF Requested, CloudServes, LocalServes
<1>2. /\ thread' \in Seq(Entries) /\ ToolsAnswered(thread') /\ IdsRise(thread') /\ Known(thread', named')
      /\ Len(thread) <= Len(thread') /\ Alike(Len(thread), thread, thread') /\ Uncut(thread', Len(thread))
      /\ named' \in Nat
      /\ asks' \in Seq(Nat) /\ Len(asks') > 0 /\ asks'[Len(asks')] = Len(thread')
      /\ \A a, b \in 1..Len(asks') : a <= b => asks'[a] <= asks'[b]
      /\ \A a \in 1..Len(asks') : Uncut(thread', asks'[a])
  BY <1>1, ThreadGoesOn DEF CodexInvariant
<1>3. undone' = undone
  BY <1>1 DEF Grows
<1>4. thread \in Seq(Entries) /\ ToolsAnswered(thread) /\ skipped \in Nat
  BY DEF CodexInvariant, ThreadInv
<1>5. CASE CloudServes(new)
  <2>1. skipped' = skipped /\ made' = made
    BY <1>5 DEF CloudServes
  <2>2. ThreadInv'
    BY <1>2, <1>4, <2>1 DEF ThreadInv
  <2>3. HistoryInv'
    <3>. SUFFICES ASSUME ~undone, made.history # <<>>
                  PROVE  /\ ActiveIndices(thread') # {}
                         /\ \E f \in 0..Before(thread') :
                               /\ Uncut(thread', f)
                               /\ skipped <= Len(Replayable(SubSeq(thread', 1, f)))
                               /\ made.history = Replayed(Replayable(SubSeq(thread', 1, f)), skipped)
      BY <1>3, <2>1 DEF HistoryInv
    <3>1. /\ ActiveIndices(thread) # {}
          /\ \E f \in 0..Before(thread) :
              /\ Uncut(thread, f)
              /\ skipped <= Len(Replayable(SubSeq(thread, 1, f)))
              /\ made.history = Replayed(Replayable(SubSeq(thread, 1, f)), skipped)
      BY DEF CodexInvariant, HistoryInv
    <3>2. PICK f \in 0..Before(thread) :
              /\ Uncut(thread, f)
              /\ skipped <= Len(Replayable(SubSeq(thread, 1, f)))
              /\ made.history = Replayed(Replayable(SubSeq(thread, 1, f)), skipped)
      BY <3>1
    <3>3. /\ ActiveIndices(thread') # {} /\ f \in 0..Before(thread') /\ Uncut(thread', f)
          /\ SubSeq(thread', 1, f) = SubSeq(thread, 1, f)
      BY <1>2, <1>4, <3>1, <3>2, HistoryGoesOn
    <3>. QED  BY <3>2, <3>3
  <2>. QED  BY <2>1, <2>2, <2>3 DEF CodexInvariant
<1>6. CASE \E memory \in {0, MemoryBudget} : LocalServes(new, memory)
  <2>1. Sound(thread', made') /\ BuiltAs(thread', [made |-> made', skipped |-> skipped'])
    BY <1>6, ServedSound DEF CodexInvariant
  <2>2. OpensAlike
    BY <1>1, <2>1, OpensOn
  <2>. PICK items, now, kept : items = thread' /\ now = made' /\ kept = skipped'
    OBVIOUS
  <2>3. /\ kept \in Nat
        /\ now.status = "sent" =>
              /\ now.budget \in Nat /\ ActiveIndices(items) # {}
              /\ now.history = HistoryWindow(SubSeq(items, 1, Before(items)), now.budget).items
              /\ kept = HistoryWindow(SubSeq(items, 1, Before(items)), now.budget).start
        /\ now.status # "sent" => now.history = <<>>
    <3>1. BuiltAs(items, [made |-> now, skipped |-> kept])
      BY <2>1
    <3>. QED  BY <3>1 DEF BuiltAs
  <2>4. ThreadInv'
    BY <1>2, <2>3 DEF ThreadInv
  <2>5. HistoryInv'
    <3>. SUFFICES ASSUME now.history # <<>>
                  PROVE  /\ ActiveIndices(items) # {}
                         /\ \E f \in 0..Before(items) :
                               /\ Uncut(items, f)
                               /\ kept <= Len(Replayable(SubSeq(items, 1, f)))
                               /\ now.history = Replayed(Replayable(SubSeq(items, 1, f)), kept)
      BY DEF HistoryInv
    <3>. DEFINE f == Before(items)
                pre == SubSeq(items, 1, f)
    <3>1. now.status = "sent" /\ ActiveIndices(items) # {} /\ now.budget \in Nat
      BY <2>3
    <3>2. items \in Seq(Entries) /\ ToolsAnswered(items)
      BY <1>2
    <3>3. f \in 0..Len(items) /\ Uncut(items, f)
      BY <3>1, <3>2, TurnPlaced
    <3>4. pre \in Seq(Entries) /\ Answered(pre) /\ Together(pre)
      BY <3>2, <3>3, CutAnswered, AnsweredTogether
    <3>. HIDE DEF pre
    <3>5. now.history = HistoryWindow(pre, now.budget).items /\ kept = HistoryWindow(pre, now.budget).start
      BY <2>3, <3>1 DEF pre
    <3>6. kept <= Len(Replayable(pre)) /\ now.history = Replayed(Replayable(pre), kept)
      BY <1>4, <3>1, <3>4, <3>5, WindowFits
    <3>7. f \in 0..f
      BY <3>3
    <3>. QED  BY <3>1, <3>3, <3>6, <3>7 DEF pre
  <2>. QED  BY <2>1, <2>2, <2>4, <2>5 DEF CodexInvariant
<1>. QED  BY <1>5, <1>6 DEF Requested

\* There is nothing to begin with.
LEMMA CodexStarts == ASSUME CodexInit PROVE CodexInvariant
<1>1. thread = <<>> /\ asks = <<0>> /\ named = 0 /\ skipped = 0 /\ made.history = <<>>
  BY DEF CodexInit, Nothing
<1>2. thread \in Seq(Entries) /\ Len(thread) = 0 /\ DOMAIN thread = {}
  BY <1>1
<1>3. asks \in Seq(Nat) /\ Len(asks) = 1 /\ asks[1] = 0
  BY <1>1
<1>4. ToolsAnswered(thread) /\ IdsRise(thread) /\ Known(thread, named)
  BY <1>2 DEF ToolsAnswered, IdsRise, Known, Joins
<1>5. \A i, j : ~Joins(thread, i, j)
  BY <1>2 DEF Joins
<1>6. ThreadInv
  BY <1>1, <1>2, <1>3, <1>4, <1>5 DEF ThreadInv, Uncut
<1>7. HistoryInv
  BY <1>1 DEF HistoryInv
<1>. QED  BY <1>6, <1>7 DEF CodexInvariant

\* The transcript is cut where a request ended.
LEMMA TakesBackKeeps == ASSUME CodexInvariant, TakesBack PROVE CodexInvariant' /\ made' = made
<1>. DEFINE n == Len(asks)
            k == asks[n - 1]
<1>1. /\ n > 2 /\ asks' = SubSeq(asks, 1, n - 1) /\ thread' = SubSeq(thread, 1, k)
      /\ undone' = TRUE /\ named' = named /\ skipped' = skipped /\ made' = made
  BY DEF TakesBack
<1>2. /\ named \in Nat /\ skipped \in Nat
      /\ thread \in Seq(Entries) /\ ToolsAnswered(thread) /\ IdsRise(thread) /\ Known(thread, named)
      /\ asks \in Seq(Nat) /\ asks[n] = Len(thread)
      /\ \A a, b \in 1..n : a <= b => asks[a] <= asks[b]
      /\ \A a \in 1..n : Uncut(thread, asks[a])
  BY DEF CodexInvariant, ThreadInv
<1>3. n \in Nat /\ n - 1 \in 1..n /\ n \in 1..n /\ n - 1 <= n /\ \A a \in 1..(n - 1) : a \in 1..n /\ a <= n - 1
  BY <1>1, <1>2
<1>4. \A a \in 1..n : asks[a] \in Nat
  BY <1>2
<1>. HIDE DEF n
<1>5. asks' \in Seq(Nat) /\ Len(asks') = n - 1 /\ \A a \in 1..(n - 1) : asks'[a] = asks[a]
  <2>1. n - 1 \in 0..Len(asks)
    BY <1>3 DEF n
  <2>. QED  BY <1>1, <1>2, <2>1, SMTT(30)
<1>6. k \in 0..Len(thread) /\ Uncut(thread, k)
  <2>1. k \in Nat /\ k <= asks[n]
    BY <1>2, <1>3, <1>4
  <2>. QED  BY <1>2, <1>3, <2>1
<1>. HIDE DEF k
<1>7. /\ thread' \in Seq(Entries) /\ Len(thread') = k
      /\ \A i \in 1..k : thread'[i] = thread[i]
      /\ ToolsAnswered(thread')
      /\ \A m \in 0..k : Uncut(thread, m) => Uncut(thread', m)
  BY <1>1, <1>2, <1>6, CutAnswered
<1>8. \A i \in 1..k : i \in 1..Len(thread)
  BY <1>2, <1>6
<1>9. IdsRise(thread') /\ Known(thread', named')
  <2>1. IdsRise(thread')
    BY <1>2, <1>7, <1>8 DEF IdsRise
  <2>2. Known(thread', named')
    BY <1>1, <1>2, <1>7, <1>8 DEF Known
  <2>. QED  BY <2>1, <2>2
<1>10. Len(asks') > 0 /\ asks'[Len(asks')] = Len(thread')
  <2>1. n - 1 \in 1..(n - 1)
    BY <1>1, <1>3
  <2>. QED  BY <1>5, <1>7, <2>1 DEF k
<1>11. \A a, b \in 1..Len(asks') : a <= b => asks'[a] <= asks'[b]
  BY <1>2, <1>3, <1>5
<1>12. ASSUME NEW a \in 1..Len(asks') PROVE Uncut(thread', asks'[a])
  <2>1. a \in 1..(n - 1) /\ a \in 1..n /\ a <= n - 1 /\ asks'[a] = asks[a]
    BY <1>3, <1>5
  <2>2. asks[a] \in Nat /\ asks[a] <= k
    BY <1>2, <1>3, <1>4, <2>1 DEF k
  <2>3. asks[a] \in 0..k /\ Uncut(thread, asks[a])
    BY <1>2, <1>6, <2>1, <2>2
  <2>. QED  BY <1>7, <2>1, <2>3
<1>13. ThreadInv'
  BY <1>1, <1>2, <1>5, <1>7, <1>9, <1>10, <1>11, <1>12 DEF ThreadInv
<1>14. HistoryInv'
  BY <1>1 DEF HistoryInv
<1>. QED  BY <1>1, <1>13, <1>14 DEF CodexInvariant

\* Every step keeps the invariant, and what it sends is sound.
LEMMA CodexSteps ==
    ASSUME CodexInvariant, [CodexNext]_codexVars
    PROVE  CodexInvariant' /\ (made' # made => Sound(thread', made') /\ OpensAlike)
<1>1. CASE \E new \in FirstItems \union LaterItems : Requested(new)
  BY <1>1, RequestKeeps
<1>2. CASE TakesBack
  BY <1>2, TakesBackKeeps
<1>3. CASE UNCHANGED codexVars
  BY <1>3 DEF codexVars, CodexInvariant, ThreadInv, HistoryInv
<1>. QED  BY <1>1, <1>2, <1>3 DEF CodexNext

\* Whatever is asked, and however much is given up to make it fit: a request that a local
\* model is sent has the instruction, in order, no output without its call but where parallel
\* calls were split, no call without its output; nothing of it is dropped for want of room;
\* and it opens as the one before did (codex_context.py, build_local_payload).
THEOREM CodexStaysSound == CodexSpec => CodexRequestsSound
<1>1. CodexInit => CodexInvariant
  BY CodexStarts
<1>2. CodexInvariant /\ [CodexNext]_codexVars => CodexInvariant'
  BY CodexSteps
<1>3. CodexInvariant /\ [CodexNext]_codexVars =>
         [made' # made => Sound(thread', made') /\ OpensAlike]_codexVars
  BY CodexSteps
<1>4. CodexSpec => [][made' # made => Sound(thread', made') /\ OpensAlike]_codexVars
  BY <1>1, <1>2, <1>3, PTL DEF CodexSpec
<1>. QED  BY <1>4 DEF CodexRequestsSound
=============================================================================

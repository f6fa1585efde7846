------------------------------ MODULE ContextWindow ------------------------------
(***************************************************************************)
(* The choice of what a local model is sent of a long transcript           *)
(* (context_window.select_working_set), and the choice made without the    *)
(* archive when it is slow or broken (ContextRuntime._newest_tail).        *)
(*                                                                         *)
(* A transcript is a sequence of segments: pieces of messages, in order.   *)
(* A call and its result share a pair.  Costs are tokens, in units.        *)
(***************************************************************************)
EXTENDS Naturals, Sequences, FiniteSets, SequencesExt, FiniteSetsExt

CONSTANTS
    Contexts,                    \* the transcripts that may be given (NormalizedContext)
    TargetTokens, HardTokens,    \* context_target_input_tokens, context_hard_input_tokens
    RecentLimit                  \* _RECENT_UNIT_LIMIT

\* A segment names its pair (0 if it is none of a pair's) and the message it is part of; a
\* reference names a file or an error.
Segments == [pair : Nat, cost : Nat, reference : BOOLEAN, message : Nat]

ASSUME ContextsAssumption ==
    /\ \A c \in Contexts : /\ c.segments \in Seq(Segments)
                           /\ c.instruction \in DOMAIN c.segments
    /\ TargetTokens \in Nat /\ HardTokens \in Nat /\ TargetTokens <= HardTokens

VARIABLES
    segments,       \* the transcript
    instruction,    \* the position of the current instruction
    client,         \* "claude" or "codex"
    selected,       \* positions selected
    found,          \* units found in the archive, in the order of their rank
    units,          \* units still to be looked at in this phase
    recent,         \* recent units that were taken
    phase,
    outcome         \* "none", "fits", "current", "active" or "limit"

windowVars == <<segments, instruction, client, selected, found, units, recent, phase, outcome>>
inputVars == <<segments, instruction, client>>

SelectionInit ==
    /\ \E c \in Contexts : /\ segments = c.segments
                           /\ instruction = c.instruction
                           /\ client = c.client
    /\ selected = {}
    /\ found = <<>>
    /\ units = {}
    /\ recent = {}
    /\ phase \in {"current", "tail"}
    /\ outcome = "none"

-----------------------------------------------------------------------------
(* What a selection sends                                                    *)

\* _segment_unit, _stored_unit: a segment, or all of its pair.
Unit(i) == IF segments[i].pair = 0 THEN {i}
           ELSE {j \in DOMAIN segments : segments[j].pair = segments[i].pair}

\* selected_with_pairs
WithPairs(s) == UNION {Unit(i) : i \in s}

\* rebuild of the client's adapter: the archive's finds are not part of it, and Claude's
\* keeps the message of the current instruction whole.
Rebuilt(s) ==
    WithPairs(s) \union
        {i \in DOMAIN segments : /\ client = "claude"
                                 /\ instruction \in s
                                 /\ segments[i].message = segments[instruction].message}

\* The tokens of what is rebuilt, each of them once.
Cost(s) == Cardinality(UNION {{i} \X (1..segments[i].cost) : i \in Rebuilt(s)})

\* The unit that is first, or last, where At says it is.
Oldest(us, At(_)) == CHOOSE u \in us : \A v \in us : At(u) <= At(v)
Newest(us, At(_)) == CHOOSE u \in us : \A v \in us : At(v) <= At(u)

\* _recent_units: the last of the units that are not selected.
Recent(s) ==
    LET others == {Unit(i) : i \in {j \in DOMAIN segments : Unit(j) \intersect s = {}}}
    IN  {u \in others : Cardinality({v \in others : Min(v) > Min(u)}) < RecentLimit}

\* _reference_units: what names a file or an error; the newest such segment counts.
Naming(u) == {i \in u : segments[i].reference}
References(s) ==
    {Unit(i) : i \in {j \in DOMAIN segments : Unit(j) \intersect s = {} /\ segments[j].reference}}

\* _active_pair_units: calls since the current instruction.
Since(u) == {i \in u : i > instruction}
Active == {Unit(i) : i \in {j \in DOMAIN segments : j > instruction /\ segments[j].pair # 0}}

\* Calls and recent units are looked at from the oldest, references from the newest; so are
\* the segments of a tail.
NextCall == Oldest(units, LAMBDA u : Min(Since(u)))
NextRecent == Oldest(units, Min)
NextReference == Newest(units, LAMBDA u : Max(Naming(u)))
NextSegment == Newest(units, Max)

-----------------------------------------------------------------------------
(* select_working_set                                                        *)

Concludes(how) == phase' = "done" /\ outcome' = how

\* The current instruction must fit.
TakesCurrent ==
    /\ phase = "current"
    /\ IF Cost(Unit(instruction)) <= HardTokens
       THEN /\ selected' = Unit(instruction)
            /\ units' = Active
            /\ phase' = "active"
            /\ UNCHANGED outcome
       ELSE Concludes("current") /\ UNCHANGED <<selected, units>>
    /\ UNCHANGED <<inputVars, found, recent>>

\* So must every call since.
TakesActive ==
    /\ phase = "active"
    /\ units # {}
    /\ IF Cost(selected \union NextCall) <= HardTokens
       THEN /\ selected' = selected \union NextCall
            /\ units' = units \ {NextCall}
            /\ UNCHANGED <<phase, outcome>>
       ELSE Concludes("active") /\ UNCHANGED <<selected, units>>
    /\ UNCHANGED <<inputVars, found, recent>>

ActiveTaken ==
    /\ phase = "active"
    /\ units = {}
    /\ units' = Recent(selected)
    /\ phase' = "recent"
    /\ UNCHANGED <<inputVars, selected, found, recent, outcome>>

\* Mutant: a unit is added whether it fits or not.
MutAddsRecent ==
    /\ phase = "recent"
    /\ units # {}
    /\ selected' = selected \union NextRecent
    /\ recent' = recent \union {NextRecent}
    /\ units' = units \ {NextRecent}
    /\ UNCHANGED <<inputVars, found, phase, outcome>>

\* Recent units, those that fit.
AddsRecent ==
    /\ phase = "recent"
    /\ units # {}
    /\ IF Cost(selected \union NextRecent) <= HardTokens
       THEN /\ selected' = selected \union NextRecent
            /\ recent' = recent \union {NextRecent}
       ELSE UNCHANGED <<selected, recent>>
    /\ units' = units \ {NextRecent}
    /\ UNCHANGED <<inputVars, found, phase, outcome>>

RecentTaken ==
    /\ phase = "recent"
    /\ units = {}
    /\ units' = References(selected)
    /\ phase' = "references"
    /\ UNCHANGED <<inputVars, selected, found, recent, outcome>>

AddsReference ==
    /\ phase = "references"
    /\ units # {}
    /\ selected' = IF Cost(selected \union NextReference) <= HardTokens
                   THEN selected \union NextReference ELSE selected
    /\ units' = units \ {NextReference}
    /\ UNCHANGED <<inputVars, found, recent, phase, outcome>>

\* A hit of the search: any segment not selected, with its pair, each only once.
Finds(i) ==
    /\ phase = "references"
    /\ units = {}
    /\ Len(found) < 2
    /\ Unit(i) \intersect (selected \union UNION {found[k] : k \in DOMAIN found}) = {}
    /\ found' = Append(found, Unit(i))
    /\ UNCHANGED <<inputVars, selected, units, recent, phase, outcome>>

Searched ==
    /\ phase = "references"
    /\ units = {}
    /\ phase' = "trim"
    /\ UNCHANGED <<inputVars, selected, found, units, recent, outcome>>

\* Over the target: the finds of the lowest rank go first, then the oldest recent units.
Drops ==
    /\ phase = "trim"
    /\ Cost(selected) > TargetTokens
    /\ \/ /\ found # <<>>
          /\ found' = Front(found)
          /\ UNCHANGED <<selected, recent>>
       \/ /\ found = <<>> /\ recent # {}
          /\ selected' = selected \ Oldest(recent, Min)
          /\ recent' = recent \ {Oldest(recent, Min)}
          /\ UNCHANGED found
    /\ UNCHANGED <<inputVars, units, phase, outcome>>

\* require_fit.  The tokenizer may not answer this time: the bytes are counted then, and
\* they may be too many.
SelectionReturns ==
    /\ phase = "trim"
    /\ Cost(selected) <= TargetTokens \/ (found = <<>> /\ recent = {})
    /\ \/ Cost(selected) <= HardTokens /\ Concludes("fits")
       \/ Concludes("limit")
    /\ UNCHANGED <<inputVars, selected, found, units, recent>>

-----------------------------------------------------------------------------
(* _newest_tail: the same without the archive                                *)

TailBegins ==
    /\ phase = "tail"
    /\ selected' = WithPairs({instruction})
    /\ units' = Active
    /\ phase' = "tail_active"
    /\ UNCHANGED <<inputVars, found, recent, outcome>>

TailTakesActive ==
    /\ phase = "tail_active"
    /\ units # {}
    /\ IF Cost(selected \union NextCall) <= HardTokens
       THEN /\ selected' = selected \union NextCall
            /\ units' = units \ {NextCall}
            /\ UNCHANGED <<phase, outcome>>
       ELSE Concludes("active") /\ UNCHANGED <<selected, units>>
    /\ UNCHANGED <<inputVars, found, recent>>

\* The newest segments first, as far as the target goes.
TailActiveTaken ==
    /\ phase = "tail_active"
    /\ units = {}
    /\ units' = {{i} : i \in DOMAIN segments}
    /\ phase' = "tail_recent"
    /\ UNCHANGED <<inputVars, selected, found, recent, outcome>>

TailAdds ==
    /\ phase = "tail_recent"
    /\ units # {}
    /\ LET more == WithPairs(selected \union NextSegment)
       IN  selected' = IF Cost(more) <= TargetTokens THEN more ELSE selected
    /\ units' = units \ {NextSegment}
    /\ UNCHANGED <<inputVars, found, recent, phase, outcome>>

TailReturns ==
    /\ phase = "tail_recent"
    /\ units = {}
    /\ \/ Cost(selected) <= HardTokens /\ Concludes("fits")
       \/ Concludes("limit")
    /\ UNCHANGED <<inputVars, selected, found, units, recent>>

SelectionNext ==
    \/ TakesCurrent \/ TakesActive \/ ActiveTaken
    \/ AddsRecent \/ RecentTaken \/ AddsReference
    \/ (\E i \in DOMAIN segments : Finds(i)) \/ Searched
    \/ Drops \/ SelectionReturns
    \/ TailBegins \/ TailTakesActive \/ TailActiveTaken \/ TailAdds \/ TailReturns

SelectionSpec == SelectionInit /\ [][SelectionNext]_windowVars

-----------------------------------------------------------------------------
Chosen == phase \in {"references", "trim"} \/ outcome = "fits"

\* The design of the context engine (docs/superpowers/specs, line 167) has "call pairs as
\* indivisible units".  Whatever is added or dropped, the choice fits the hard limit (or
\* require_fit would refuse a turn that could be answered), holds the current instruction
\* and every call since, and no call without its result or result without its call (only
\* the message of the current instruction, which Claude's adapter keeps whole, may bring
\* one); the archive finds nothing that is sent anyway.
SelectionIsSound ==
    Chosen =>
        LET given == Rebuilt(selected)
            beside == {i \in given : segments[i].message = segments[instruction].message}
        IN  /\ Cost(selected) <= HardTokens
            /\ instruction \in given
            /\ \A u \in Active : u \subseteq given
            /\ \A i \in given \ beside : Unit(i) \subseteq given
            /\ \A k \in DOMAIN found : found[k] \intersect selected = {}

=============================================================================

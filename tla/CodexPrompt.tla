------------------------------ MODULE CodexPrompt ------------------------------
(***************************************************************************)
(* What a local model is sent for a Codex request (codex_context.py,       *)
(* build_local_payload).  The client resends its whole transcript; the     *)
(* router takes the active turn from it, trims that to its budget, and     *)
(* spends what the turn left over on the end of what came before, whose    *)
(* start is kept from request to request (working_set.sticky_start).       *)
(*                                                                         *)
(* An item of the transcript is one of                                     *)
(*    user, image      the user's text; an attachment without text         *)
(*    answer           text of the assistant                               *)
(*    call, output     of a tool, joined by the id of the call             *)
(*    hosted           what means nothing here: reasoning, harness, tools  *)
(***************************************************************************)
EXTENDS Naturals, Sequences, FiniteSets, SequencesExt

CONSTANTS
    ActiveBudget, HistoryBudget, MemoryBudget, ToolsBudget, SystemBudget,
    MaxInput,       \* codex_context_window less the reserve for the reply
    FirstItems, LaterItems,   \* what one request may add: sequences of items
    MaxRequests     \* bound

\* The settings' own bounds (ge=), and validate_codex_context_allocation, which refuses
\* other settings: history is no part of it.
ASSUME AllocationAssumption ==
    /\ ActiveBudget \in Nat \ {0}
    /\ {HistoryBudget, MemoryBudget, ToolsBudget, SystemBudget, MaxInput} \subseteq Nat
    /\ SystemBudget + MemoryBudget + ToolsBudget + ActiveBudget <= MaxInput

Additions == [kind : {"user", "image", "answer", "call", "output", "hosted"},
              size : Nat \ {0}, pair : Nat]
Tools == {"call", "output"}

Joins(items, i, j) ==
    /\ i \in DOMAIN items /\ j \in DOMAIN items /\ i < j
    /\ items[i].kind = "call" /\ items[j].kind = "output" /\ items[i].pair = items[j].pair

\* What Codex keeps to: every call has one output and every output one call, in the same request; calls made in
\* parallel come before their outputs, with nothing between.
ToolsAnswered(items) ==
    /\ \A i \in DOMAIN items : items[i].kind = "call" => \E j \in DOMAIN items : Joins(items, i, j)
    /\ \A j \in DOMAIN items : items[j].kind = "output" => \E i \in DOMAIN items : Joins(items, i, j)
    /\ \A i, j \in DOMAIN items :
          items[i].kind \in Tools /\ items[i].kind = items[j].kind /\ items[i].pair = items[j].pair
              => i = j
    /\ \A i, j \in DOMAIN items : Joins(items, i, j) =>
          \E last \in i..(j - 1) : \A k \in i..j :
              items[k].kind = IF k <= last THEN "call" ELSE "output"

ASSUME RequestsAssumption ==
    \A new \in FirstItems \union LaterItems :
        /\ new \in Seq(Additions)
        /\ Len(new) > 0
        /\ \A i \in DOMAIN new : new[i].kind \in Tools => new[i].pair \in 1..Len(new)
        /\ ToolsAnswered(new)

VARIABLES
    thread,        \* the client's items
    asks,          \* the lengths of the transcript at each request
    asked,         \* requests so far, those taken back included
    named,         \* the last number that was given to an item or a call
    skipped,       \* _boundaries of this conversation: items left out, 0 if there is none
    made,          \* what the last request was made into
    undone         \* history: the client has taken requests back

codexVars == <<thread, asks, asked, named, skipped, made, undone>>

Nothing == [status |-> "none", history |-> <<>>, active |-> <<>>, budget |-> 0,
            whole |-> TRUE]
Declined(why) == [Nothing EXCEPT !.status = why]

CodexInit ==
    /\ thread = <<>>
    /\ asks = <<0>>
    /\ asked = 0
    /\ named = 0
    /\ skipped = 0
    /\ made = Nothing
    /\ undone = FALSE

Size(items) == FoldLeft(LAMBDA n, item : n + item.size, 0, items)

\* The items at some indices, in order.
ItemsAt(items, indices) ==
    FlattenSeq([i \in DOMAIN items |-> IF i \in indices THEN <<items[i]>> ELSE <<>>])
OfKinds(items, kinds) == ItemsAt(items, {i \in DOMAIN items : items[i].kind \in kinds})

\* _paired_call_indices: [output's index -> call's index], ids being unique.
Pairs(items) ==
    [j \in {j \in DOMAIN items : \E i \in DOMAIN items : Joins(items, i, j)} |->
        CHOOSE i \in DOMAIN items : Joins(items, i, j)]
PairedIndices(items) ==
    LET pairs == Pairs(items) IN DOMAIN pairs \union {pairs[i] : i \in DOMAIN pairs}

-----------------------------------------------------------------------------
(* _active_turn and _active_start                                            *)

Last0(S) == CHOOSE i \in S : \A j \in S : j <= i
First0(S) == CHOOSE i \in S : \A j \in S : i <= j

Users(items) == {i \in DOMAIN items : items[i].kind \in {"user", "image"}}
Outputs(items) == {i \in DOMAIN items : items[i].kind = "output"}

\* Without a user: the last outputs, as far back as they are paired.
Completed(items) ==
    LET paired == DOMAIN Pairs(items)
        last == Last0(Outputs(items))
    IN  {i \in Outputs(items) : i..last \subseteq paired}

ActiveIndices(items) ==
    IF Users(items) # {}
    THEN LET user == Last0(Users(items))
             after == SubSeq(items, user + 1, Len(items))
         IN  {user} \union {i \in (user + 1)..Len(items) :
                               i - user \in PairedIndices(after) \/ items[i].kind = "answer"}
    ELSE Completed(items) \union {Pairs(items)[i] : i \in Completed(items)}

-----------------------------------------------------------------------------
(* _trim_active_items                                                        *)

\* The number of what is given up, found by halving.
Bisect(fits) ==
    LET search[range \in (DOMAIN fits) \X (DOMAIN fits)] ==
            LET middle == (range[1] + range[2]) \div 2
            IN  IF range[1] >= range[2] THEN range[1]
                ELSE IF fits[middle] THEN search[<<range[1], middle>>]
                ELSE search[<<middle + 1, range[2]>>]
    IN  search[<<1, Len(fits)>>]

\* Oldest outputs first: a note takes an output's place.
WithOmitted(items, n) ==
    LET outputs == Outputs(items)
        omitted == {i \in outputs : Cardinality({j \in outputs : j <= i}) <= n}
    IN  [i \in DOMAIN items |-> IF i \in omitted THEN [items[i] EXCEPT !.size = 1] ELSE items[i]]

\* Answers and pairs, by where they begin.
Removable(items) ==
    LET pairs == Pairs(items)
    IN  {{i} : i \in {j \in DOMAIN items : items[j].kind = "answer"}}
        \union {{i, pairs[i]} : i \in DOMAIN pairs}
Without(items, n) ==
    LET groups == Removable(items)
        old(group) == Cardinality({g \in groups : First0(g) <= First0(group)}) <= n
    IN  ItemsAt(items, DOMAIN items \ UNION {g \in groups : old(g)})

\* What is left of the active turn, if it can be made to fit.
Trimmed(items) ==
    LET outputs == Cardinality(Outputs(items))
        noted == WithOmitted(items, outputs)
        groups == Cardinality(Removable(noted))
        omits == [n \in 1..outputs |-> Size(WithOmitted(items, n)) <= ActiveBudget]
        removes == [n \in 1..groups |-> Size(Without(noted, n)) <= ActiveBudget]
    IN  IF Size(items) <= ActiveBudget THEN [fits |-> TRUE, items |-> items]
        ELSE IF outputs > 0 /\ omits[outputs]
        THEN [fits |-> TRUE, items |-> WithOmitted(items, Bisect(omits))]
        ELSE IF groups > 0 /\ removes[groups]
        THEN [fits |-> TRUE, items |-> Without(noted, Bisect(removes))]
        ELSE [fits |-> FALSE, items |-> <<>>]

-----------------------------------------------------------------------------
(* _history_window                                                           *)

\* Mutant: history has a budget of its own.
MutBudget(active) == HistoryBudget

\* _history_budget: what the active turn left.
Budget(active) ==
    LET left == IF Size(active) < ActiveBudget THEN ActiveBudget - Size(active) ELSE 0
    IN  IF left < HistoryBudget THEN left ELSE HistoryBudget

Replayable(items) == OfKinds(items, {"user", "image", "answer", "call", "output"})
Beyond(items, n) == SubSeq(items, n + 1, Len(items))

\* working_set.sticky_start: how many items are left out.
StickyStart(units, budget) ==
    LET target == (budget * 17) \div 20
        held == 0 < skipped /\ skipped < Len(units) /\ Size(Beyond(units, skipped)) <= budget
    IN  IF Size(units) <= budget THEN 0
        ELSE IF held THEN skipped
        ELSE First0({n \in 0..Len(units) : Size(Beyond(units, n)) <= target})

\* Outputs the window would open on are passed over if their calls are left out.
Opening(units, start) ==
    LET pairs == Pairs(units)
        orphan(i) == i \in DOMAIN pairs /\ pairs[i] <= start
    IN  First0({n \in start..Len(units) : n = Len(units) \/ ~orphan(n + 1)})

\* What the units from a start on are replayed as: attachments are left out.
Replayed(units, start) ==
    OfKinds(Beyond(units, Opening(units, start)), {"user", "answer", "call", "output"})

\* [items, start to be remembered]
HistoryWindow(items, budget) ==
    LET units == Replayable(items)
        start == StickyStart(units, budget)
    IN  IF budget = 0 \/ units = <<>> THEN [items |-> <<>>, start |-> skipped]
        ELSE [items |-> Replayed(units, start), start |-> start]

-----------------------------------------------------------------------------
(* build_local_payload                                                       *)

Total(window, active, memory, tools) == SystemBudget + Size(window) + memory + Size(active) + tools

\* When all is too long memories go first, then the tools, then the request.
Fitted(window, active, memory, budget) ==
    LET fits(m, t) == Total(window, active, m, t) <= MaxInput
    IN  IF fits(memory, ToolsBudget) \/ fits(0, ToolsBudget) \/ fits(0, 0)
        THEN [status |-> "sent", history |-> window, active |-> active, budget |-> budget,
              whole |-> fits(memory, ToolsBudget)]
        ELSE Declined("too long")

\* Ids of messages and of calls are new in every request.
NamedItems(new) ==
    [i \in DOMAIN new |-> [id |-> named + i, kind |-> new[i].kind, size |-> new[i].size,
                           pair |-> named + new[i].pair]]

\* The router's own line, after all items.
GoesOn(items) == [id |-> items[Len(items)].id + 1, kind |-> "user", size |-> 1, pair |-> 0]

Grows(new) ==
    /\ asked < MaxRequests
    /\ thread' = thread \o NamedItems(new)
    /\ asks' = Append(asks, Len(thread) + Len(new))
    /\ asked' = asked + 1
    /\ named' = named + Len(new)
    /\ UNCHANGED undone

\* The cloud answers: the transcript has grown by the next request.
CloudServes(new) ==
    /\ Grows(new)
    /\ UNCHANGED <<skipped, made>>

\* Why a request has no active turn that could be sent, or "none".
Refusal(items) ==
    LET user == items[Last0(Users(items))]
    IN  IF Users(items) = {}
        THEN IF Completed(items) = {} THEN "no instruction" ELSE "none"
        ELSE IF user.kind = "image" THEN "no instruction"
        ELSE IF user.size > ActiveBudget THEN "instruction too long" ELSE "none"

\* [sent, boundary]
Built(items, memory) ==
    LET chosen == ActiveIndices(items)
        trimmed == Trimmed(ItemsAt(items, chosen))
        \* a turn of which nothing is left goes on by a line of the router's
        turn == IF trimmed.items = <<>> THEN <<GoesOn(items)>> ELSE trimmed.items
        budget == Budget(turn)
        window == HistoryWindow(SubSeq(items, 1, First0(chosen) - 1), budget)
    IN  IF ~trimmed.fits THEN [made |-> Declined("turn too long"), skipped |-> skipped]
        ELSE [made |-> Fitted(window.items, turn, memory, budget), skipped |-> window.start]

\* The request is served here, with what was recalled for it.
LocalServes(new, memory) ==
    /\ Grows(new)
    /\ LET items == thread \o NamedItems(new)
           why == Refusal(items)
           built == IF why = "none" THEN Built(items, memory)
                    ELSE [made |-> Declined(why), skipped |-> skipped]
       IN  made' = built.made /\ skipped' = built.skipped

Requested(new) == CloudServes(new) \/ \E memory \in {0, MemoryBudget} : LocalServes(new, memory)

\* The user goes back to an earlier request.
TakesBack ==
    /\ Len(asks) > 2
    /\ asks' = SubSeq(asks, 1, Len(asks) - 1)
    /\ thread' = SubSeq(thread, 1, asks[Len(asks) - 1])
    /\ undone' = TRUE
    /\ UNCHANGED <<asked, named, skipped, made>>

CodexNext ==
    \/ thread = <<>> /\ \E new \in FirstItems : Requested(new)
    \/ thread # <<>> /\ \E new \in LaterItems : Requested(new)
    \/ TakesBack

CodexSpec == CodexInit /\ [][CodexNext]_codexVars

-----------------------------------------------------------------------------
(* Properties *)

\* Among parallel calls, a call that the window leaves out by opening on a later one.
CutFrom(items, window, pair) ==
    \E c, i \in DOMAIN items :
        /\ c < i /\ items[c].pair = pair
        /\ \A k \in c..i : items[k].kind = "call"
        /\ window # <<>> /\ items[i] = Head(window)

\* A request that is served has the current instruction and everything once and in order;
\* no call without its output, and no output without its call, except the output of a
\* parallel call that the window left out by opening on a later call of the same run.
\* History "can never push the allocation past the window" (config.py:170): nothing is
\* dropped or refused for want of room that the budgets had allotted.
Sound(items, s) ==
    LET body == s.history \o s.active
        users == {i \in Users(items) : items[i].kind = "user"}
    IN  /\ s.status # "too long" /\ s.whole
        /\ s.status = "sent" =>
              /\ \A i, j \in DOMAIN body : i < j => body[i].id < body[j].id
              /\ users # {} => \E i \in DOMAIN s.active : s.active[i].id = items[Last0(users)].id
              /\ \A j \in DOMAIN body :
                    body[j].kind = "output" /\ ~CutFrom(items, s.history, body[j].pair) =>
                        \E i \in DOMAIN body : Joins(body, i, j)
              /\ \A i \in DOMAIN body : body[i].kind = "call" =>
                    \E j \in DOMAIN body : Joins(body, i, j)

\* "Turn N's payload must OPEN with turn N-1's payload" (test_codex_context.py:695): what a
\* request replays only grows while the window that was chosen and what is new fit what the
\* active turn leaves, unless requests were taken back, or the turn was trimmed so far that
\* all of the history fits again.
OpensAlike ==
    \/ made'.status # "sent" \/ undone
    \/ \A past \in {SubSeq(thread', 1, First0(ActiveIndices(thread')) - 1)} :
          LET units == Replayable(past)
          IN  \/ Size(Beyond(units, skipped)) > made'.budget
              \/ skipped # 0 /\ Size(units) <= made'.budget
              \/ IsPrefix(made.history, made'.history)

\* Every local request is sound, and opens as the last one did.
CodexRequestsSound == [][made' # made => Sound(thread', made') /\ OpensAlike]_codexVars

\* Stated by a test of the window (test_codex_context.py:731-753): every output that is
\* replayed has its call there, or "an orphan tool output was replayed".
NoOrphanOutput ==
    LET body == made.history \o made.active
    IN  \A j \in DOMAIN body : body[j].kind = "output" => \E i \in DOMAIN body : Joins(body, i, j)
=============================================================================

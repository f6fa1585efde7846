------------------------------- MODULE LocalPrompt -------------------------------
(***************************************************************************)
(* What a local model is sent for a Claude Code turn.  The client resends  *)
(* its whole transcript; the router strips it (bare.py), sends the end of  *)
(* it that fits (working_set.py), converts it, folds stray system messages *)
(* and puts recalled memories in front (translate.py).  The model keeps    *)
(* the prompt it has processed: what a turn costs is what it changes.      *)
(*                                                                         *)
(* A message of the transcript is one of                                   *)
(*    user, answer    text                                                 *)
(*    call, result    a call of a tool bare mode keeps, and what it gave   *)
(*    remote, fetched the same for a tool bare mode drops                  *)
(*    both            a result with text of the user beside it             *)
(*    note            a system message in mid-conversation                 *)
(***************************************************************************)
EXTENDS Naturals, Sequences, FiniteSets, SequencesExt

CONSTANTS
    Target, Ceiling,    \* what a rebuild aims for; what triggers one
    ResultLimit,        \* the size a result is cut to
    FirstTurns, LaterTurns,  \* what Claude Code may add: sequences of kinds and sizes
    MaxTurns            \* bound

Kinds == {"user", "answer", "call", "result", "remote", "fetched", "both", "note"}
Contents == [kind : Kinds, size : Nat]
Results == {"result", "both"}

ASSUME LimitsAssumption == Ceiling \in Nat /\ ResultLimit \in Nat

\* Every request of the client adds something; the client has run a tool before it sends
\* what the tool gave, so a result is what follows a call that begins what is new.
ASSUME TurnsAssumption ==
    \A new \in FirstTurns \union LaterTurns :
        /\ new \in Seq(Contents)
        /\ Len(new) \in 1..9
        /\ \A i \in DOMAIN new : new[i].kind \in Results => i = 2 /\ new[1].kind = "call"

VARIABLES
    transcript,    \* the client's messages
    turns,         \* the lengths of the transcript at each turn
    count,         \* turns so far, those taken back included
    boundary,      \* _boundaries of this conversation: 0 if there is none, else index + 1
    sent,          \* the prompt of the last turn
    window,        \* the part of the transcript it was made from
    chosen,        \* how it was chosen: "whole", "stable", "rebuilt" or "overflow"
    recalls,       \* the memory store finds something for every query
    rewound        \* history: the client has taken turns back

promptVars == <<transcript, turns, count, boundary, sent, window, chosen, recalls, rewound>>

PromptInit ==
    /\ transcript = <<>>
    /\ turns = <<0>>
    /\ count = 0
    /\ boundary = 0
    /\ sent = <<>>
    /\ window = <<>>
    /\ chosen = "whole"
    /\ recalls \in BOOLEAN
    /\ rewound = FALSE

-----------------------------------------------------------------------------
(* bare.strip_message: a dropped tool leaves text, a result is cut short.    *)

Cut(size) == IF size > ResultLimit THEN ResultLimit ELSE size

Strip(m) ==
    CASE m.kind = "remote" -> [m EXCEPT !.kind = "answer"]
      [] m.kind = "fetched" -> [m EXCEPT !.kind = "user", !.size = Cut(@)]
      [] m.kind \in Results -> [m EXCEPT !.size = Cut(@)]
      [] OTHER -> m

StripAll(messages) == [i \in DOMAIN messages |-> Strip(messages[i])]

-----------------------------------------------------------------------------
(* working_set.bound                                                         *)

From(messages, start) == SubSeq(messages, start, Len(messages))
Tokens(messages) == FoldLeft(LAMBDA n, m : n + m.size, 0, messages)

\* _rebuild_start: from the newest message back, until the target would be exceeded.
RebuildStart(messages) ==
    CHOOSE start \in DOMAIN messages :
        /\ \A i \in start..(Len(messages) - 1) : ~(Tokens(From(messages, i)) > Target)
        /\ start = 1 \/ Tokens(From(messages, start - 1)) > Target

\* A result whose call is not in the window.
Orphan(messages, start) ==
    /\ messages[start].kind \in Results
    /\ ~\E i \in start..Len(messages) : messages[i].kind = "call" /\ messages[i].id = messages[start].pair

\* Mutant: the window begins where the budget ends.
MutFirstSafeStart(messages, start) == start

\* _first_safe_start: the last message is not passed over.
FirstSafeStart(messages, start) ==
    CHOOSE i \in start..Len(messages) :
        /\ i = Len(messages) \/ ~Orphan(messages, i)
        /\ \A j \in start..(i - 1) : Orphan(messages, j)

\* Mutant: the boundary is recomputed on every request.
MutBound(messages, remembered) ==
    IF Tokens(messages) <= Ceiling THEN [start |-> 1, chosen |-> "whole"]
    ELSE LET start == FirstSafeStart(messages, RebuildStart(messages))
         IN  [start |-> start,
              chosen |-> IF Tokens(From(messages, start)) > Ceiling THEN "overflow" ELSE "rebuilt"]

Bound(messages, remembered) ==
    CASE Tokens(messages) <= Ceiling -> [start |-> 1, chosen |-> "whole"]
      [] /\ Tokens(messages) > Ceiling
         /\ 1 < remembered /\ remembered <= Len(messages)
         /\ Tokens(From(messages, remembered)) <= Ceiling ->
            [start |-> remembered, chosen |-> "stable"]
      [] OTHER ->
            LET start == FirstSafeStart(messages, RebuildStart(messages))
            IN  [start |-> start,
                 chosen |-> IF Tokens(From(messages, start)) > Ceiling THEN "overflow" ELSE "rebuilt"]

-----------------------------------------------------------------------------
(* translate.build_nim_payload                                               *)

Item(role, parts) == [role |-> role, parts |-> parts]

\* messages_to_openai: a result is a message of its own, after the text beside it.
Convert(m) ==
    CASE m.kind = "user" -> <<Item("user", <<m.id>>)>>
      [] m.kind \in {"answer", "call"} -> <<Item("assistant", <<m.id>>)>>
      [] m.kind = "result" -> <<Item("tool", <<m.id>>)>>
      [] m.kind = "both" -> <<Item("user", <<m.id>>), Item("tool", <<m.id>>)>>
      [] m.kind = "note" -> <<Item("system", <<m.id>>)>>

\* _hoist_system_messages: a stray note goes into the next user message, or after all.
Gathers(a, item) ==
    CASE item.role = "system" -> [a EXCEPT !.carry = @ \o item.parts]
      [] item.role = "user" ->
            [out |-> Append(a.out, Item("user", a.carry \o item.parts)), carry |-> <<>>]
      [] OTHER -> [a EXCEPT !.out = Append(@, item)]

Hoist(items) ==
    LET last == FoldLeft(Gathers, [out |-> <<>>, carry |-> <<>>], items)
    IN  IF last.carry = <<>> THEN last.out ELSE Append(last.out, Item("user", last.carry))

\* _inject_memory: what is recalled for the last user message goes into the system prompt.
Head0(items) ==
    LET users == {i \in DOMAIN items : items[i].role = "user"}
        query == IF users = {} THEN <<>> ELSE items[CHOOSE i \in users : \A j \in users : j <= i].parts
    IN  Item("system", IF recalls THEN query ELSE <<>>)

Payload(messages) ==
    LET items == Hoist(FlattenSeq([i \in DOMAIN messages |-> Convert(messages[i])]))
    IN  <<Head0(items)>> \o items

-----------------------------------------------------------------------------
(* A turn                                                                    *)

\* Identities of the messages a turn adds: ids do not repeat when turns are taken back.
Named(new) ==
    [i \in DOMAIN new |-> [id |-> 10 * count + i, kind |-> new[i].kind, size |-> new[i].size,
                           pair |-> 10 * count + 1]]

\* The client sends its transcript with what is new; _bound_working_set decides on the
\* stripped messages, and sends all of them when even their end is too long.
Turn(new) ==
    /\ count < MaxTurns
    /\ LET all == transcript \o Named(new)
           messages == StripAll(all)
           b == Bound(messages, boundary)
           kept == IF b.chosen = "overflow" THEN messages ELSE From(messages, b.start)
       IN  /\ transcript' = all
           /\ turns' = Append(turns, Len(all))
           /\ boundary' = b.start
           /\ window' = kept
           /\ chosen' = b.chosen
           /\ sent' = Payload(kept)
    /\ count' = count + 1
    /\ UNCHANGED <<recalls, rewound>>

Opens == transcript = <<>> /\ \E new \in FirstTurns : Turn(new)
Continues == transcript # <<>> /\ \E new \in LaterTurns : Turn(new)

\* The client takes turns back (the head of the transcript, and so its key, stays).
Rewinds(k) ==
    /\ k > 1
    /\ k < Len(turns)
    /\ turns' = SubSeq(turns, 1, k)
    /\ transcript' = SubSeq(transcript, 1, turns[k])
    /\ rewound' = TRUE
    /\ UNCHANGED <<count, boundary, sent, window, chosen, recalls>>

\* _remember: other conversations push this one's boundary out.
Evicted ==
    /\ boundary > 0
    /\ boundary' = 0
    /\ UNCHANGED <<transcript, turns, count, sent, window, chosen, recalls, rewound>>

PromptNext == Opens \/ Continues \/ (\E k \in DOMAIN turns : Rewinds(k)) \/ Evicted

PromptSpec == PromptInit /\ [][PromptNext]_promptVars

-----------------------------------------------------------------------------
\* The prompt holds every message of the window exactly once and in its order (a message
\* with text beside a result twice), the notes apart, and no system message after the first.
PromptIsWhole ==
    LET body == FlattenSeq([i \in 1..(Len(sent) - 1) |-> sent[i + 1].parts])
        twice == {m.id : m \in {window[i] : i \in {j \in DOMAIN window : window[j].kind = "both"}}}
        notes == {window[i].id : i \in {j \in DOMAIN window : window[j].kind = "note"}}
        times(id) == Cardinality({k \in DOMAIN body : body[k] = id})
    IN  /\ \A i \in DOMAIN window :
              times(window[i].id) = IF window[i].id \in twice THEN 2 ELSE 1
        /\ \A i, j \in DOMAIN body :
              i < j /\ body[i] \notin notes /\ body[j] \notin notes => body[i] <= body[j]
        /\ \A i \in DOMAIN sent : sent[i].role = "system" => i = 1

\* A result whose call the model is not sent.
OrphanAt(i) ==
    /\ window[i].kind \in Results
    /\ ~\E j \in DOMAIN window : window[j].kind = "call" /\ window[j].id = window[i].pair

\* working_set.py, _first_safe_start: the model is not sent a result without its call,
\* unless the boundary dates from turns that were taken back, or the result is all that is
\* sent, as the last message is never passed over; or it was that on an earlier turn, as a
\* boundary is not looked at again while what follows it fits.
NoOrphanResult ==
    \A i \in DOMAIN window :
        OrphanAt(i) /\ ~rewound =>
            /\ i = 1
            /\ IF chosen = "stable"
               THEN \E k \in DOMAIN turns : turns[k] = Len(transcript) - Len(window) + 1
               ELSE Len(window) = 1

\* What the model is sent can be understood.
PromptIsSound == PromptIsWhole /\ NoOrphanResult

\* Where a turn ends with a note that no user message follows.
NoteAtEnd ==
    LET notes == {i \in DOMAIN window : window[i].kind = "note"}
    IN  \E n \in notes : ~\E i \in n..Len(window) : window[i].kind \in {"user", "both"}

\* A turn only adds to the prompt the model has processed, as long as the old window and
\* what is new fit together: the boundary moves only when it must.  (The system prompt is
\* left out of this; a note that closed the last turn moves.)
AppendsWhileItFits ==
    [][\/ sent' = sent
       \/ transcript = <<>> \/ rewound \/ boundary = 0
       \/ NoteAtEnd \/ chosen = "overflow"
       \/ Tokens(From(StripAll(transcript'), boundary)) > Ceiling
       \/ IsPrefix(Tail(sent), Tail(sent'))]_promptVars

=============================================================================

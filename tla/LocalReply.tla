------------------------------- MODULE LocalReply -------------------------------
(***************************************************************************)
(* A local reply on its way to the client: _stream of routes.py feeds each *)
(* chunk of the provider to stream_openai_to_anthropic (translate.py),     *)
(* which keeps, in a dict, which blocks of the Anthropic message are open. *)
(*                                                                         *)
(* What the model writes is a sequence of symbols:                         *)
(*    "w" a word           "s" white space                                 *)
(*    "j" a JSON object that is a call of an offered tool                  *)
(*    "k" any other JSON object                                            *)
(*    "o" the tag <think>                                                  *)
(*    "<" and ">"  the two parts a chunk may cut the tag </think> into     *)
(***************************************************************************)
EXTENDS Naturals, Sequences, FiniteSets, SequencesExt

CONSTANTS
    Deltas,        \* what a chunk of the provider may hold
    MaxChunks      \* bound: chunks of a reply

Symbols == {"w", "s", "j", "k", "o", "<", ">"}
Pieces == [reasoning : BOOLEAN, content : Seq(Symbols), calls : Seq(Nat), finish : BOOLEAN]

ASSUME DeltasAssumption == Deltas \subseteq Pieces

VARIABLES
    toolMode,      \* the request offers tools
    strip,         \* provider_strip_inline_thinking
    dict,          \* the dict of stream_openai_to_anthropic
    wire,          \* the block events sent so far
    chunks,        \* history: the chunks received
    stream         \* "open", then "ended" or "broken"

replyVars == <<toolMode, strip, dict, wire, chunks, stream>>

\* start_stream_events
NewDict ==
    [index |-> 0, thinking |-> FALSE, text |-> FALSE, emitted |-> FALSE,
     decision |-> "none", buf |-> <<>>, carry |-> <<>>, thought |-> FALSE,
     calls |-> <<>>, reasons |-> 0, out |-> <<>>]

ReplyInit ==
    /\ toolMode \in BOOLEAN
    /\ strip \in BOOLEAN
    /\ dict = NewDict
    /\ wire = <<>>
    /\ chunks = <<>>
    /\ stream = "open"

-----------------------------------------------------------------------------
(* Symbols *)

\* What is left of a text when only the symbols of a set are kept.
Only(t, kept) == FlattenSeq([i \in DOMAIN t |-> IF t[i] \in kept THEN <<t[i]>> ELSE <<>>])

\* buf.lstrip()
LStrip(t) == SelectInSeq(t, LAMBDA x : x # "s") \* position of the first other symbol
Stripped(t) == IF LStrip(t) = 0 THEN <<>> ELSE SubSeq(t, LStrip(t), Len(t))

\* Where </think> begins, or 0.
CloserIn(t) ==
    LET at == {i \in 1..(Len(t) - 1) : t[i] = "<" /\ t[i + 1] = ">"}
    IN  IF at = {} THEN 0 ELSE CHOOSE i \in at : \A j \in at : i <= j

\* looks_like_tool_call_start
LooksLikeCall(t) == Head(Stripped(t)) \in {"j", "k"}

\* extract_text_tool_calls: one object that parses, of a tool that was offered.
IsCall(t) == Only(t, Symbols \ {"s"}) = <<"j">>

-----------------------------------------------------------------------------
(* Events *)

Tells(s, event, index, kind, body) ==
    [s EXCEPT !.out = Append(@, [event |-> event, index |-> index, kind |-> kind, body |-> body])]

OpensBlock(s, kind) == Tells(s, "start", s.index, kind, <<>>)

\* _thinking_deltas; the branch for `reasoning` does the same.
ThinkingDelta(s, body) ==
    LET t == IF s.thinking THEN s ELSE OpensBlock([s EXCEPT !.thinking = TRUE], "thinking")
    IN  Tells(t, "delta", t.index, "thinking", body)

\* _close_thinking_block
CloseThinking(s) ==
    IF s.thinking
    THEN Tells([s EXCEPT !.thinking = FALSE, !.index = @ + 1], "stop", s.index, "thinking", <<>>)
    ELSE s

\* _emit_text_delta
EmitText(s, body) ==
    IF body = <<>> THEN s
    ELSE LET t == IF s.text THEN s ELSE OpensBlock([s EXCEPT !.text = TRUE], "text")
         IN  Tells([t EXCEPT !.emitted = TRUE], "delta", t.index, "text", body)

-----------------------------------------------------------------------------
(* stream_openai_to_anthropic, in the order of its sections *)

TakesReasoning(s, chunk) ==
    IF chunk.reasoning THEN ThinkingDelta([s EXCEPT !.reasons = @ + 1], <<"w">>) ELSE s

\* Mutant: a tag cut in two is not recognised.
MutKept(t) == <<>>

\* The tail held back: it could be the beginning of the closer.
Kept(t) == IF t # <<>> /\ Last(t) = "<" THEN <<"<">> ELSE <<>>

\* Still inside the inline thoughts: what is in the text before the closer, and after.
Thinks(s, text) ==
    LET all == s.carry \o text
        buf == IF Stripped(all) # <<>> /\ Head(Stripped(all)) = "o" THEN Tail(Stripped(all)) ELSE all
        at == CloserIn(buf)
        before == SubSeq(buf, 1, at - 1)
        shown == SubSeq(buf, 1, Len(buf) - Len(Kept(buf)))
        t == [s EXCEPT !.carry = <<>>]
    IN  IF at > 0
        THEN [state |-> CloseThinking(
                  LET d == [t EXCEPT !.thought = TRUE]
                  IN  IF Stripped(before) = <<>> THEN d ELSE ThinkingDelta(d, before)),
              text |-> SubSeq(buf, at + 2, Len(buf)),
              done |-> FALSE]
        ELSE [state |-> LET d == [t EXCEPT !.carry = Kept(buf)]
                        IN  IF shown = <<>> THEN d ELSE ThinkingDelta(d, shown),
              text |-> <<>>,
              done |-> TRUE]

\* Visible text: shown at once, or held while it may be a tool call.
Shows(s, text) ==
    LET t == CloseThinking(s)
        held == [t EXCEPT !.buf = @ \o text]
    IN  CASE text = <<>> -> s
          [] text # <<>> /\ (~toolMode \/ t.decision = "text") -> EmitText(t, text)
          [] text # <<>> /\ toolMode /\ t.decision = "buffer" -> held
          [] text # <<>> /\ toolMode /\ t.decision = "none" ->
                IF Stripped(held.buf) = <<>> THEN held
                ELSE IF LooksLikeCall(held.buf) THEN [held EXCEPT !.decision = "buffer"]
                ELSE EmitText([t EXCEPT !.decision = "text", !.buf = <<>>], held.buf)

\* A delta of tool call i: its block is opened the first time.
Call(s, i) ==
    LET t == CloseThinking(s)
        u == IF t.text
             THEN Tells([t EXCEPT !.text = FALSE, !.index = @ + 1], "stop", t.index, "text", <<>>)
             ELSE t
        opened == Tells([u EXCEPT !.calls = Append(@, [call |-> i, index |-> u.index]),
                                  !.index = @ + 1], "start", u.index, "tool", <<>>)
        v == IF \E k \in DOMAIN t.calls : t.calls[k].call = i THEN t ELSE opened
        at == (CHOOSE k \in DOMAIN v.calls : v.calls[k].call = i)
    IN  Tells(v, "delta", v.calls[at].index, "tool", <<>>)

\* The text held back is a call, or text after all.
Resolves(s) ==
    LET called == [s EXCEPT !.index = @ + 1, !.buf = <<>>]
    IN  CASE s.buf = <<>> -> s
          [] s.buf # <<>> /\ IsCall(s.buf) ->
                Tells(Tells(Tells(called, "start", s.index, "tool", <<>>),
                            "delta", s.index, "tool", <<"j">>), "stop", s.index, "tool", <<>>)
          [] s.buf # <<>> /\ ~IsCall(s.buf) -> [EmitText(s, s.buf) EXCEPT !.buf = <<>>]

\* Reasoning is promoted when nothing else would be seen.
Promotes(s, converted) ==
    IF ~s.emitted /\ s.calls = <<>> /\ ~converted /\ s.reasons > 0
    THEN EmitText(s, [k \in 1..s.reasons |-> "w"])
    ELSE s

StopsCall(s, call) == Tells(s, "stop", call.index, "tool", <<>>)

\* The chunk with finish_reason closes what is open and ends the message.
FinishesReply(s) ==
    LET t == CloseThinking(s)
        u == Promotes(Resolves(t), t.buf # <<>> /\ IsCall(t.buf))
        v == IF u.text THEN Tells(u, "stop", u.index, "text", <<>>) ELSE u
        closed == FoldLeft(StopsCall, v, v.calls)
    IN  Tells(closed, "end", 0, "message", <<>>)

\* The whole of a chunk.  Inside the inline thoughts a text delta returns early:
\* what else the chunk holds is not looked at.
Translate(s, chunk) ==
    LET r == TakesReasoning(s, chunk)
        th == IF strip /\ ~r.thought /\ chunk.content # <<>>
              THEN Thinks(r, chunk.content)
              ELSE [state |-> r, text |-> chunk.content, done |-> FALSE]
        called == FoldLeft(Call, Shows(th.state, th.text), chunk.calls)
    IN  IF th.done THEN th.state
        ELSE IF chunk.finish THEN FinishesReply(called) ELSE called

-----------------------------------------------------------------------------
(* _stream *)

Finished == \E i \in DOMAIN chunks : chunks[i].finish

\* The next chunk of the provider that parses; client.py skips the others.  A ping, sent
\* when it takes long, changes nothing.
Receives(chunk) ==
    /\ stream = "open"
    /\ ~Finished
    /\ Len(chunks) < MaxChunks
    /\ LET s == Translate(dict, chunk)
       IN  /\ dict' = [s EXCEPT !.out = <<>>]
           /\ wire' = wire \o s.out
    /\ chunks' = Append(chunks, chunk)
    /\ UNCHANGED <<toolMode, strip, stream>>

\* The provider's stream has ended: on [DONE] or where its body ends, whether or not a chunk
\* came that says the model has finished.  Nothing more is sent.
ReplyEnds ==
    /\ stream = "open"
    /\ stream' = "ended"
    /\ UNCHANGED <<toolMode, strip, dict, wire, chunks>>

\* ProviderError or TransportError: an error event is the last one.
Breaks ==
    /\ stream = "open"
    /\ stream' = "broken"
    /\ wire' = Append(wire, [event |-> "error", index |-> 0, kind |-> "message", body |-> <<>>])
    /\ UNCHANGED <<toolMode, strip, dict, chunks>>

ReplyNext == (\E chunk \in Deltas : Receives(chunk)) \/ ReplyEnds \/ Breaks

ReplySpec == ReplyInit /\ [][ReplyNext]_replyVars

-----------------------------------------------------------------------------
(* The client: it keeps the blocks it has been told of, and which are open.  *)

Applies(c, e) ==
    LET block == <<e.index, e.kind>>
    IN  CASE e.event = "start" -> [c EXCEPT !.open = @ \union {block},
                                            !.ok = @ /\ c.seen = e.index,
                                            !.seen = e.index + 1]
          [] e.event = "delta" -> [c EXCEPT !.ok = @ /\ block \in c.open]
          [] e.event = "stop" -> [c EXCEPT !.ok = @ /\ block \in c.open, !.open = @ \ {block}]
          [] e.event = "end" -> [c EXCEPT !.ok = @ /\ c.open = {}, !.ended = TRUE]
          [] OTHER -> c

ClientOf(events) ==
    FoldLeft(Applies, [open |-> {}, seen |-> 0, ok |-> TRUE, ended |-> FALSE], events)
Client == ClientOf(wire)

\* What the model wrote, as one text.
ContentOf(some) == FlattenSeq([i \in DOMAIN some |-> some[i].content])
Content == ContentOf(chunks)
HasReasoning == \E i \in DOMAIN chunks : chunks[i].reasoning
HasCalls == \E i \in DOMAIN chunks : chunks[i].calls # <<>>

Words(t) == Only(t, {"w", "j", "k"})
TextOf(events) ==
    FlattenSeq([i \in DOMAIN events |->
        IF events[i].event = "delta" /\ events[i].kind = "text" THEN events[i].body ELSE <<>>])
ShownWords == Words(TextOf(wire))
CallShown == \E i \in DOMAIN wire : wire[i].kind = "tool" /\ wire[i].body = <<"j">>

\* split_inline_thinking: the text that is left when the thoughts are taken out.
Answer ==
    LET close == CloserIn(Content)
        open == SelectInSeq(Content, LAMBDA x : x = "o")
        after == SubSeq(Content, close + 2, Len(Content))
    IN  CASE ~strip \/ (close = 0 /\ open = 0) -> Content
          [] strip /\ close > 0 /\ (open = 0 \/ close < open) -> after
          [] strip /\ open > 0 /\ close = 0 -> SubSeq(Content, 1, open - 1)
          [] strip /\ open > 0 /\ open < close -> SubSeq(Content, 1, open - 1) \o after
\* nim_response_to_anthropic on the same output: a call in the content, or the words shown.
WholeIsCall == toolMode /\ ~HasCalls /\ IsCall(Answer)
WholeWords ==
    IF WholeIsCall THEN <<>>
    ELSE IF Answer = <<>> /\ HasReasoning /\ ~HasCalls
    THEN [k \in 1..Cardinality({i \in DOMAIN chunks : chunks[i].reasoning}) |-> "w"]
    ELSE Words(Answer)

\* Reasoning arrived while a text block was open.
RelapsedIn(events) ==
    \E i, j \in DOMAIN events :
        /\ i < j
        /\ events[i].event = "start" /\ events[i].kind = "text"
        /\ events[j].event = "start" /\ events[j].kind = "thinking"
        /\ \A k \in (i + 1)..(j - 1) : events[k].event = "delta"
Relapsed == RelapsedIn(wire)
\* Text and the end, or a tool call, in one chunk of which the inline thoughts swallow all.
Swallowed ==
    \E i \in DOMAIN chunks :
        /\ strip
        /\ chunks[i].content # <<>>
        /\ chunks[i].finish \/ chunks[i].calls # <<>>
        /\ CloserIn(ContentOf(SubSeq(chunks, 1, i))) = 0

-----------------------------------------------------------------------------
\* translate.py:850: closing the thinking block advances the index "so text/tool blocks
\* don't collide".  Unless reasoning comes after text, the client can follow: every block
\* is opened once with the next index, deltas go into open blocks of their kind, and none
\* is open when the message is ended.  It is ended when the model has finished (inline
\* thoughts may swallow that), and only then.
BlocksKeepApart ==
    /\ Client.ok \/ Relapsed
    /\ stream = "ended" => IF Finished THEN Client.ended \/ Swallowed ELSE ~Client.ended

\* What can be shown of a text: without inline thoughts, and nothing until they are over.
Visible(t) ==
    IF ~strip THEN t
    ELSE IF CloserIn(t) = 0 THEN <<>> ELSE SubSeq(t, CloserIn(t) + 2, Len(t))

\* A reply whose stream ends before the model has finished: routes.py sends no more, so
\* blocks stay open, there is no message_stop, and what was held back as a possible tool
\* call is lost.  That, and the thoughts, is all that is missing of what arrived.
CutShortMissesTheHeld ==
    stream = "ended" /\ ~Finished =>
        ShownWords \o Words(dict.buf) = Words(Visible(Content))

\* A streamed reply shows what the same output shows when it is not streamed
\* (nim_response_to_anthropic), however it is cut into chunks: no word is lost, held back,
\* taken for a thought or shown twice, and a call in the text becomes a call.  Known
\* differences: inline thoughts with no closer, or with nothing after it, stay thoughts
\* (the other path shows them); <think> is only looked for at the beginning; and JSON that
\* looks like a call becomes one although the model made a structured call too.
StreamedLikeWhole ==
    LET silent == CloserIn(Content) = 0 \/ Words(Answer) = <<>>
        inner == \E i \in DOMAIN Content :
                     Content[i] = "o" /\ Stripped(SubSeq(Content, 1, i - 1)) # <<>>
        inside == strip /\ (silent \/ inner \/ Swallowed)
        doubled == HasCalls /\ IsCall(Answer)
    IN  Client.ended /\ ~inside /\ ~doubled =>
            /\ ShownWords = WholeWords
            /\ CallShown = WholeIsCall

\* The client can follow the stream, and has what it would have had in one piece.
ReplyIsFaithful == BlocksKeepApart /\ CutShortMissesTheHeld /\ StreamedLikeWhole

=============================================================================

------------------------------ MODULE MCParts ------------------------------
(***************************************************************************)
(* Instances for TLC of the parts whose promises are all of safety: the    *)
(* turn held while its upstream is out; the files that outlive a process   *)
(* (the breakers' state, the certificates, the weekly report, the patched  *)
(* application, the clients of the authorization server); and what a local *)
(* turn is given and gives back: its context, its prompt, the request of a *)
(* Codex turn, and the reply as it is translated.                          *)
(*                                                                         *)
(* Their models share no variables.  One is chosen at the start, and only  *)
(* it moves: TLC explores them one after the other.                        *)
(***************************************************************************)
EXTENDS LocalCertificates, UpstreamHold, StatePublish, WeeklyDelivery, DesktopPatch,
        OAuthProvider, ContextWindow, LocalPrompt, CodexPrompt, LocalReply, TLC

CONSTANTS w1, w2, host1, t1, t2, claude, codex, loop, worker, timeout, none, d1, d2

MCWorkers == {w1, w2}
MCHosts == {host1}
MCTurns == {t1, t2}
MCTwoBreakers == {claude, codex}
MCTwoThreads == {loop, worker}
MCOwner == [t \in MCTwoThreads |-> IF t = loop THEN codex ELSE claude]
MCReasons == {timeout}
MCDispatches == {d1, d2}

VARIABLE live

\* Rounds of the past: text and an answer, or a call that cost something.
Segment(p, tokens, refers) == [pair |-> p, cost |-> tokens, reference |-> refers]
Past == {<<Segment(0, 1, FALSE), Segment(0, 1, FALSE)>>,
         <<Segment(0, 1, TRUE)>>,
         <<Segment(0, 1, FALSE), Segment(1, 1, FALSE), Segment(1, 2, FALSE)>>}
\* The current round: the instruction (the first segment), and calls since.
Now == {<<Segment(0, 1, FALSE)>>, <<Segment(0, 4, FALSE)>>,
        <<Segment(0, 1, FALSE), Segment(1, 1, FALSE), Segment(1, 1, FALSE)>>,
        <<Segment(0, 1, FALSE), Segment(1, 1, FALSE), Segment(1, 5, FALSE)>>}

\* Pairs and messages are numbered apart; every segment is a message of its own, but
\* Claude Code may put the current instruction beside the result before it.
Numbered(rounds, beside) ==
    LET all == FlattenSeq([r \in DOMAIN rounds |->
                  [i \in DOMAIN rounds[r] |->
                     [rounds[r][i] EXCEPT !.pair = IF @ = 0 THEN 0 ELSE r]]])
        now == Len(all) - Len(Last(rounds)) + 1
    IN  [segments |-> [i \in DOMAIN all |->
           [pair |-> all[i].pair, cost |-> all[i].cost, reference |-> all[i].reference,
            message |-> IF beside /\ i = now - 1 THEN now ELSE i]],
         instruction |-> now]

MCContexts ==
    {c \in {LET t == Numbered(past \o <<now>>, beside)
            IN  [segments |-> t.segments, instruction |-> t.instruction, client |-> who] :
               past \in UNION {[1..n -> Past] : n \in 0..3}, now \in Now,
               beside \in BOOLEAN, who \in {"claude", "codex"}} :
        /\ \A i \in DOMAIN c.segments :
              c.segments[i].message # i => c.client = "claude" /\ c.segments[i].pair # 0}

\* What one turn adds.  A call may be as long as a rebuild's target, a result is small or
\* big, a user message may be more than any window holds.
Message(k, n) == [kind |-> k, size |-> n]
MCFirstTurns == {<<Message("user", 1)>>, <<Message("note", 1), Message("user", 1)>>}
MCLaterTurns ==
    {<<Message("answer", 1), Message("user", 1)>>, <<Message("answer", 1), Message("user", 5)>>,
     <<Message("answer", 1), Message("note", 1), Message("user", 1)>>,
     <<Message("call", 1), Message("result", 1)>>,
     <<Message("call", 1), Message("result", 3)>>,
     <<Message("call", 3), Message("result", 1)>>,
     <<Message("call", 1), Message("result", 1), Message("note", 1)>>,
     <<Message("call", 1), Message("both", 1)>>,
     <<Message("remote", 1), Message("fetched", 3)>>,
     <<Message("answer", 1), Message("user", 1), Message("note", 1)>>}

\* What one Codex request adds.  Pairs are numbered within the request.  A turn may be more
\* than its budget, in text or in the calls it can do without, and several requests may
\* share a turn.
Adds(k, n, p) == [kind |-> k, size |-> n, pair |-> p]
MCFirstItems ==
    {<<Adds("hosted", 1, 0), Adds("user", 1, 0)>>, <<Adds("call", 1, 1), Adds("output", 1, 1)>>,
     <<Adds("call", 1, 1), Adds("output", 1, 1), Adds("answer", 1, 0), Adds("hosted", 1, 0)>>}
MCLaterItems ==
    {<<Adds("answer", 1, 0), Adds("user", 1, 0)>>, <<Adds("answer", 1, 0), Adds("user", 7, 0)>>,
     <<Adds("answer", 1, 0), Adds("image", 1, 0)>>,
     <<Adds("hosted", 1, 0), Adds("call", 1, 1), Adds("output", 4, 1)>>,
     <<Adds("answer", 1, 0), Adds("call", 6, 1), Adds("output", 1, 1)>>,
     <<Adds("call", 1, 1), Adds("output", 1, 1), Adds("answer", 1, 0)>>,
     <<Adds("call", 1, 1), Adds("call", 1, 2), Adds("output", 1, 1), Adds("output", 1, 2)>>}

Chunk(reasoning, text, called, finish) ==
    [reasoning |-> reasoning, content |-> text, calls |-> called, finish |-> finish]

\* What providers send: one kind of delta in most chunks, two in some.
MCDeltas ==
    {Chunk(TRUE, <<>>, <<>>, FALSE), Chunk(TRUE, <<"w">>, <<>>, FALSE),
     Chunk(FALSE, <<"w">>, <<0>>, FALSE), Chunk(FALSE, <<>>, <<0>>, FALSE),
     Chunk(FALSE, <<>>, <<1>>, FALSE), Chunk(FALSE, <<>>, <<>>, TRUE),
     Chunk(FALSE, <<"w">>, <<>>, TRUE)}
    \union {Chunk(FALSE, piece, <<>>, FALSE) :
               piece \in {<<"w">>, <<"s">>, <<"j">>, <<"k">>, <<"o">>,
                         <<"<">>, <<">">>, <<"w", "<">>, <<">", "w">>, <<"<", ">">>}}

ASSUME PublishAssumption == OwnerAssumption
ASSUME HoldAssumption == SlotAssumption

-----------------------------------------------------------------------------
\* What is not chosen rests in one of its initial states.  The many selections come first,
\* so that TLC enumerates them once.
PartsInit ==
    /\ SelectionInit
    /\ live \in {"certificates", "hold", "publish", "weekly", "patch", "window",
                "oauth", "prompt", "codex", "reply"}
    /\ live # "window" => /\ Len(segments) = 1 /\ segments[1].cost = 1
                          /\ client = "claude" /\ phase = "current"
    /\ Init
    /\ HoldInit
    /\ live # "hold" => ~leased /\ reachable[claude]
    /\ PublishInit
    /\ MailInit
    /\ PatchInit
    /\ live # "patch" => app.archive = "original" /\ originals = {}
    /\ PromptInit
    /\ live # "prompt" => ~recalls
    /\ CodexInit
    /\ OAuthInit
    /\ ReplyInit
    /\ live # "reply" => ~toolMode /\ ~strip

PartsNext ==
    /\ UNCHANGED live
    /\ \/ /\ live = "certificates" /\ Next
          /\ UNCHANGED <<holdVars, publishVars, weeklyVars, patchVars, oauthVars,
                       windowVars, promptVars, codexVars, replyVars>>
       \/ /\ live = "hold" /\ HoldNext
          /\ UNCHANGED <<certVars, publishVars, weeklyVars, patchVars, oauthVars,
                       windowVars, promptVars, codexVars, replyVars>>
       \/ /\ live = "publish" /\ PublishNext
          /\ UNCHANGED <<certVars, holdVars, weeklyVars, patchVars, oauthVars,
                       windowVars, promptVars, codexVars, replyVars>>
       \/ /\ live = "weekly" /\ MailNext
          /\ UNCHANGED <<certVars, holdVars, publishVars, patchVars, oauthVars,
                       windowVars, promptVars, codexVars, replyVars>>
       \/ /\ live = "patch" /\ PatchNext
          /\ UNCHANGED <<certVars, holdVars, publishVars, weeklyVars, oauthVars,
                       windowVars, promptVars, codexVars, replyVars>>
       \/ /\ live = "oauth" /\ OAuthNext
          /\ UNCHANGED <<certVars, holdVars, publishVars, weeklyVars, patchVars,
                       windowVars, promptVars, codexVars, replyVars>>
       \/ /\ live = "window" /\ SelectionNext
          /\ UNCHANGED <<certVars, holdVars, publishVars, weeklyVars, patchVars,
                       oauthVars, promptVars, codexVars, replyVars>>
       \/ /\ live = "prompt" /\ PromptNext
          /\ UNCHANGED <<certVars, holdVars, publishVars, weeklyVars, patchVars,
                       oauthVars, windowVars, codexVars, replyVars>>
       \/ /\ live = "codex" /\ CodexNext
          /\ UNCHANGED <<certVars, holdVars, publishVars, weeklyVars, patchVars,
                       oauthVars, windowVars, promptVars, replyVars>>
       \/ /\ live = "reply" /\ ReplyNext
          /\ UNCHANGED <<certVars, holdVars, publishVars, weeklyVars, patchVars,
                       oauthVars, windowVars, promptVars, codexVars>>

partsVars == <<live, certVars, holdVars, publishVars, weeklyVars, patchVars, oauthVars,
               windowVars, promptVars, codexVars, replyVars>>

PartsSpec == PartsInit /\ [][PartsNext]_partsVars

\* Held turns are interchangeable.
Symmetry == Permutations({t1, t2})

=============================================================================

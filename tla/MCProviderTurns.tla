---------------------------- MODULE MCProviderTurns ----------------------------
(* ProviderTurns with the records a service may send.  Those of a run's first *)
(* answer are many; a later answer is a call or a text.                       *)
EXTENDS ProviderTurns, TLC

MCRunModels ==
  {m \in Models : /\ m.family \in {"anthropic", "chat"} => m.images
                  /\ m.family = "responses" => m.images # m.continuation}

Usage == [input |-> 1, cached |-> 0, cache_write |-> 0, output |-> 1, reasoning |-> 0]

R(type) == [type |-> type, well |-> TRUE]
BadForm == [type |-> "ping", well |-> FALSE]
Stray(r) == r @@ [stray |-> 0]
Cut == R("cut")

AnthropicRecords(d, first) ==
  {R("message_start") @@ [id |-> 1, usage |-> Usage], R("message_stop")}
  \cup {R("content_block_start") @@ 
          [index |-> d.next, block |-> b, call |-> Len(d.output)] :
          b \in IF first THEN {"text", "tool_use", "thinking"} ELSE {"tool_use"}}
  \cup {R("content_block_delta") @@ [index |-> d.next, block |-> p[1], piece |-> p[2]] :
          p \in {<<"text", "a">>, <<"tool_use", "head">>, <<"tool_use", "tail">>}}
  \cup {R("content_block_stop") @@ [index |-> d.next]}
  \cup {R("message_delta") @@ [usage |-> Usage, reason |-> r] :
          r \in IF first THEN {"stop", "calls", "length", "refused"} ELSE {"calls"}}
  \cup IF first THEN {R("ping"), R("error"), BadForm, Stray(R("message_stop")), Cut} ELSE {}

Chunk(choice, part, piece, index, call, reason, usage) ==
  R("chunk") @@ [id |-> 1, choice |-> choice, role |-> TRUE, part |-> part, piece |-> piece,
                 index |-> index, call |-> call, reason |-> reason, usage |-> usage]

ChatRecords(d, first) ==
  {Chunk("delta", "call", "head", i, i + 1, Null, Null) : i \in IF first THEN {0, 1} ELSE {0}}
  \cup {Chunk("delta", "call", "tail", i, Null, r, Null) :
          i \in IF first THEN {0, 1} ELSE {0}, r \in {Null, "calls"}}
  \cup {Chunk("none", "none", "", 0, Null, Null, Usage), R("done")}
  \cup IF ~first THEN {} ELSE
        {Chunk("delta", "text", p, 0, Null, r, Null) : p \in {"a"}, r \in {Null, "stop"}}
        \cup {Chunk("delta", "refusal", "a", 0, Null, "length", Usage),
              Chunk("noop", "none", "", 0, Null, Null, Usage),
              Chunk("none", "none", "", 0, Null, Null, Null), R("trailer"), Stray(R("done")), Cut}

Parts(total) == [prompt |-> 1, cached |-> Null, candidates |-> 1, thoughts |-> Null, total |-> total]

Candidate(part, piece, opaque, reason, parts) ==
  R("event") @@ [id |-> 1, parts |-> parts, blocked |-> FALSE, candidate |-> TRUE, part |-> part,
                 piece |-> piece, opaque |-> opaque, reason |-> reason]

GeminiRecords(d, first) ==
  {Candidate("call", "", "signed", Null, Parts(2)), Candidate("call", "", Null, "stop", Parts(2))}
  \cup IF ~first THEN {} ELSE
        {Candidate("text", "a", Null, r, Null) : r \in {Null, "stop", "length"}}
        \cup {Candidate("thought", "", Null, Null, Parts(3)), R("done"), R("ping"), BadForm, Cut}
        \cup {[Candidate("none", "", Null, Null, Null) EXCEPT !.id = 2],
              [Candidate("none", "", Null, Null, Parts(2)) EXCEPT !.candidate = FALSE],
              [Candidate("none", "", Null, Null, Null) EXCEPT !.blocked = TRUE]}

Say(pieces) == [kind |-> "message", item |-> 1, parts |-> <<[text |-> pieces, refusal |-> FALSE]>>,
                phase |-> Null]
Ask(item) == [kind |-> "call", item |-> item, call |-> item, args |-> <<"head", "tail">>]
Think(summaries, encrypted) == [kind |-> "reasoning", item |-> Null, summaries |-> summaries,
                                encrypted |-> encrypted]
Thoughts == {Think(s, e) : s, e \in BOOLEAN}

Outputs(first) ==
  {<<Think(TRUE, TRUE), Ask(2)>>}
  \cup IF ~first THEN {} ELSE
        {<<Say(<<"a">>)>>, <<Say(<<"a", "b">>)>>, <<Say(<<"a">>), Ask(2)>>, <<Ask(2), Ask(3)>>}
        \cup {<<t, Ask(2)>> : t \in Thoughts}

Numbered(type, n) == R(type) @@ [sequence |-> n, id |-> 1]

ResponsesRecords(d, first) ==
  {Numbered("created", d.sequence)}
  \cup {Numbered("completed", d.sequence) @@ [output |-> o, usage |-> Usage] : o \in Outputs(first)}
  \cup IF ~first THEN {} ELSE
        {Numbered("text_delta", d.sequence) @@
           [index |-> 0, content |-> 0, item |-> 1, refusal |-> FALSE, piece |-> p] : p \in {"a", "b"}}
        \cup {Numbered("arguments_delta", d.sequence) @@
                [index |-> 1, item |-> 2, refusal |-> FALSE, piece |-> "head"],
              Numbered("completed", d.sequence) @@ [output |-> <<>>, usage |-> Usage],
              Numbered("in_progress", d.sequence + 1), Numbered("failed", d.sequence),
              Numbered("incomplete", d.sequence), R("ping"), R("done"), BadForm, Cut}
        \cup {Numbered("item_done", d.sequence) @@ [index |-> i, value |-> v] :
                i \in {0, 1}, v \in {Say(<<"a">>), Ask(2)}}

MCRecords(m, d, op) ==
  LET first == op = 1 IN
  CASE m.family = "anthropic" -> AnthropicRecords(d, first)
    [] m.family = "chat" -> ChatRecords(d, first)
    [] m.family = "gemini" -> GeminiRecords(d, first)
    [] OTHER -> ResponsesRecords(d, first)
================================================================================

----------------------------- MODULE WireDecoders -----------------------------
(***************************************************************************)
(* The decoders of the four streaming protocols a model service may speak: *)
(* provider/{anthropic_messages,chat_completions,gemini,responses}.rs over *)
(* the records provider/sse.rs cuts out of the response body.  A decoder   *)
(* is a record; Push(d, r) is what it becomes on a record r of the wire,   *)
(* Finish(d) what the end of the body makes of it: an outcome or an error. *)
(*                                                                         *)
(* A piece of text or of a call's arguments is a number the service gave   *)
(* it; a text is the sequence of its pieces.  r.well is FALSE for a record *)
(* the decoder refuses for its form alone: JSON that is not strict, nested *)
(* too deep or too long, another model, another role.                      *)
(***************************************************************************)
EXTENDS Integers, FiniteSets, Sequences, FiniteSetsExt, SequencesExt

CONSTANTS
  MaxInput,     \* maximum_input_tokens of the model
  MaxOutput,    \* maximum_output_tokens of the model
  MaxToolCalls,     \* MAX_TOOL_COUNT
  MaxPieces,    \* pieces in MAX_ACCUMULATED_TEXT_BYTES and MAX_TOOL_ARGUMENT_BYTES
  Null          \* Rust's None

ASSUME DecoderAssumption ==
  MaxInput \in Nat /\ MaxOutput \in Nat /\ MaxToolCalls \in Nat /\ MaxPieces \in Nat

\* The pieces of a JSON object that has arrived whole.
Complete(args) == args = <<"head", "tail">>

Reserved == {"type", "well"}

\* The structs of a family's events: the fields of each, and no other.
HasForm(fields, r) ==
  r.well /\ (r.type \in DOMAIN fields => DOMAIN r \ Reserved = fields[r.type])

Fail(d, kind) == [d EXCEPT !.error = kind, !.events = <<>>]

Emit(d, slot, piece) == [d EXCEPT !.events = Append(@, [slot |-> slot, piece |-> piece])]

\* append_bounded.
Fits(pieces) == Len(pieces) < MaxPieces

Calls(output) == SelectSeq(output, LAMBDA i : i.kind = "call")

Message(item, text, refusal, phase) ==
  [kind |-> "message", item |-> item, text |-> text, refusal |-> refusal, phase |-> phase]

Call(item, call, args, opaque) ==
  [kind |-> "call", item |-> item, call |-> call, args |-> args, opaque |-> opaque]

PhaseOf(hasCalls) == IF hasCalls THEN "commentary" ELSE "final_answer"

\* The stop reason that agrees with the output.
ReasonOf(hasCalls) == IF hasCalls THEN "calls" ELSE "stop"

\* A usage: input, cached and cache_write of it, output, reasoning of it.
Total(u) == u.input + u.output

\* What a text block, a choice or a candidate becomes in the outcome.
TextItem(id, d, hasCalls) ==
  IF d.text = <<>> THEN <<>>
  ELSE <<Message(id, d.text, d.refusal = "yes", PhaseOf(hasCalls))>>

--------------------------------------------------------------------------------
(* provider/anthropic_messages.rs: blocks arrive one after another. *)

AnthropicFields ==
  [ping |-> {}, message_start |-> {"id", "usage"},
   content_block_start |-> {"index", "block", "call"},
   content_block_delta |-> {"index", "block", "piece"}, content_block_stop |-> {"index"},
   message_delta |-> {"usage", "reason"}, message_stop |-> {}]

AnthropicNew ==
  [family |-> "anthropic", error |-> "none", events |-> <<>>, cut |-> FALSE,
   state |-> "message_start", id |-> Null, usage |-> Null, stop |-> Null,
   block |-> Null, next |-> 0, output |-> <<>>]

\* validate_usage_metadata and the sums of message_start: the parts that the
\* service reports apart from each other.
StartUsageIsValid(u) ==
  u.input + u.cached + u.cache_write <= MaxInput /\ u.output <= MaxOutput

\* validate_delta_usage: a later report is no lower in any part.
DeltaUsageIsValid(before, u) ==
  /\ u.input >= before.input /\ u.cached >= before.cached
  /\ u.cache_write >= before.cache_write
  /\ u.input + u.cached + u.cache_write \in 1..MaxInput
  /\ u.output \in 1..MaxOutput

MessageStart(d, r) ==
  IF d.state # "message_start" \/ ~StartUsageIsValid(r.usage) THEN Fail(d, "malformed")
  ELSE [d EXCEPT !.state = "content", !.id = r.id, !.usage = r.usage]

ContentBlockStart(d, r) ==
  IF d.state # "content" \/ d.block # Null \/ r.index # d.next \/ r.index >= 2 * MaxToolCalls
    THEN Fail(d, "malformed")
    ELSE [d EXCEPT !.block = [kind |-> r.block, index |-> r.index, call |-> r.call,
                              pieces |-> <<>>]]

ContentBlockDelta(d, r) ==
  IF d.state # "content" \/ d.block = Null THEN Fail(d, "malformed")
  ELSE IF r.index # d.block.index \/ r.block # d.block.kind THEN Fail(d, "malformed")
  ELSE IF ~Fits(d.block.pieces) THEN Fail(d, "limit")
  ELSE LET grown == [d EXCEPT !.block.pieces = Append(@, r.piece)]
       IN IF r.block = "text" THEN Emit(grown, <<r.index, 0>>, r.piece) ELSE grown

\* The item a finished block adds to the output.
BlockItem(d) ==
  CASE d.block.kind = "text" ->
         IF d.block.pieces = <<>> THEN <<>>
         ELSE <<Message(<<d.id, d.block.index>>, d.block.pieces, FALSE, Null)>>
    [] d.block.kind = "tool_use" ->
         <<Call(Null, d.block.call,
                IF d.block.pieces = <<>> THEN <<"head", "tail">> ELSE d.block.pieces, Null)>>
    [] OTHER -> <<>>

ContentBlockStop(d, r) ==
  IF d.state # "content" \/ d.block = Null THEN Fail(d, "malformed")
  ELSE LET items == BlockItem(d) IN
       IF \/ r.index # d.block.index
          \/ d.block.kind = "tool_use"
             /\ (~Complete(items[1].args) \/ Len(Calls(d.output)) >= MaxToolCalls)
         THEN Fail(d, "malformed")
         ELSE [d EXCEPT !.block = Null, !.next = @ + 1, !.output = @ \o items]

MessageDelta(d, r) ==
  IF d.state # "content" \/ d.block # Null \/ ~DeltaUsageIsValid(d.usage, r.usage)
    THEN Fail(d, "malformed")
    ELSE [d EXCEPT !.state = "message_delta", !.usage = r.usage, !.stop = r.reason]

MessageStop(d) ==
  IF d.state # "message_delta" THEN Fail(d, "malformed")
  ELSE [d EXCEPT !.state = "message_stop"]

AnthropicPush(d, r) ==
  IF ~HasForm(AnthropicFields, r) THEN Fail(d, "malformed")
  ELSE IF r.type = "ping" THEN d
  ELSE IF r.type = "message_start" THEN MessageStart(d, r)
  ELSE IF r.type = "content_block_start" THEN ContentBlockStart(d, r)
  ELSE IF r.type = "content_block_delta" THEN ContentBlockDelta(d, r)
  ELSE IF r.type = "content_block_stop" THEN ContentBlockStop(d, r)
  ELSE IF r.type = "message_delta" THEN MessageDelta(d, r)
  ELSE IF r.type = "message_stop" THEN MessageStop(d)
  ELSE IF r.type = "error" THEN Fail(d, "failed")
  ELSE Fail(d, "malformed")

AnthropicFinish(d) ==
  LET calls == Calls(d.output)
      usage == [input |-> d.usage.input + d.usage.cached + d.usage.cache_write,
                cached |-> d.usage.cached, cache_write |-> d.usage.cache_write,
                output |-> d.usage.output, reasoning |-> 0]
      Phased(i) == IF i.kind = "message" THEN [i EXCEPT !.phase = PhaseOf(calls # <<>>)] ELSE i
  IN IF d.state # "message_stop" \/ d.block # Null THEN [error |-> "incomplete"]
     ELSE IF d.stop = "length" THEN [error |-> "incomplete"]
     ELSE IF d.stop = "refused" THEN [error |-> "failed"]
     ELSE IF d.stop # ReasonOf(calls # <<>>) \/ d.output = <<>> THEN [error |-> "malformed"]
     ELSE [error |-> "none", id |-> d.id, usage |-> usage,
           output |-> [i \in DOMAIN d.output |-> Phased(d.output[i])]]

--------------------------------------------------------------------------------
(* provider/chat_completions.rs: chunks of one choice, then a usage, then   *)
(* the marker [DONE].  The id and the name of a call come together.         *)

ChatFields ==
  [chunk |-> {"id", "choice", "role", "part", "piece", "index", "call", "reason", "usage"},
   done |-> {}, trailer |-> {}]

ChatNew ==
  [family |-> "chat", error |-> "none", events |-> <<>>, cut |-> FALSE,
   id |-> Null, role |-> FALSE, text |-> <<>>, refusal |-> "unset", calls |-> <<>>,
   reason |-> Null, usage |-> Null, done |-> FALSE, trailer |-> FALSE]

\* validate_usage.
ChatUsageIsValid(u) ==
  /\ u.input \in 1..MaxInput /\ u.output \in 1..MaxOutput
  /\ u.cached + u.cache_write <= u.input
  /\ u.reasoning <= u.output

\* usage_refines.
UsageRefines(before, u) ==
  before = Null \/ /\ before.input = u.input
                   /\ before.output <= u.output /\ before.cached <= u.cached
                   /\ before.cache_write <= u.cache_write /\ before.reasoning <= u.reasoning

\* validate_chunk_identity: one id for the whole response.
SameIdentity(d, r) == d.id \in {Null, r.id}

RecordText(d, r) ==
  LET refusal == IF r.part = "refusal" THEN "yes" ELSE "no" IN
  IF d.refusal \notin {"unset", refusal} THEN Fail(d, "malformed")
  ELSE IF ~Fits(d.text) THEN Fail(d, "limit")
  ELSE Emit([d EXCEPT !.refusal = refusal, !.text = Append(@, r.piece)], <<0, 0>>, r.piece)

\* record_tool_call_delta; a call is made by its first delta.
RecordCall(d, r) ==
  LET known == r.index \in DOMAIN d.calls
      before == IF known THEN d.calls[r.index] ELSE [call |-> Null, args |-> <<>>]
      after == [call |-> IF r.call = Null THEN before.call ELSE r.call,
                args |-> Append(before.args, r.piece)]
  IN IF r.index >= MaxToolCalls \/ (r.call # Null /\ before.call \notin {Null, r.call})
       THEN Fail(d, "malformed")
     ELSE IF ~Fits(before.args) THEN Fail(d, "limit")
     ELSE [d EXCEPT !.calls = [i \in DOMAIN d.calls \cup {r.index} |->
                                IF i = r.index THEN after ELSE d.calls[i]]]

\* process_delta and the finish reason of the choice.
ProcessChoice(d, r) ==
  LET roled == [d EXCEPT !.role = @ \/ r.role]
      parted == CASE r.part \in {"text", "refusal"} -> RecordText(roled, r)
                  [] r.part = "call" -> RecordCall(roled, r)
                  [] OTHER -> roled
  IN IF parted.error = "none" /\ r.reason # Null
       THEN [parted EXCEPT !.reason = r.reason] ELSE parted

RecordUsage(d, r) ==
  IF d.error # "none" \/ r.usage = Null THEN d
  ELSE IF ~ChatUsageIsValid(r.usage) \/ ~UsageRefines(d.usage, r.usage)
    THEN Fail(d, "malformed")
    ELSE [d EXCEPT !.usage = r.usage]

\* After [DONE]: more markers, and one empty chunk or cost trailer.
ChatAfterDone(d, r) ==
  IF r.type = "done" THEN d
  ELSE IF d.trailer THEN Fail(d, "malformed")
  ELSE IF r.type = "trailer" THEN [d EXCEPT !.trailer = TRUE]
  ELSE IF r.type = "chunk" /\ SameIdentity(d, r) /\ r.choice = "none" /\ r.usage = Null THEN
         [d EXCEPT !.trailer = TRUE]
  ELSE Fail(d, "malformed")

ChatDone(d) ==
  IF d.reason = Null \/ d.usage = Null THEN Fail(d, "incomplete")
  ELSE [d EXCEPT !.done = TRUE]

\* terminal_usage_choice: after the finish reason, a choice that says nothing
\* new beside the first usage.
TerminalUsageChoice(d, r) ==
  r.choice = "noop" /\ d.reason # Null /\ d.usage = Null /\ r.usage # Null

ChatChunk(d, r) ==
  LET seen == [d EXCEPT !.id = r.id] IN
  IF ~SameIdentity(d, r) THEN Fail(d, "malformed")
  ELSE IF r.choice = "none"
    THEN IF r.usage = Null \/ d.reason = Null THEN Fail(d, "malformed")
         ELSE RecordUsage(seen, r)
  ELSE IF TerminalUsageChoice(d, r) THEN RecordUsage(seen, r)
  ELSE IF d.reason # Null THEN Fail(d, "malformed")
  ELSE RecordUsage(ProcessChoice(seen, r), r)

ChatPush(d, r) ==
  IF ~HasForm(ChatFields, r) THEN Fail(d, "malformed")
  ELSE IF d.done THEN ChatAfterDone(d, r)
  ELSE IF r.type = "done" THEN ChatDone(d)
  ELSE IF r.type = "chunk" THEN ChatChunk(d, r)
  ELSE Fail(d, "malformed")

ChatCallsAreWhole(calls) ==
  \A i \in DOMAIN calls : /\ calls[i].call # Null /\ i < Cardinality(DOMAIN calls)
                          /\ Complete(calls[i].args)

\* A call without its id or its name ends the run as one that is cut does.
ChatFinish(d) ==
  LET n == Cardinality(DOMAIN d.calls)
      calls == [i \in 1..n |-> Call(Null, d.calls[i - 1].call, d.calls[i - 1].args, Null)]
  IN IF ~d.done THEN [error |-> "incomplete"]
     ELSE IF d.reason = "length" THEN [error |-> "incomplete"]
     ELSE IF d.reason = "refused" THEN [error |-> "failed"]
     ELSE IF \/ d.reason # ReasonOf(n # 0) \/ ~d.role \/ (d.text = <<>> /\ n = 0)
             \/ ~ChatCallsAreWhole(d.calls) THEN [error |-> "malformed"]
     ELSE [error |-> "none", id |-> d.id, usage |-> d.usage,
           output |-> TextItem(d.id, d, n # 0) \o calls]

--------------------------------------------------------------------------------
(* provider/gemini.rs: candidates whose parts are whole; the body may end   *)
(* without [DONE].                                                          *)

GeminiFields ==
  [event |-> {"id", "parts", "blocked", "candidate", "part", "piece", "opaque", "reason"},
   done |-> {}, ping |-> {}]

GeminiNew ==
  [family |-> "gemini", error |-> "none", events |-> <<>>, cut |-> FALSE,
   id |-> Null, text |-> <<>>, refusal |-> "no", calls |-> <<>>, reason |-> Null,
   parts |-> [c \in {"prompt", "cached", "candidates", "thoughts", "total"} |-> Null],
   usage |-> Null, closed |-> FALSE]

OrZero(n) == IF n = Null THEN 0 ELSE n

\* GeminiUsageAccumulator::merge, merge_stable and merge_cumulative.
Merge(parts, u) == [c \in DOMAIN parts |-> IF u[c] = Null THEN parts[c] ELSE u[c]]

MergeIsValid(parts, u) ==
  /\ \A c \in {"prompt", "cached"} : parts[c] = Null \/ u[c] \in {Null, parts[c]}
  /\ \A c \in {"candidates", "thoughts", "total"} :
       parts[c] = Null \/ u[c] = Null \/ u[c] >= parts[c]
  /\ LET m == Merge(parts, u)
     IN m["cached"] = Null \/ m["prompt"] = Null \/ m["cached"] <= m["prompt"]

\* The usage of the merged parts, once the three totals are known.
GeminiUsage(m) ==
  [input |-> m["prompt"], cached |-> OrZero(m["cached"]), cache_write |-> 0,
   output |-> m["candidates"] + OrZero(m["thoughts"]), reasoning |-> OrZero(m["thoughts"])]

\* record_usage.
GeminiRecordUsage(d, u) ==
  LET m == Merge(d.parts, u)
      merged == [d EXCEPT !.parts = m]
  IN IF ~MergeIsValid(d.parts, u) THEN Fail(d, "malformed")
     ELSE IF Null \in {m["prompt"], m["candidates"], m["total"]} THEN merged
     ELSE IF \/ m["total"] # Total(GeminiUsage(m)) \/ m["prompt"] > MaxInput
             \/ GeminiUsage(m).output > MaxOutput
            THEN Fail(d, "malformed")
            ELSE [merged EXCEPT !.usage = GeminiUsage(m)]

\* process_part: a text, a thought, or a call with its signature.  The id of
\* a call is made of the response's id and its index.
ProcessPart(d, r) ==
  CASE r.part = "text" ->
         IF ~Fits(d.text) THEN Fail(d, "limit")
         ELSE Emit([d EXCEPT !.text = Append(@, r.piece)], <<0, 0>>, r.piece)
    [] r.part = "thought" -> d
    [] r.part = "call" ->
         IF Len(d.calls) >= MaxToolCalls THEN Fail(d, "limit")
         ELSE IF d.id = Null THEN Fail(d, "malformed")
         ELSE [d EXCEPT !.calls = Append(@, Call(Null, <<d.id, Len(d.calls)>>,
                                                 <<"head", "tail">>, r.opaque))]
    [] OTHER -> Fail(d, "malformed")

ProcessCandidate(d, r) ==
  LET ended == IF r.reason = Null THEN d ELSE [d EXCEPT !.reason = r.reason] IN
  IF d.reason # Null THEN Fail(d, "malformed")
  ELSE IF r.part = "none" THEN ended
  ELSE ProcessPart(ended, r)

GeminiEvent(d, r) ==
  LET seen == IF r.id = Null THEN d ELSE [d EXCEPT !.id = r.id]
      used == IF r.parts = Null THEN seen ELSE GeminiRecordUsage(seen, r.parts)
  IN IF r.id # Null /\ d.id \notin {Null, r.id} THEN Fail(d, "malformed")
     ELSE IF r.blocked THEN Fail(d, "failed")
     ELSE IF used.error # "none" \/ ~r.candidate THEN used
     ELSE ProcessCandidate(used, r)

GeminiPush(d, r) ==
  IF ~HasForm(GeminiFields, r) \/ d.closed THEN Fail(d, "malformed")
  ELSE IF r.type = "done" /\ (d.reason = Null \/ d.usage = Null) THEN Fail(d, "incomplete")
  ELSE IF r.type = "ping" /\ (d.reason = Null \/ d.usage = Null) THEN Fail(d, "malformed")
  ELSE IF r.type \in {"done", "ping"} THEN [d EXCEPT !.closed = TRUE]
  ELSE GeminiEvent(d, r)

GeminiFinish(d) ==
  IF Null \in {d.id, d.usage, d.reason} THEN [error |-> "incomplete"]
  ELSE IF d.reason = "length" THEN [error |-> "incomplete"]
  ELSE IF d.reason = "refused" THEN [error |-> "failed"]
  ELSE IF d.reason # "stop" \/ (d.text = <<>> /\ d.calls = <<>>) THEN [error |-> "malformed"]
  ELSE [error |-> "none", id |-> d.id, usage |-> d.usage,
        output |-> TextItem(d.id, d, d.calls # <<>>) \o d.calls]

--------------------------------------------------------------------------------
(* provider/responses.rs: numbered events; the completed event repeats the  *)
(* whole output, and what was streamed must agree with it.  The native mode *)
(* (responses/native.rs) also collects items as they are done, and takes    *)
(* them when the completed event repeats none.                              *)

\* Only the deltas refuse a field they do not know.
ResponsesFields ==
  [text_delta |-> {"sequence", "id", "index", "content", "item", "refusal", "piece"},
   arguments_delta |-> {"sequence", "id", "index", "item", "refusal", "piece"}]

ResponsesNew(family) ==
  [family |-> family, error |-> "none", events |-> <<>>, cut |-> FALSE,
   state |-> "created", id |-> Null, sequence |-> 0, texts |-> <<>>, arguments |-> <<>>,
   items |-> <<>>, terminal |-> Null]

IsNative(d) == d.family = "native"

Put(f, k, v) == [x \in DOMAIN f \cup {k} |-> IF x = k THEN v ELSE f[x]]

\* validate_usage: the input is not bounded by the model in the native mode.
ResponsesUsageIsValid(d, u) ==
  /\ IsNative(d) \/ u.input <= MaxInput
  /\ u.output <= MaxOutput
  /\ u.cached <= u.input /\ u.cache_write <= u.input /\ u.reasoning <= u.output

\* require_open_item.
RequireOpenItem(d, r) == r.index \notin DOMAIN d.items

\* The deltas of one slot come from one item, with one kind of text.
Accumulate(map, slot, r) ==
  LET before == IF slot \in DOMAIN map THEN map[slot]
                ELSE [item |-> r.item, pieces |-> <<>>, refusal |-> r.refusal]
  IN Put(map, slot, [before EXCEPT !.pieces = Append(@, r.piece)])

SameSource(map, slot, r) ==
  slot \in DOMAIN map => map[slot].item = r.item /\ map[slot].refusal = r.refusal

HasRoom(map, slot) == slot \in DOMAIN map => Fits(map[slot].pieces)

\* record_text_delta.
RecordTextDelta(d, r) ==
  LET slot == <<r.index, r.content>> IN
  IF ~RequireOpenItem(d, r) \/ ~SameSource(d.texts, slot, r) THEN Fail(d, "malformed")
  ELSE IF ~HasRoom(d.texts, slot) THEN Fail(d, "limit")
  ELSE Emit([d EXCEPT !.texts = Accumulate(@, slot, r)], slot, r.piece)

\* record_argument_delta.
RecordArgumentDelta(d, r) ==
  IF ~RequireOpenItem(d, r) \/ ~SameSource(d.arguments, r.index, r) THEN Fail(d, "malformed")
  ELSE IF ~HasRoom(d.arguments, r.index) THEN Fail(d, "limit")
  ELSE [d EXCEPT !.arguments = Accumulate(@, r.index, r)]

\* NativeCompletedItems::push.
OutputItemDone(d, r) ==
  IF ~IsNative(d) THEN d
  ELSE IF r.index \in DOMAIN d.items THEN Fail(d, "malformed")
  ELSE [d EXCEPT !.items = Put(@, r.index, r.value)]

\* Mutant: streamed text that differs from the completed text is kept.
TerminalTextAgrees_Any(d, slot, item, part) == TRUE

\* validate_terminal_text.
TerminalTextAgrees(d, slot, item, part) ==
  slot \in DOMAIN d.texts =>
    d.texts[slot] = [item |-> item, pieces |-> part.text, refusal |-> part.refusal]

\* validate_terminal_arguments.
TerminalArgumentsAgree(d, index, v) ==
  index \in DOMAIN d.arguments =>
    d.arguments[index].item = v.item /\ d.arguments[index].pieces = v.args

\* One item of parse_output, its ids apart.  A message has one or two parts.
ItemIsValid(d, index, v) ==
  CASE v.kind = "message" ->
         /\ v.parts # <<>>
         /\ \A i, j \in DOMAIN v.parts :
              v.parts[i].text # <<>> => v.parts[i].refusal = v.parts[j].refusal \/ j < i
         /\ \A i \in DOMAIN v.parts : TerminalTextAgrees(d, <<index, i - 1>>, v.item, v.parts[i])
    [] v.kind = "call" -> Complete(v.args) /\ TerminalArgumentsAgree(d, index, v)
    [] v.kind = "reasoning" -> TRUE
    [] OTHER -> FALSE

\* Ids of items, and of calls, are not repeated in one response.
IdsAreUnique(values) ==
  \A i, j \in DOMAIN values :
    i # j => /\ values[i].item = Null \/ values[i].item # values[j].item
             /\ values[i].kind = "call" /\ values[j].kind = "call" =>
                  values[i].call # values[j].call

\* The slots that the items of parse_output take out of the deltas.
TextSlots(values) ==
  UNION {{<<i - 1, j - 1>> : j \in DOMAIN values[i].parts} :
           i \in {x \in DOMAIN values : values[x].kind = "message"}}

CallSlots(values) == {i - 1 : i \in {x \in DOMAIN values : values[x].kind = "call"}}

\* parse_output: every delta belongs to an item of the output.
OutputIsValid(d, values) ==
  /\ IdsAreUnique(values)
  /\ \A i \in DOMAIN values : ItemIsValid(d, i - 1, values[i])
  /\ Cardinality(CallSlots(values)) <= MaxToolCalls
  /\ DOMAIN d.texts \subseteq TextSlots(values)
  /\ DOMAIN d.arguments \subseteq CallSlots(values)

ParsedItem(v) ==
  CASE v.kind = "message" ->
         Message(v.item, FlattenSeq([i \in DOMAIN v.parts |-> v.parts[i].text]),
                 Last(v.parts).refusal, v.phase)
    [] v.kind = "call" -> Call(v.item, v.call, v.args, Null)
    [] OTHER -> v

Parsed(values) == [i \in DOMAIN values |-> ParsedItem(values[i])]

\* NativeCompletedItems::finish: the items without a gap, or none.
NativeItems(d) == [i \in 1..Cardinality(DOMAIN d.items) |-> d.items[i - 1]]

ItemsHaveNoGap(d) == DOMAIN d.items = 0..(Cardinality(DOMAIN d.items) - 1)

\* parse_completed.  After the items of the native mode have been parsed
\* nothing of the deltas is left for the output the event repeats.
ParseCompleted(d, r) ==
  LET values == IF d.items = <<>> THEN r.output ELSE NativeItems(d)
      parsed == [d EXCEPT !.texts = <<>>, !.arguments = <<>>]
  IN /\ r.id = d.id /\ (r.output # <<>> \/ d.items # <<>>)
     /\ ResponsesUsageIsValid(d, r.usage)
     /\ ItemsHaveNoGap(d) /\ OutputIsValid(d, values)
     /\ d.items # <<>> /\ r.output # <<>> =>
          OutputIsValid(parsed, r.output) /\ Parsed(r.output) = Parsed(values)

Completed(d, r) ==
  IF ~ParseCompleted(d, r) THEN Fail(d, "malformed")
  ELSE [d EXCEPT !.state = "terminal", !.items = <<>>, !.texts = <<>>, !.arguments = <<>>,
                 !.terminal = [error |-> "none", id |-> r.id, usage |-> r.usage,
                   output |-> Parsed(IF d.items = <<>> THEN r.output ELSE NativeItems(d))]]

Ended(d, kind) == [d EXCEPT !.state = "terminal", !.terminal = [error |-> kind]]

\* process_record from the number of the event on.
ResponsesEvent(d, r) ==
  IF r.type = "created" THEN
         IF d.state # "created" THEN Fail(d, "malformed")
         ELSE [d EXCEPT !.state = "active", !.id = r.id]
  ELSE IF d.state # "active" THEN Fail(d, "malformed")
  ELSE IF r.type \in {"queued", "in_progress", "failed", "incomplete"} /\ r.id # d.id THEN
         Fail(d, "malformed")
  ELSE IF r.type \in {"failed", "error"} THEN Ended(d, "failed")
  ELSE IF r.type = "incomplete" THEN Ended(d, "incomplete")
  ELSE IF r.type = "text_delta" THEN RecordTextDelta(d, r)
  ELSE IF r.type = "arguments_delta" THEN RecordArgumentDelta(d, r)
  ELSE IF r.type = "completed" THEN Completed(d, r)
  ELSE IF r.type = "item_done" THEN OutputItemDone(d, r)
  ELSE IF r.type \in {"queued", "in_progress", "progress"} THEN d
  ELSE Fail(d, "malformed")

ResponsesPush(d, r) ==
  IF ~HasForm(ResponsesFields, r) THEN Fail(d, "malformed")
  ELSE IF r.type = "ping" THEN d
  ELSE IF r.type = "done" THEN
         IF d.state # "terminal" THEN Fail(d, "malformed") ELSE [d EXCEPT !.state = "done"]
  ELSE IF d.state \in {"terminal", "done"} \/ r.sequence # d.sequence THEN Fail(d, "malformed")
  ELSE ResponsesEvent([d EXCEPT !.sequence = @ + 1], r)

ResponsesFinish(d) ==
  IF d.state \in {"terminal", "done"} THEN d.terminal ELSE [error |-> "incomplete"]

--------------------------------------------------------------------------------
(* The decoder of a family. *)

New(family) ==
  CASE family = "anthropic" -> AnthropicNew
    [] family = "chat" -> ChatNew
    [] family = "gemini" -> GeminiNew
    [] OTHER -> ResponsesNew(family)

\* SseDecoder::push hands over the records that a blank line has ended; what
\* follows the last one is cut off when the body ends there.
Push(d, r) ==
  LET fresh == [d EXCEPT !.events = <<>>] IN
  IF r.type = "cut" THEN [fresh EXCEPT !.cut = TRUE]
  ELSE IF d.family = "anthropic" THEN AnthropicPush(fresh, r)
  ELSE IF d.family = "chat" THEN ChatPush(fresh, r)
  ELSE IF d.family = "gemini" THEN GeminiPush(fresh, r)
  ELSE ResponsesPush(fresh, r)

Finish(d) ==
  IF d.error # "none" THEN [error |-> d.error]
  ELSE IF d.cut THEN [error |-> "incomplete"]
  ELSE IF d.family = "anthropic" THEN AnthropicFinish(d)
  ELSE IF d.family = "chat" THEN ChatFinish(d)
  ELSE IF d.family = "gemini" THEN GeminiFinish(d)
  ELSE ResponsesFinish(d)
================================================================================

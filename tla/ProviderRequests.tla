--------------------------- MODULE ProviderRequests ---------------------------
(***************************************************************************)
(* What a provider request is made of: the items run_supervisor.rs builds  *)
(* out of a transcript (build_provider_input), the checks of               *)
(* provider/request.rs on them (validate_input), and the messages of the   *)
(* four protocols (chat_messages, anthropic_messages, gemini_contents, the *)
(* items of the Responses protocol).                                       *)
(*                                                                         *)
(* A model is a record: its protocol and the capabilities a request is     *)
(* checked against.  Text is not kept; an item is known by its kind, its   *)
(* role and the call it is about.                                          *)
(***************************************************************************)
EXTENDS WireDecoders

\* models.rs: what the rows of the table differ in, by the protocol that
\* reaches the model.
Capable(family, images, continuation) ==
  [family |-> family, images |-> images, continuation |-> continuation]

AnthropicModels == {Capable("anthropic", i, FALSE) : i \in BOOLEAN}
ChatModels == {Capable("chat", i, FALSE) : i \in BOOLEAN}
GeminiModels == {Capable("gemini", TRUE, TRUE)}
ResponsesModels ==
  {Capable("responses", TRUE, TRUE), Capable("responses", FALSE, TRUE),
   Capable("responses", TRUE, FALSE)}
NativeModels == {Capable("native", TRUE, TRUE)}

Models == AnthropicModels \cup ChatModels \cup GeminiModels \cup ResponsesModels \cup NativeModels

Developer == [kind |-> "message", role |-> "developer"]
MessageFrom(role) == [kind |-> "message", role |-> role]

--------------------------------------------------------------------------------
(* build_provider_input. *)

\* The items before the entries: core instruction, project, checkpoint, skills.
Preamble(tools, others) == [i \in 1..(others + IF tools THEN 1 ELSE 0) |-> Developer]

Opaque(continuation, call) ==
  LET S == {p \in continuation.opaque : p[1] = call}
  IN IF S = {} THEN Null ELSE (CHOOSE p \in S : TRUE)[2]

\* normalisation: a call of the wire is a call of the transcript under a
\* name made from the ledger's id for it (deterministic_provider_call_id).
EntryItem(entry, continuation) ==
  CASE entry.kind = "user" ->
         IF entry.image THEN [kind |-> "image"] ELSE MessageFrom("user")
    [] entry.kind = "assistant" -> MessageFrom("assistant")
    [] entry.kind = "call" -> [kind |-> "call", call |-> entry.call,
                               opaque |-> Opaque(continuation, entry.call)]
    [] entry.kind = "result" -> [kind |-> "output", call |-> entry.call]

\* The first call of the operation whose reasoning is carried on.
ReasoningPlace(entries, continuation) ==
  IF continuation.reasoning = <<>> THEN {}
  ELSE LET S == {i \in DOMAIN entries : /\ entries[i].kind = "call"
                                        /\ entries[i].call[1] = continuation.operation}
       IN IF S = {} THEN {} ELSE {Min(S)}

\* Items of a read image follow the result that carries it (tool_image_message).
ItemsOf(entries, continuation) ==
  FlattenSeq([i \in DOMAIN entries |->
    (IF i \in ReasoningPlace(entries, continuation) THEN continuation.reasoning ELSE <<>>)
      \o <<EntryItem(entries[i], continuation)>>
      \o (IF entries[i].kind = "result" /\ entries[i].image THEN <<[kind |-> "image"]>> ELSE <<>>)])

\* Every part of the continuation has found its call.
ContinuationIsPlaced(entries, continuation) ==
  /\ continuation.reasoning # <<>> => ReasoningPlace(entries, continuation) # {}
  /\ {p[1] : p \in continuation.opaque} \subseteq
       {entries[i].call : i \in {j \in DOMAIN entries : entries[j].kind = "call"}}

BuildProviderInput(entries, continuation, tools, others) ==
  IF ~ContinuationIsPlaced(entries, continuation) THEN Null
  ELSE Preamble(tools, others) \o ItemsOf(entries, continuation)

--------------------------------------------------------------------------------
(* validate_input. *)

ItemIsSendable(model, item) ==
  CASE item.kind = "image" -> model.images
    [] item.kind = "call" -> item.opaque # Null => model.family = "gemini" /\ model.continuation
    [] item.kind = "reasoning" ->
         /\ model.family \in {"responses", "native"}
         /\ item.summaries \/ item.encrypted
         /\ item.encrypted => model.continuation
    [] OTHER -> TRUE

InputIsValid(model, input) ==
  input # <<>> /\ \A i \in DOMAIN input : ItemIsSendable(model, input[i])

--------------------------------------------------------------------------------
(* The messages of a request.  A message is its role, and the calls and the *)
(* results it holds.                                                        *)

Wire(role, calls, results, text) ==
  [role |-> role, calls |-> calls, results |-> results, text |-> text]

Grown(messages, field, call) ==
  [messages EXCEPT ![Len(messages)][field] = Append(@, call)]

\* chat_messages: neighbouring calls make one message, every result its own.
ChatItem(messages, item) ==
  CASE item.kind = "call" ->
         IF messages # <<>> /\ Last(messages).calls # <<>>
           THEN Grown(messages, "calls", item.call)
           ELSE Append(messages, Wire("assistant", <<item.call>>, <<>>, FALSE))
    [] item.kind = "output" -> Append(messages, Wire("tool", <<>>, <<item.call>>, FALSE))
    [] item.kind = "image" -> Append(messages, Wire("user", <<>>, <<>>, TRUE))
    [] OTHER -> Append(messages, Wire(item.role, <<>>, <<>>, TRUE))

ChatMessages(input) == FoldLeft(ChatItem, <<>>, input)

\* anthropic_messages and gemini_contents: calls join the text before them,
\* neighbouring results make one message, and no instruction comes later.
TurnItem(messages, item) ==
  CASE item.kind = "call" ->
         IF messages # <<>> /\ Last(messages).role = "assistant"
           THEN Grown(messages, "calls", item.call)
           ELSE Append(messages, Wire("assistant", <<item.call>>, <<>>, FALSE))
    [] item.kind = "output" ->
         IF messages # <<>> /\ Last(messages).results # <<>>
           THEN Grown(messages, "results", item.call)
           ELSE Append(messages, Wire("user", <<>>, <<item.call>>, FALSE))
    [] item.kind = "message" /\ item.role = "developer" -> messages
    [] item.kind = "image" -> Append(messages, Wire("user", <<>>, <<>>, TRUE))
    [] OTHER -> Append(messages, Wire(item.role, <<>>, <<>>, TRUE))

TurnMessages(input) == FoldLeft(TurnItem, <<>>, input)

\* An instruction after the first message is refused by both.
InstructionsComeFirst(input) ==
  \A i, j \in DOMAIN input :
    i < j /\ input[j] = Developer => input[i] = Developer

\* WireInputItem::from: the items themselves, one by one.
ResponsesItem(item) ==
  CASE item.kind = "call" -> Wire("assistant", <<item.call>>, <<>>, FALSE)
    [] item.kind = "output" -> Wire("tool", <<>>, <<item.call>>, FALSE)
    [] item.kind = "reasoning" -> Wire("reasoning", <<>>, <<>>, TRUE)
    [] item.kind = "image" -> Wire("user", <<>>, <<>>, TRUE)
    [] OTHER -> Wire(item.role, <<>>, <<>>, TRUE)

ResponsesItems(input) == [i \in DOMAIN input |-> ResponsesItem(input[i])]

\* append_gemini_function_calls and the results of gemini_contents: a call is
\* named once, and a result names a call that came before it.
GeminiNamesAreKnown(input) ==
  \A j \in DOMAIN input :
    LET before == {input[i] : i \in {x \in 1..(j - 1) : input[x].kind = "call"}}
    IN CASE input[j].kind = "call" -> \A c \in before : c.call # input[j].call
         [] input[j].kind = "output" -> \E c \in before : c.call = input[j].call
         [] OTHER -> TRUE

\* RequestEncoder::encode_body: the messages, or Null for InvalidRequest.
EncodeBody(model, input) ==
  CASE model.family = "chat" -> ChatMessages(input)
    [] model.family \in {"anthropic", "gemini"} ->
         IF \/ ~InstructionsComeFirst(input) \/ TurnMessages(input) = <<>>
            \/ model.family = "gemini" /\ ~GeminiNamesAreKnown(input)
           THEN Null ELSE TurnMessages(input)
    [] OTHER -> ResponsesItems(input)

\* OpenCodeResponseRequest::with_prepared_tools.
Encoded(model, input) ==
  IF input = Null THEN Null
  ELSE IF ~InputIsValid(model, input) THEN Null
  ELSE EncodeBody(model, input)

--------------------------------------------------------------------------------
(* normalize_provider_turn: an outcome becomes a final message, or the      *)
(* commentary, the calls and the reasoning of a tool turn.                  *)

Messages(output) == SelectSeq(output, LAMBDA i : i.kind = "message")
Reasoning(output) == SelectSeq(output, LAMBDA i : i.kind = "reasoning")

\* completed_assistant.
FinalIsValid(output) ==
  LET finals == SelectSeq(Messages(output), LAMBDA m : m.phase # "commentary")
  IN Len(finals) = 1 /\ finals[1].text # <<>>

\* parse_provider_calls: no id is repeated.
CallsAreValid(calls) ==
  calls # <<>> /\ \A i, j \in DOMAIN calls : calls[i].call = calls[j].call => i = j

\* normalize_tool_provider_turn: one commentary at most, before the calls.
ToolTurnIsValid(output) ==
  LET first == Min({i \in DOMAIN output : output[i].kind = "call"}) IN
  /\ \A i \in DOMAIN output : output[i].kind = "message" =>
       /\ i < first /\ output[i].text # <<>> /\ output[i].phase \in {Null, "commentary"}
  /\ Len(Messages(output)) <= 1
  /\ CallsAreValid(Calls(output))

Normalized(output) ==
  CASE Calls(output) = <<>> -> IF FinalIsValid(output) THEN "final" ELSE "invalid"
    [] OTHER -> IF ToolTurnIsValid(output) THEN "tools" ELSE "invalid"
================================================================================

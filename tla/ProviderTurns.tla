----------------------------- MODULE ProviderTurns -----------------------------
(***************************************************************************)
(* The turns of one run against a model service: the loop of               *)
(* run_supervisor.rs (build a request, dispatch it, take the answer, run   *)
(* the tools, go on), the dispatch of provider/{dispatch,opencode}.rs and  *)
(* provider/openai_codex, the sending of provider/http_client.rs, and the  *)
(* decoding of the answer by WireDecoders.  The service, the network and   *)
(* the clock do what they like: any record at any time, a connection that  *)
(* fails before or after the request was sent, silence, the end of a body  *)
(* anywhere.                                                               *)
(***************************************************************************)
EXTENDS ProviderRequests

CONSTANTS
  RunModels,         \* the models a run may have
  Records(_, _, _),  \* what the service may send to a decoder of a model's
                     \* operation
  MaxAttempts,       \* attempts of send_model_request
  MaxTurns,          \* bound: provider operations of the run
  MaxRecords,        \* bound: records of one answer
  MaxCompactions     \* bound: compactions of the run

ASSUME TurnsAssumption ==
  RunModels \subseteq Models /\ MaxAttempts \in Nat \ {0} /\ MaxTurns \in Nat
  /\ MaxRecords \in Nat /\ MaxCompactions \in Nat

VARIABLES
  model,        \* the model of the run
  stage,        \* where the run's task is
  entries,      \* the run's part of the transcript that is in its context
  checkpoint,   \* a summary stands before the entries
  continuation, \* provider_continuation: reasoning and signatures carried on
  turn,         \* provider_turn; of a native turn, CodexTurn
  request,      \* the request that was encoded
  operation,    \* provider operations begun
  attempt,      \* attempts of the current request
  delivered,    \* attempts whose bytes reached the service, by operation
  decoder,
  streamed,     \* deltas published for the current answer
  received,     \* records of the current answer
  concluded,    \* the service has said that its answer is at its end
  answer,       \* the last answer that was accepted, or Null
  cancelled,    \* the cancellation was signalled
  recovering,   \* recovery_requires_compaction
  compactions,
  end           \* how the run ended: [kind, error], or Null

transport == <<attempt, delivered, decoder, streamed, received, concluded, answer>>
loop == <<entries, checkpoint, continuation, turn, recovering, compactions>>
turnsVars == <<model, stage, entries, checkpoint, continuation, turn, request, operation, attempt,
          delivered, decoder, streamed, received, concluded, answer, cancelled,
          recovering, compactions, end>>

Native == model.family = "native"

NoContinuation == [operation |-> 0, reasoning |-> <<>>, opaque |-> {}]

\* CodexTurn::new; a turn of the other services keeps nothing.
NewTurn(born) == [born |-> born, sequence |-> 0, usable |-> TRUE, routed |-> FALSE,
                  reasoning |-> {}]

TurnsInit ==
  /\ model \in RunModels
  /\ stage = "loop"
  /\ entries \in {<<[kind |-> "user", image |-> i]>> : i \in {FALSE, model.images}}
  /\ checkpoint = FALSE
  /\ continuation = NoContinuation
  /\ turn = Null /\ request = Null
  /\ operation = 0 /\ attempt = 0 /\ delivered = <<>>
  /\ decoder = Null /\ streamed = <<>> /\ received = 0
  /\ concluded = FALSE /\ answer = Null
  /\ cancelled = FALSE /\ recovering = FALSE /\ compactions = 0
  /\ end = Null

StopRun(kind, error) == stage' = "ended" /\ end' = [kind |-> kind, error |-> error]

\* The decoder and the stream of an operation go with it.
ReleaseDecoder ==
  /\ decoder' = Null /\ streamed' = <<>> /\ received' = 0
  /\ concluded' = FALSE /\ answer' = Null

Cancel ==
  /\ ~cancelled /\ stage # "ended"
  /\ cancelled' = TRUE
  /\ UNCHANGED <<model, stage, loop, request, operation, transport, end>>

--------------------------------------------------------------------------------
(* The head of the loop. *)

LoopSeesCancellation ==
  /\ stage \in {"loop", "encoded"} /\ cancelled
  /\ StopRun("stopped", "cancelled")
  /\ UNCHANGED <<model, loop, request, operation, transport, cancelled>>

\* Mutant: the cut may come between two results of one batch.
Cuts_AnyResult == {i \in DOMAIN entries : entries[i].kind = "result" /\ i + 2 <= Len(entries)}

\* The results that end a batch of calls, with a batch after them
\* (select_within_run_cut).
Cuts ==
  {i \in DOMAIN entries :
     /\ entries[i].kind = "result" /\ i + 2 <= Len(entries)
     /\ \A j \in DOMAIN entries : entries[j].kind \in {"call", "result"} =>
          (entries[j].call[1] = entries[i].call[1] => j <= i)}

\* Mutant: the signatures of the calls that were summarised are kept.
Compact_KeepsContinuation ==
  /\ stage = "loop" /\ ~cancelled /\ compactions < MaxCompactions
  /\ entries[1].kind = "user" /\ ~entries[1].image
  /\ \E cut \in Cuts : entries' = <<entries[1]>> \o SubSeq(entries, cut + 1, Len(entries))
  /\ checkpoint' = TRUE /\ compactions' = compactions + 1
  /\ recovering' = FALSE /\ turn' = Null
  /\ UNCHANGED <<model, stage, request, operation, transport, cancelled, end, continuation>>

\* execute_compaction succeeded: what is before the cut is summarised, and the
\* message of the run is kept.
Compact ==
  /\ stage = "loop" /\ ~cancelled /\ compactions < MaxCompactions
  /\ entries[1].kind = "user" /\ ~entries[1].image
  /\ \E cut \in Cuts : entries' = <<entries[1]>> \o SubSeq(entries, cut + 1, Len(entries))
  /\ checkpoint' = TRUE /\ compactions' = compactions + 1
  /\ recovering' = FALSE /\ continuation' = NoContinuation /\ turn' = Null
  /\ UNCHANGED <<model, stage, request, operation, transport, cancelled, end>>

CompactionFails ==
  /\ stage = "loop" /\ ~cancelled /\ Cuts # {}
  /\ StopRun("failed", "compaction")
  /\ UNCHANGED <<model, loop, request, operation, transport, cancelled>>

NothingToCompact ==
  /\ stage = "loop" /\ ~cancelled /\ recovering /\ Cuts = {}
  /\ StopRun("failed", "resource_limit")
  /\ UNCHANGED <<model, loop, request, operation, transport, cancelled>>

--------------------------------------------------------------------------------
(* The request. *)

CurrentTurn == IF turn = Null THEN NewTurn(operation) ELSE turn

\* ModelTurn::request; the core instruction of a native request is sent apart.
Input ==
  LET input == BuildProviderInput(entries, continuation, TRUE, IF checkpoint THEN 1 ELSE 0)
  IN IF input = Null THEN Null ELSE IF Native THEN Tail(input) ELSE input

ReasoningOf(input) == {input[i] : i \in {x \in DOMAIN input : input[x].kind = "reasoning"}}

\* CodexRequest::with_prepared_tools: reasoning must be this turn's own.
NativeAccepts(t, input) == t.usable /\ ReasoningOf(input) \subseteq t.reasoning

RequestIsMade ==
  Encoded(model, Input) # Null /\ (Native => NativeAccepts(CurrentTurn, Input))

MakeRequest ==
  /\ stage = "loop" /\ ~cancelled /\ ~recovering /\ operation < MaxTurns
  /\ RequestIsMade
  /\ turn' = CurrentTurn
  /\ request' = [messages |-> Encoded(model, Input), sequence |-> CurrentTurn.sequence,
                 reasoning |-> ReasoningOf(Input)]
  /\ operation' = operation + 1
  /\ stage' = "encoded"
  /\ UNCHANGED <<model, entries, checkpoint, continuation, recovering, compactions, transport,
                 cancelled, end>>

RequestIsRefused ==
  /\ stage = "loop" /\ ~cancelled /\ ~recovering
  /\ ~RequestIsMade
  /\ turn' = CurrentTurn
  /\ StopRun("failed", "invalid_request")
  /\ UNCHANGED <<model, entries, checkpoint, continuation, recovering, compactions, request,
                 operation, transport, cancelled>>

\* prepare_dispatch takes the credential of the run's generation; the policy,
\* the credential and the admission of the ledger are checked before the
\* request is sent.
DispatchIsRefused ==
  /\ stage = "encoded" /\ ~cancelled
  /\ \E error \in {"credential", "data_use"} : StopRun("failed", error)
  /\ UNCHANGED <<model, loop, request, operation, transport, cancelled>>

\* PreparedCodexDispatch::execute up to the sending: the turn cannot be used
\* until the answer has been taken.
Dispatch ==
  /\ stage = "encoded" /\ ~cancelled
  /\ Native => turn.usable /\ request.sequence = turn.sequence
  /\ turn' = IF Native THEN [turn EXCEPT !.sequence = @ + 1, !.usable = FALSE] ELSE turn
  /\ attempt' = 1 /\ delivered' = Append(delivered, 0)
  /\ ReleaseDecoder
  /\ stage' = "sending"
  /\ UNCHANGED <<model, entries, checkpoint, continuation, recovering, compactions, request,
                 operation, cancelled, end>>

--------------------------------------------------------------------------------
(* send_model_request. *)

Delivered == [delivered EXCEPT ![operation] = @ + 1]

\* Mutant: every failure of an attempt is retried.
RetryAllowed_Any(sent) == attempt < MaxAttempts

\* Only a connection that was not made is tried again.
RetryAllowed(sent) == ~sent /\ attempt < MaxAttempts

AttemptFails(sent) ==
  /\ stage = "sending"
  /\ delivered' = IF sent THEN Delivered ELSE delivered
  /\ IF RetryAllowed(sent)
       THEN attempt' = attempt + 1 /\ UNCHANGED <<stage, end>>
       ELSE attempt' = attempt /\ StopRun("failed", "transport")
  /\ UNCHANGED <<model, loop, request, operation, decoder, streamed, received, concluded,
                 answer, cancelled>>

\* A deadline passes: for the headers, between frames, or for the whole.
\* The bytes may have gone out before it did.
TimesOut(sent) ==
  /\ stage \in {"sending", "streaming"}
  /\ delivered' = IF sent /\ stage = "sending" THEN Delivered ELSE delivered
  /\ StopRun("failed", "timeout")
  /\ ReleaseDecoder
  /\ UNCHANGED <<model, loop, request, operation, attempt, cancelled>>

\* select! is biased: a cancellation is seen at every wait.
ExchangeIsCancelled ==
  /\ stage \in {"sending", "streaming"} /\ cancelled
  /\ StopRun("stopped", "cancelled")
  /\ ReleaseDecoder
  /\ UNCHANGED <<model, loop, request, operation, attempt, delivered, cancelled>>

HeadersArrive ==
  /\ stage = "sending"
  /\ delivered' = Delivered
  /\ decoder' = New(model.family)
  /\ stage' = "streaming"
  /\ \E routed \in BOOLEAN :
       turn' = IF Native THEN [turn EXCEPT !.routed = @ \/ routed] ELSE turn
  /\ UNCHANGED <<model, entries, checkpoint, continuation, recovering, compactions, request,
                 operation, attempt, streamed, received, concluded,
                 answer, cancelled, end>>

\* Statuses, headers and content types of another kind (classify_status).
AnswerIsRefused ==
  /\ stage = "sending"
  /\ delivered' = Delivered
  /\ \E error \in {"rejected", "protocol"} : StopRun("failed", error)
  /\ UNCHANGED <<model, loop, request, operation, attempt, decoder, streamed, received, concluded,
                 answer, cancelled>>

\* classify_rejection: the service proves that the context is too large; one
\* compaction may follow (settle_context_rejection).
ContextIsRejected ==
  /\ stage = "sending" /\ Native /\ ~recovering /\ compactions < MaxCompactions
  /\ delivered' = Delivered
  /\ recovering' = TRUE /\ continuation' = NoContinuation /\ turn' = Null
  /\ stage' = "loop"
  /\ UNCHANGED <<model, entries, checkpoint, compactions, request, operation, attempt, decoder,
                 streamed, received, concluded,
                 answer, cancelled, end>>

--------------------------------------------------------------------------------
(* The answer. *)

\* The record with which a service ends its answer.
Concludes(r) ==
  \/ r.type \in {"message_stop", "completed"}
  \/ r.type = "done" /\ model.family = "chat"
  \/ r.type = "event" /\ r.reason # Null

ReceiveRecord ==
  /\ stage = "streaming" /\ decoder.error = "none" /\ ~decoder.cut /\ received < MaxRecords
  /\ \E r \in Records(model, decoder, operation) :
       LET next == Push(decoder, r) IN
       /\ decoder' = next
       /\ streamed' = streamed \o next.events
       /\ concluded' = (concluded \/ Concludes(r))
  /\ received' = received + 1
  /\ UNCHANGED <<model, stage, loop, request, operation, attempt, delivered, answer,
                 cancelled, end>>

AnswerFails ==
  /\ stage = "streaming" /\ decoder.error # "none"
  /\ StopRun("failed", decoder.error)
  /\ ReleaseDecoder
  /\ UNCHANGED <<model, loop, request, operation, attempt, delivered, cancelled>>

\* The entries a tool turn adds to the transcript (complete_provider_tool_turn).
TurnEntries(output) ==
  [i \in DOMAIN Messages(output) |-> [kind |-> "assistant"]] \o
  [i \in DOMAIN Calls(output) |-> [kind |-> "call", call |-> <<operation, i>>]]

\* provider_continuation after a tool turn: the reasoning of this answer, and
\* the signatures of every call since the turn began.
Carried(output) ==
  [operation |-> operation, reasoning |-> Reasoning(output),
   opaque |-> continuation.opaque \cup
     {<<<<operation, i>>, Calls(output)[i].opaque>> :
        i \in {x \in DOMAIN Calls(output) : Calls(output)[x].opaque # Null}}]

\* The end of PreparedCodexDispatch::execute.
TurnAfter(output) ==
  [turn EXCEPT !.usable = TRUE,
               !.reasoning = request.reasoning \cup ReasoningOf(output)]

BodyEnds ==
  /\ stage = "streaming" /\ decoder.error = "none"
  /\ decoder' = Null
  /\ LET result == Finish(decoder) IN
     \/ /\ result.error # "none"
        /\ StopRun("failed", result.error)
        /\ UNCHANGED <<entries, continuation, turn, answer>>
     \/ /\ result.error = "none" /\ Normalized(result.output) = "invalid"
        /\ StopRun("failed", "invalid_output")
        /\ UNCHANGED <<entries, continuation, turn, answer>>
     \/ /\ result.error = "none" /\ Normalized(result.output) = "final"
        /\ StopRun("final", "none")
        /\ answer' = result.output
        /\ UNCHANGED <<entries, continuation, turn>>
     \/ /\ result.error = "none" /\ Normalized(result.output) = "tools"
        /\ stage' = "tools"
        /\ answer' = result.output
        /\ entries' = entries \o TurnEntries(result.output)
        /\ continuation' = Carried(result.output)
        /\ turn' = IF Native THEN TurnAfter(result.output) ELSE turn
        /\ UNCHANGED end
  /\ UNCHANGED <<model, checkpoint, recovering, compactions, request, operation, attempt,
                 delivered, streamed, received, concluded, cancelled>>

Unanswered == {entries[i].call : i \in {x \in DOMAIN entries : entries[x].kind = "call"}} \
              {entries[i].call : i \in {x \in DOMAIN entries : entries[x].kind = "result"}}

\* execute_tool_calls: the calls of the batch in their order; an image is read
\* only for a model that takes one.
RunTool ==
  /\ stage = "tools" /\ Unanswered # {}
  /\ LET call == CHOOSE c \in Unanswered : \A d \in Unanswered : c[2] <= d[2] IN
     \E image \in {FALSE, model.images} :
       entries' = Append(entries, [kind |-> "result", call |-> call, image |-> image])
  /\ UNCHANGED <<model, stage, checkpoint, continuation, turn, recovering, compactions, request,
                 operation, transport, cancelled, end>>

ToolsDone ==
  /\ stage = "tools" /\ Unanswered = {}
  /\ stage' = "loop"
  /\ ReleaseDecoder
  /\ UNCHANGED <<model, loop, request, operation, attempt, delivered, cancelled, end>>

TurnsNext ==
  \/ Cancel \/ LoopSeesCancellation \/ Compact \/ CompactionFails \/ NothingToCompact
  \/ MakeRequest \/ RequestIsRefused \/ DispatchIsRefused \/ Dispatch
  \/ \E sent \in BOOLEAN : AttemptFails(sent) \/ TimesOut(sent)
  \/ ExchangeIsCancelled \/ HeadersArrive \/ AnswerIsRefused \/ ContextIsRejected
  \/ ReceiveRecord \/ AnswerFails \/ BodyEnds \/ RunTool \/ ToolsDone

TurnsSpec == TurnsInit /\ [][TurnsNext]_turnsVars

--------------------------------------------------------------------------------
(* Properties. *)

PiecesOf(slot) ==
  LET of == SelectSeq(streamed, LAMBDA e : e.slot = slot)
  IN [i \in DOMAIN of |-> of[i].piece]

TextOf(output) ==
  FlattenSeq([i \in DOMAIN Messages(output) |-> Messages(output)[i].text])

\* An answer is taken only when the service has ended it, every call in it has
\* all of its arguments, and it is the text the clients were shown: each text
\* that was streamed stands in one message of the answer, and where the answer
\* is made of the stream alone it holds nothing else (finish of the decoders,
\* validate_terminal_text, send_delta).
AnswerIsWhole ==
  answer # Null =>
    /\ concluded
    /\ \A i \in DOMAIN Calls(answer) : Complete(Calls(answer)[i].args)
    /\ \A e \in Range(streamed) :
         \E m \in Range(Messages(answer)) :
           \E i \in 0..Len(m.text) : IsPrefix(PiecesOf(e.slot), SubSeq(m.text, i + 1, Len(m.text)))
    /\ model.family \in {"anthropic", "chat", "gemini"} =>
         TextOf(answer) = [i \in DOMAIN streamed |-> streamed[i].piece]

\* However connections fail, no request reaches the service a second time:
\* send_model_request tries again only what was never sent, and a run does not
\* repeat an operation whose outcome it does not know.
TransmittedAtMostOnce == \A o \in DOMAIN delivered : delivered[o] <= 1

\* A run is not stopped by a request of its own making: after a tool turn, a
\* compaction or a rejected context the next request is encoded and accepted by
\* its turn, unless the service gave reasoning that cannot be sent back
\* (build_provider_input, validate_input, CodexRequest::with_prepared_tools).
FollowUpIsAccepted ==
  end # Null /\ end.error = "invalid_request" =>
    \E item \in Range(continuation.reasoning) : ~ItemIsSendable(model, item)

\* In every request each call is answered once, after it and before the
\* assistant speaks again, and nothing is answered that was not called, also
\* when a compaction has cut the run's transcript (chat_messages,
\* anthropic_messages, gemini_contents, select_within_run_cut).
CallsAreAnswered ==
  request # Null =>
    LET m == request.messages
        CallsAt(i) == Range(m[i].calls)
        ResultsAt(i) == Range(m[i].results)
        Speaks(i) == m[i].role = "assistant" /\ m[i].calls = <<>>
    IN /\ \A i \in DOMAIN m : \A c \in CallsAt(i) : \E j \in (i + 1)..Len(m) :
            c \in ResultsAt(j) /\ \A k \in i..j : ~Speaks(k) \/ k = i
       /\ \A j \in DOMAIN m : \A c \in ResultsAt(j) : \E i \in 1..(j - 1) : c \in CallsAt(i)
       /\ \A i, j \in DOMAIN m : i # j => ResultsAt(i) \cap ResultsAt(j) = {}
================================================================================

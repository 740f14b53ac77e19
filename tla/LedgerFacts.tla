------------------------------ MODULE LedgerFacts ------------------------------
(***************************************************************************)
(* The rows behind SessionLedger.  Every transaction of the backend writes *)
(* canonical facts, audit rows, delivery events and the registry of        *)
(* mutations beside the projections (runs, session_run_states) that        *)
(* SessionLedger describes.  At every start the database module first      *)
(* validates the facts and then deletes the projections and the delivery   *)
(* events and rebuilds them (database/projections.rs, repair).             *)
(*                                                                         *)
(* Here each transaction of SessionLedger also writes its rows, as its     *)
(* function does; the validators and the rebuild are operators over them.  *)
(* A row is at the position of the journal that stands for its             *)
(* fact_sequence.  Steering and archive rows are those of the modules      *)
(* Steering and SessionCatalog.  runs.updated_sequence is left out: after  *)
(* a tool result the live column holds the sequence of the entry and the   *)
(* rebuilt one that of the tool fact, and nothing orders runs by it.       *)
(***************************************************************************)
EXTENDS SessionLedger, Integers, FiniteSets

CONSTANTS
  MaxAsides,      \* bound: commands, steering queues, archive requests and
                  \* cancellations that only leave a receipt
  MaxToolTurns    \* bound: the turns of a run that may carry tool calls

ASSUME FactsBoundAssumption == MaxAsides \in Nat /\ MaxToolTurns \in Nat

VARIABLES
  journal,      \* the canonical rows, in logical sequence order
  audits,       \* run, tool and command audit facts: <<fact_sequence audited, audit_kind>>
  deliveries,   \* delivery_events: <<event_sequence, event_kind>>
  registry,     \* mutation_requests: <<accepted_sequence, operation_kind>>
  counters      \* runs.provider_turns, tool_calls and tool_mutations

factVars == <<ledgerVars, journal, audits, deliveries, registry, counters>>

NoCounts == [turns |-> 0, calls |-> 0, mutations |-> 0]

FactsInit ==
  /\ LedgerInit
  /\ journal = <<>>
  /\ audits = {}
  /\ deliveries = {}
  /\ registry = {}
  /\ counters = [r \in Runs |-> NoCounts]

--------------------------------------------------------------------------------
(* Writing rows.  seq is the entry_sequence of an entry or a finished      *)
(* command and the source_entry_high_water of an accepted or a prepared    *)
(* fact.                                                                   *)

Row(table, of, t, k, kind, seq) ==
  [table |-> table, of |-> of, turn |-> t, call |-> k, kind |-> kind, seq |-> seq]

\* A row, with its audit row, its delivery event and its mutation request.
Put(row, audit, event, request) ==
  <<[row |-> row, audit |-> audit, event |-> event, request |-> request]>>

Write(writes) ==
  LET beside(column(_)) == {<<Len(journal) + i, column(writes[i])>> :
                              i \in {j \in DOMAIN writes : column(writes[j]) # "none"}}
  IN
  /\ journal' = journal \o [i \in DOMAIN writes |-> writes[i].row]
  /\ audits' = audits \cup beside(LAMBDA w : w.audit)
  /\ deliveries' = deliveries \cup beside(LAMBDA w : w.event)
  /\ registry' = registry \cup beside(LAMBDA w : w.request)

EntryEvent(kind) ==
  CASE kind = "user" -> "user_message"
    [] kind \in {"commentary", "answer"} -> "assistant_message"
    [] kind = "call" -> "tool_call"
    [] kind = "result" -> "tool_result"

\* An entry of run r, the n-th after the session's high water.
EntryRow(r, t, k, kind, n) ==
  Put(Row("entry", r, t, k, kind, highWater[SessionOf[r]] + n), "none", EntryEvent(kind), "none")

\* The audit kind append_run_transition is given with a state.
StateAudit(state) ==
  IF state \in {"active", "succeeded", "failed"} THEN state ELSE "stopped"

\* append_run_transition: the state fact, its event and its audit row.
TransitionRows(r, state) ==
  Put(Row("state", r, 0, 0, state, 0), StateAudit(state), state, "none")

ProviderAudit(fact) == IF fact \in {"failed", "uncertain", "abandoned"} THEN "ended" ELSE fact

ProviderRows(r, t, fact, source) ==
  Put(Row("provider", r, t, 0, fact, source), ProviderAudit(fact), "none", "none")

ToolAudit(fact) ==
  CASE fact \in {"prepared", "dispatched"} -> fact
    [] fact = "uncertain" -> "tool_uncertain"
    [] OTHER -> "tool_completed"

\* An uncertain effect also tells the session's clients that its workspace is.
ToolRows(r, t, k, fact) ==
  Put(Row("tool", r, t, k, fact, 0), ToolAudit(fact),
      IF fact = "uncertain" THEN "workspace" ELSE "none", "none")

KeepCounters == UNCHANGED counters

\* Mutant: provider_turns is not counted when a cancellation ends the turn.
CountTurn_UnlessCancelled(r, calls) ==
  counters' = IF cancelRequested[r] THEN counters
              ELSE [counters EXCEPT ![r].turns = @ + 1,
                                    ![r].calls = @ + Len(calls),
                                    ![r].mutations = @ + Cardinality({k \in DOMAIN calls :
                                                                       calls[k] = "mutation"})]

CountTurn(r, calls) ==
  counters' = [counters EXCEPT
    ![r].turns = @ + 1,
    ![r].calls = @ + Len(calls),
    ![r].mutations = @ + Cardinality({k \in DOMAIN calls : calls[k] = "mutation"})]

--------------------------------------------------------------------------------
(* Runs. *)

\* The bound on what happens beside the run.
AsidesLeft ==
  Cardinality({i \in DOMAIN journal :
                 \/ journal[i].table = "cancellation" /\ journal[i].kind = "ignored"
                 \/ journal[i].table = "command" /\ journal[i].kind = "accepted"})
    + Cardinality({s \in Sessions : steeringTarget[s] # NoRun})
    + Len(archiveLog) < MaxAsides

WriteInput(r) ==
  /\ AcceptSessionInput(r)
  /\ Write(EntryRow(r, 0, 0, "user", 1)
           \o Put(Row("accepted", r, 0, 0, "accepted", highWater[SessionOf[r]] + 1),
                  "accepted", "run_accepted", "input"))
  /\ KeepCounters

CancellationRows(r, intent) ==
  Put(Row("cancellation", r, 0, 0, intent, 0), intent,
      IF intent = "applied" THEN "cancellation" ELSE "none", "cancel")

WriteCancellation(r) == CancelRun(r) /\ Write(CancellationRows(r, "applied")) /\ KeepCounters

\* The states a receipt may carry: run_cancellation_requests.result_state is checked
\* to be between 1 and 6, and an uncertain run is in state 7.
ResultStates == RunStates \ {"none", "uncertain"}

\* The receipt of a cancellation that comes too late or again.  On an uncertain run
\* the insert violates the table's check and the transaction fails.
WriteReceipt(r) ==
  /\ runState[r] \in TerminalRunStates \/ cancelRequested[r]
  /\ runState[r] \in ResultStates
  /\ AsidesLeft
  /\ Write(CancellationRows(r, "ignored"))
  /\ UNCHANGED <<ledgerVars, counters>>

\* A run cancelled before its activation is activated first; one that is active
\* already and not cancelled writes nothing.
WriteActivation(r) ==
  /\ Quiet(r)
  /\ ActivateRun(r)
  /\ Write((IF runState[r] = "accepted" THEN TransitionRows(r, "active") ELSE <<>>)
           \o (IF cancelRequested[r] THEN TransitionRows(r, "cancelled") ELSE <<>>))
  /\ KeepCounters

\* Mutant: the run's terminal state is written before its operation's outcome.
WriteFinish_StateFirst(r, t, kind) ==
  /\ t = 0 => Quiet(r)
  /\ FinishRun(r, t, kind)
  /\ Write(TransitionRows(r, IF kind # "stopped" THEN "failed"
                             ELSE IF cancelRequested[r] THEN "cancelled" ELSE "interrupted")
           \o (IF t = 0 THEN <<>>
               ELSE ProviderRows(r, t, IF kind = "stopped" THEN StoppedFact(r, t) ELSE kind, 0)))
  /\ KeepCounters

WriteFinish(r, t, kind) ==
  /\ t = 0 => Quiet(r)
  /\ FinishRun(r, t, kind)
  /\ Write((IF t = 0 THEN <<>>
            ELSE ProviderRows(r, t, IF kind = "stopped" THEN StoppedFact(r, t) ELSE kind, 0))
           \o TransitionRows(r, IF kind # "stopped" THEN "failed"
                                ELSE IF cancelRequested[r] THEN "cancelled" ELSE "interrupted"))
  /\ KeepCounters

--------------------------------------------------------------------------------
(* Provider operations and tools. *)

WritePrepared(r, t) ==
  LET source == highWater[SessionOf[r]] IN
  /\ Quiet(r)
  /\ PrepareProviderOperation(r, t, source)
  /\ Write(IF cancelRequested[r] THEN TransitionRows(r, "cancelled")
           ELSE ProviderRows(r, t, "prepared", source))
  /\ KeepCounters

WriteDispatched(r, t) ==
  /\ ProviderPending(r, t)
  /\ "dispatched" \notin providerFacts[<<r, t>>]
  /\ MarkProviderDispatched(r, t)
  /\ Write(IF cancelRequested[r]
             THEN ProviderRows(r, t, "abandoned", 0) \o TransitionRows(r, "cancelled")
             ELSE ProviderRows(r, t, "dispatched", 0))
  /\ KeepCounters

WriteAnswer(r, t) ==
  /\ CompleteRunSuccess(r, t)
  /\ Write(ProviderRows(r, t, "completed", 0)
           \o (IF cancelRequested[r] THEN TransitionRows(r, "cancelled")
               ELSE EntryRow(r, t, 0, "answer", 1) \o TransitionRows(r, "succeeded")))
  /\ CountTurn(r, <<>>)

WriteRejection(r, t) ==
  SettleContextRejection(r, t) /\ Write(ProviderRows(r, t, "failed", 0)) /\ KeepCounters

\* The rows of one call: the call and its entry.
CallRows(r, t, k, kind, n) ==
  Put(Row("call", r, t, k, kind, 0), "call", "none", "none") \o EntryRow(r, t, k, "call", n)

\* The rows of a turn's calls, in the order of the calls.
CallBatchRows(r, t, calls, commentary) ==
  LET rows(k) == CallRows(r, t, k, calls[k], commentary + k) IN
  [i \in 1..2 * Len(calls) |-> rows((i + 1) \div 2)[IF i % 2 = 1 THEN 1 ELSE 2]]

WriteToolTurn(r, t, calls, commentary) ==
  /\ t <= MaxToolTurns
  /\ CompleteProviderToolTurn(r, t, calls, commentary)
  /\ Write(ProviderRows(r, t, "completed", 0)
           \o (IF commentary = 1 THEN EntryRow(r, t, 0, "commentary", 1) ELSE <<>>)
           \o CallBatchRows(r, t, calls, commentary))
  /\ CountTurn(r, calls)

WriteToolPrepared(r, t, k) ==
  Quiet(r) /\ PrepareToolOperation(r, t, k) /\ Write(ToolRows(r, t, k, "prepared")) /\ KeepCounters

WriteToolDispatched(r, t, k) ==
  /\ Quiet(r)
  /\ "dispatched" \notin toolFacts[<<r, t, k>>]
  /\ MarkToolDispatched(r, t, k)
  /\ Write(ToolRows(r, t, k, "dispatched"))
  /\ KeepCounters

WriteToolResult(r, t, k, result) ==
  LET dispatched == "dispatched" \in toolFacts[<<r, t, k>>] IN
  /\ Quiet(r)
  /\ result \in {"uncertain", "web_uncertain"} => dispatched
  /\ result = "web_uncertain" => IsCall(r, t, k) /\ toolCalls[<<r, t>>][k] = "web"
  /\ result = "uncertain" => IsCall(r, t, k) /\ toolCalls[<<r, t>>][k] # "web"
  /\ CompleteToolResult(r, t, k, result)
  /\ Write(ToolRows(r, t, k, ClassifyResult(result, dispatched))
           \o EntryRow(r, t, k, "result", 1)
           \o (IF StopsRun(result) THEN TransitionRows(r, "uncertain") ELSE <<>>))
  /\ KeepCounters

--------------------------------------------------------------------------------
(* Local commands. *)

CommandRow(c, kind, seq, event, request) ==
  Put(Row("command", c, 0, 0, kind, seq), kind, event, request)

WriteCommand(c) ==
  /\ AsidesLeft
  /\ AcceptLocalCommand(c)
  /\ Write(CommandRow(c, "accepted", 0, "command_accepted", "command"))
  /\ KeepCounters

WriteCommandActive(c) ==
  ActivateLocalCommand(c) /\ Write(CommandRow(c, "active", 0, "none", "none")) /\ KeepCounters

WriteCommandCancel(c) ==
  /\ CancelLocalCommand(c)
  /\ Write(CommandRow(c, "cancelled", 0, "none", "command_cancel"))
  /\ KeepCounters

WriteCommandResult(c, state) ==
  /\ CompleteLocalCommand(c, state)
  /\ Write(CommandRow(c, state, highWater[SessionOf[c]] + 1, "command_completed", "none"))
  /\ KeepCounters

FactsRunStep(r) ==
  \/ WriteInput(r)
  \/ WriteCancellation(r)
  \/ WriteReceipt(r)
  \/ WriteActivation(r)
  \/ \E kind \in {"stopped", "failed"} : WriteFinish(r, 0, kind)

FactsProviderStep(r, t) ==
  \/ WritePrepared(r, t)
  \/ WriteDispatched(r, t)
  \/ WriteAnswer(r, t)
  \/ WriteRejection(r, t)
  \/ \E calls \in CallBatches, commentary \in {0, 1} : WriteToolTurn(r, t, calls, commentary)
  \/ \E kind \in {"stopped", "failed", "uncertain"} : WriteFinish(r, t, kind)

FactsToolStep(r, t, k) ==
  \/ WriteToolPrepared(r, t, k)
  \/ WriteToolDispatched(r, t, k)
  \/ \E result \in ToolResults : WriteToolResult(r, t, k, result)

FactsCommandStep(c) ==
  \/ WriteCommand(c)
  \/ WriteCommandActive(c)
  \/ WriteCommandCancel(c)
  \/ \E state \in TerminalCommandStates : WriteCommandResult(c, state)

\* Steering and archive rows belong to tables of their own.
KeepRows == UNCHANGED <<journal, audits, deliveries, registry, counters>>

FactsSteeringStep(s) ==
  /\ steeringTarget[s] = NoRun => AsidesLeft
  /\ SteeringStep(s)
  /\ KeepRows

FactsArchiveStep(a) ==
  /\ archiveState[a] = "none" => AsidesLeft
  /\ ArchiveStep(a)
  /\ KeepRows

FactsNext ==
  \/ \E r \in Runs :
       \/ FactsRunStep(r)
       \/ \E t \in Turns : FactsProviderStep(r, t) \/ \E k \in Calls : FactsToolStep(r, t, k)
  \/ \E c \in Commands : FactsCommandStep(c)
  \/ \E s \in Sessions : FactsSteeringStep(s)
  \/ PauseSteeringForRecovery /\ KeepRows
  \/ \E a \in Archives : FactsArchiveStep(a)

FactsSpec == FactsInit /\ [][FactsNext]_factVars

--------------------------------------------------------------------------------
(* The validators, over the rows alone. *)

\* The positions of the rows of a table about an owner, with one of some kinds.
Rows(table, of, kinds) ==
  {i \in DOMAIN journal :
     LET row == journal[i] IN row.table = table /\ row.of = of /\ row.kind \in kinds}

\* The same for the t-th operation of a run, or its k-th call.
RowsOf(table, r, t, k, kinds) ==
  {i \in Rows(table, r, kinds) : LET row == journal[i] IN row.turn = t /\ row.call = k}

Before(is, js) == \A i \in is, j \in js : i < j

Accepted(r) == Rows("accepted", r, {"accepted"})

\* The positions among is of the rows with one of some kinds.
OfKind(is, kinds) == {i \in is : journal[i].kind \in kinds}

\* The inputs of validate_run_request_payloads: every accepted run has its input, at
\* the transcript position it was accepted with, and is the one a cancellation names.
RequestsValid(r) ==
  LET accepted == Accepted(r)
      cancellations == Rows("cancellation", r, {"applied", "ignored"})
      applied == OfKind(cancellations, {"applied"})
  IN
  /\ accepted # {} =>
       \E u \in Rows("entry", r, {"user"}), a \in accepted : journal[u].seq = journal[a].seq
  /\ cancellations # {} => accepted # {}
  /\ applied # {} => \E i \in applied : <<i, "cancellation">> \in deliveries

\* validate_run_canonical_facts, run by run: the entry of the input was written
\* first, at most one terminal state, after every other; a run succeeded exactly
\* when it has one answer, written before.
RunFactsValid(r) ==
  LET accepted == Accepted(r)
      entries == Rows("entry", r, {"user", "answer", "commentary"})
      users == OfKind(entries, {"user"})
      states == Rows("state", r, RunStates)
      terminal == OfKind(states, TerminalRunStates)
      succeeded == OfKind(states, {"succeeded"})
  IN
  /\ Cardinality(users) = 1
  /\ Before(users, accepted)
  /\ \A u \in users, a \in accepted : journal[u].seq = journal[a].seq
  /\ Cardinality(terminal) <= 1
  /\ Before(accepted, states)
  /\ Before(OfKind(states, {"active"}), terminal)
  /\ Cardinality(succeeded) = 1 <=> Cardinality(OfKind(entries, {"answer"})) = 1
  /\ Before(entries \ users, succeeded)

EntrySequences(s) ==
  {i \in DOMAIN journal : /\ journal[i].table \in {"entry", "command"}
                          /\ journal[i].seq > 0
                          /\ SessionOf[journal[i].of] = s}

\* One run without a terminal state, and transcript positions without a gap.
SessionFactsValid(s) ==
  /\ Cardinality({r \in Runs : /\ SessionOf[r] = s
                               /\ Accepted(r) # {}
                               /\ Rows("state", r, TerminalRunStates) = {}}) <= 1
  /\ LET entries == EntrySequences(s) IN
     {journal[i].seq : i \in entries} = 1..Cardinality(entries)

OperationFactsValid(r, t) ==
  LET facts == RowsOf("provider", r, t, 0, ProviderFacts)
      prepared == OfKind(facts, {"prepared"})
      dispatched == OfKind(facts, {"dispatched"})
      outcome == OfKind(facts, TerminalProviderFacts)
  IN facts # {} =>
       /\ Cardinality(prepared) = 1
       /\ Cardinality(dispatched) <= 1
       /\ Cardinality(outcome) <= 1
       /\ Before(prepared, dispatched \cup outcome)
       /\ Before(dispatched, outcome)
       /\ Before(outcome, Rows("state", r, TerminalRunStates))

\* A prepared operation read a transcript that existed, no older than the run's
\* own input; turn indexes have no gap.
PreparedFactsValid(r) ==
  LET prepared == Rows("provider", r, {"prepared"})
      accepted == Accepted(r)
  IN
  /\ \A p \in prepared :
       /\ \A a \in accepted : journal[p].seq >= journal[a].seq
       /\ \E i \in DOMAIN journal : /\ i < p
                                    /\ journal[i].table = "entry"
                                    /\ SessionOf[journal[i].of] = SessionOf[r]
                                    /\ journal[i].seq = journal[p].seq
  /\ {journal[p].turn : p \in prepared} = 1..Cardinality(prepared)

\* The audit kind that goes with a fact, "none" for the entries of the transcript.
AuditKind(row) ==
  CASE row.table = "state" -> StateAudit(row.kind)
    [] row.table = "provider" -> ProviderAudit(row.kind)
    [] row.table = "tool" -> ToolAudit(row.kind)
    [] row.table = "call" -> "call"
    [] row.table \in {"accepted", "cancellation", "command"} -> row.kind
    [] OTHER -> "none"

\* The audit rows are those of the facts, kind by kind and one for one.
AuditsValid ==
  audits = {<<i, AuditKind(journal[i])>> :
              i \in {j \in DOMAIN journal : AuditKind(journal[j]) # "none"}}

\* validate_tool_facts: a call belongs to one completed operation and has one
\* entry, both in order; every fact of it follows it.
CallFactsValid(r, t, k) ==
  LET call == RowsOf("call", r, t, k, ToolKinds)
      entry == RowsOf("entry", r, t, k, {"call"})
      completed == RowsOf("provider", r, t, 0, {"completed"})
      facts == RowsOf("tool", r, t, k, ToolFacts)
      prepared == OfKind(facts, {"prepared"})
      dispatched == OfKind(facts, {"dispatched"})
      terminal == OfKind(facts, TerminalToolFacts)
  IN
  /\ call = {} => facts = {}
  /\ call # {} =>
       /\ Cardinality(completed) = 1
       /\ Cardinality(entry) = 1
       /\ Before(Accepted(r), call)
       /\ Before(completed, call)
       /\ Before(call, entry)
       /\ Before(call, facts)
       /\ Cardinality(prepared) <= 1
       /\ Cardinality(dispatched) <= Cardinality(prepared)
       /\ Before(prepared, dispatched \cup terminal)
       /\ Before(dispatched, terminal)

\* The result of a terminal fact follows it in the transcript, and an uncertain
\* effect ended its run, except that of a web search.
ToolResultsValid(r, t, k) ==
  LET terminal == RowsOf("tool", r, t, k, TerminalToolFacts)
      uncertain == OfKind(terminal, {"uncertain"})
      result == RowsOf("entry", r, t, k, {"result"})
  IN
  /\ terminal # {} => Cardinality(result) = 1
  /\ Before(terminal, result)
  /\ \A i \in uncertain :
       \/ RowsOf("call", r, t, k, {"web"}) # {}
       \/ \E j \in Rows("state", r, {"uncertain"}) : j > i

\* validate_local_command_facts and the table's checks: a finished command has its
\* place in the transcript and nothing follows its end.
CommandFactsValid(c) ==
  LET ended == Rows("command", c, TerminalCommandStates) IN
  /\ Cardinality(ended) <= 1
  /\ \A i \in ended : journal[i].seq > 0
  /\ Before(Rows("command", c, LiveCommandStates \cup {"cancelled"}), ended)

RequestKind(row) ==
  CASE row.table = "accepted" -> "input"
    [] row.table = "cancellation" -> "cancel"
    [] row.table = "command" /\ row.kind = "accepted" -> "command"
    [] row.table = "command" /\ row.kind = "cancelled" -> "command_cancel"
    [] OTHER -> "none"

\* validate_mutation_registry: each registered mutation has its request row with
\* the same accepted sequence, and each request row is registered.
RegistryValid ==
  registry = {<<i, RequestKind(journal[i])>> :
                i \in {j \in DOMAIN journal : RequestKind(journal[j]) # "none"}}

CanonicalFactsValid ==
  /\ RegistryValid
  /\ AuditsValid
  /\ \A s \in Sessions : SessionFactsValid(s)
  /\ \A c \in Commands : CommandFactsValid(c)
  /\ \A r \in Runs : RequestsValid(r)
  /\ \A r \in Runs : Accepted(r) # {} =>
       /\ RunFactsValid(r)
       /\ PreparedFactsValid(r)
       /\ \A t \in Turns :
            /\ OperationFactsValid(r, t)
            /\ \A k \in Calls :
                 CallFactsValid(r, t, k) /\ ToolResultsValid(r, t, k)

--------------------------------------------------------------------------------
(* The rebuild, over the rows alone. *)

LatestRow(is) == CHOOSE i \in is : \A j \in is : j <= i

RebuiltState(r) ==
  LET states == Rows("state", r, RunStates) IN
  IF Accepted(r) = {} THEN "none"
  ELSE IF states = {} THEN "accepted"
  ELSE journal[LatestRow(states)].kind

RebuiltCounts(r) ==
  [turns |-> Cardinality(Rows("provider", r, {"completed"})),
   calls |-> Cardinality(Rows("call", r, ToolKinds)),
   mutations |-> Cardinality(Rows("call", r, {"mutation"}))]

RebuiltRun(r) ==
  [state |-> RebuiltState(r),
   cancelled |-> Rows("cancellation", r, {"applied"}) # {},
   counts |-> RebuiltCounts(r)]

RebuiltHighWater(s) ==
  IF EntrySequences(s) = {} THEN 0
  ELSE CHOOSE n \in {journal[i].seq : i \in EntrySequences(s)} :
         \A i \in EntrySequences(s) : journal[i].seq <= n

\* active_run_id: a run whose rebuilt state is not terminal (LIMIT 1).
RebuiltActiveRuns(s) == {r \in Runs : SessionOf[r] = s /\ RebuiltState(r) \in LiveRunStates}

\* The event a row of each table is delivered as; NULL event columns are skipped.
RebuiltEvent(row) ==
  CASE row.table = "entry" -> EntryEvent(row.kind)
    [] row.table = "accepted" -> "run_accepted"
    [] row.table = "state" -> row.kind
    [] row.table = "cancellation" /\ row.kind = "applied" -> "cancellation"
    [] row.table = "tool" /\ row.kind = "uncertain" -> "workspace"
    [] row.table = "command" /\ row.kind = "accepted" -> "command_accepted"
    [] row.table = "command" /\ row.kind \in TerminalCommandStates -> "command_completed"
    [] OTHER -> "none"

RebuiltDeliveries ==
  {<<i, RebuiltEvent(journal[i])>> :
     i \in {j \in DOMAIN journal : RebuiltEvent(journal[j]) # "none"}}

--------------------------------------------------------------------------------
(* Properties. *)

\* After any sequence of transactions the database passes the validators of the
\* next start (validate_run_canonical_facts, validate_tool_facts,
\* validate_local_command_facts, validate_mutation_registry): no legal history
\* makes repair refuse to open the ledger.
LedgerPassesValidation == CanonicalFactsValid

\* What the transactions maintain row by row in runs, session_run_states and
\* delivery_events is what rebuild derives from the facts at the next start, event
\* sequences included, so that a client's position stays good across a restart.
ProjectionsAreRebuildable ==
  /\ \A r \in Runs : RebuiltRun(r) = [state |-> runState[r], cancelled |-> cancelRequested[r],
                                      counts |-> counters[r]]
  /\ \A s \in Sessions :
       /\ highWater[s] = RebuiltHighWater(s)
       /\ RebuiltActiveRuns(s) = {activeRun[s]} \ {NoRun}
  /\ deliveries = RebuiltDeliveries
================================================================================

----------------------------- MODULE SessionLedger -----------------------------
(***************************************************************************)
(* The durable state of a session and the transactions that change it:     *)
(* the Backend of persistence/backend.  One storage worker owns the SQLite *)
(* connection and every operation below is one Immediate transaction, so   *)
(* each is one action.  Its callers (supervisors, request handlers and     *)
(* startup recovery) interleave freely between transactions.               *)
(*                                                                         *)
(* A run stands for the input request that creates it, a command and an    *)
(* archive request likewise.  Texts, identifiers, fingerprints, audit rows *)
(* and delivery rows are left out; transcript entries are counted by the   *)
(* session's high water.                                                   *)
(***************************************************************************)
EXTENDS Naturals, Sequences

CONSTANTS
  Sessions,         \* sessions, all of them already created
  Runs,             \* runs that may be accepted
  Commands,         \* local commands that may be accepted
  Archives,         \* archive and unarchive requests
  SessionOf,        \* the session a run, a command or an archive request names
  ArchiveFlag,      \* TRUE for an archive request, FALSE for an unarchive request
  ToolKinds,        \* kinds of tool the provider may call
  MaxTurns,         \* bound: provider operations one run prepares
  MaxCalls,         \* MAX_TOOL_CALLS_PER_TURN
  MaxEntries,       \* MAX_TRANSCRIPT_ENTRIES
  NoRun             \* SQL NULL in session_run_states.active_run_id

ASSUME SessionOfAssumption ==
  /\ SessionOf \in [Runs \cup Commands \cup Archives -> Sessions]
  /\ ArchiveFlag \in [Archives -> BOOLEAN]
  /\ NoRun \notin Runs

\* read: a tool with no side effect; mutation: ToolKind::is_mutation; web: a
\* hosted web search, which is bound to a model when it is dispatched.
ASSUME ToolKindsAssumption == ToolKinds \subseteq {"read", "mutation", "web"}

ASSUME BoundAssumption ==
  MaxTurns \in Nat /\ MaxCalls \in Nat /\ MaxEntries \in Nat

Turns == 1..MaxTurns
Calls == 1..MaxCalls

TerminalRunStates == {"succeeded", "failed", "cancelled", "interrupted", "uncertain"}
LiveRunStates == {"accepted", "active"}
RunStates == {"none"} \cup LiveRunStates \cup TerminalRunStates

TerminalProviderFacts == {"completed", "failed", "uncertain", "abandoned"}
ProviderFacts == {"prepared", "dispatched"} \cup TerminalProviderFacts

TerminalToolFacts == {"completed", "not_dispatched", "interrupted", "uncertain"}
ToolFacts == {"prepared", "dispatched"} \cup TerminalToolFacts

LiveCommandStates == {"accepted", "active"}
TerminalCommandStates == {"completed", "interrupted", "uncertain"}
CommandStates == {"none"} \cup LiveCommandStates \cup TerminalCommandStates

VARIABLES
  runState,         \* runs.state
  cancelRequested,  \* runs.cancellation_requested
  activeRun,        \* session_run_states.active_run_id
  highWater,        \* session_run_states.entry_high_water
  providerFacts,    \* provider_operation_facts of a run's t-th operation
  sourceHighWater,  \* its source_entry_high_water
  toolCalls,        \* kinds of the tool calls its completion committed, in order
  toolFacts,        \* tool_operation_facts of its k-th call
  commandState,     \* local_commands.state
  commandCancel,    \* local_commands.cancellation_requested
  steeringTarget,   \* steering_queues.target_run_id, NoRun without a queue
  steeringPaused,   \* steering_queues.paused, TRUE without a queue
  archived,         \* sessions.archived
  archiveState,     \* session_archive_requests.state
  archiveLog        \* archive requests in accepted_sequence order

runVars == <<runState, cancelRequested, activeRun>>
providerVars == <<providerFacts, sourceHighWater>>
toolVars == <<toolCalls, toolFacts>>
commandVars == <<commandState, commandCancel>>
steeringVars == <<steeringTarget, steeringPaused>>
archiveVars == <<archived, archiveState, archiveLog>>
ledgerVars == <<runVars, highWater, providerVars, toolVars, commandVars,
                steeringVars, archiveVars>>

LedgerInit ==
  /\ runState = [r \in Runs |-> "none"]
  /\ cancelRequested = [r \in Runs |-> FALSE]
  /\ activeRun = [s \in Sessions |-> NoRun]
  /\ highWater = [s \in Sessions |-> 0]
  /\ providerFacts = [o \in Runs \X Turns |-> {}]
  /\ sourceHighWater = [o \in Runs \X Turns |-> 0]
  /\ toolCalls = [o \in Runs \X Turns |-> <<>>]
  /\ toolFacts = [o \in Runs \X Turns \X Calls |-> {}]
  /\ commandState = [c \in Commands |-> "none"]
  /\ commandCancel = [c \in Commands |-> FALSE]
  /\ steeringTarget = [s \in Sessions |-> NoRun]
  /\ steeringPaused = [s \in Sessions |-> TRUE]
  /\ archived = [s \in Sessions |-> FALSE]
  /\ archiveState = [a \in Archives |-> "none"]
  /\ archiveLog = <<>>

--------------------------------------------------------------------------------
(* What the queries of a transaction read. *)

IsLive(r) == runState[r] \in LiveRunStates

\* Mutant: a command that is accepted and not yet active is overlooked.
SessionCommandBusy_OnlyActive(s) ==
  \E c \in Commands : SessionOf[c] = s /\ commandState[c] = "active"

SessionCommandBusy(s) ==
  \E c \in Commands : SessionOf[c] = s /\ commandState[c] \in LiveCommandStates

\* Acceptance refuses a session that is archived or has ANY prepared archive.
SessionArchivedOrPending(s) ==
  \/ archived[s]
  \/ \E a \in Archives : /\ SessionOf[a] = s
                         /\ ArchiveFlag[a]
                         /\ archiveState[a] = "prepared"

\* Steering looks at the LATEST archive request of the session, applied or not.
LatestRequestArchives(s) ==
  \E i \in 1..Len(archiveLog) :
    /\ SessionOf[archiveLog[i]] = s
    /\ ArchiveFlag[archiveLog[i]]
    /\ \A j \in (i + 1)..Len(archiveLog) : SessionOf[archiveLog[j]] # s

ProviderPending(r, t) ==
  /\ "prepared" \in providerFacts[<<r, t>>]
  /\ providerFacts[<<r, t>>] \cap TerminalProviderFacts = {}

ProviderInFlight(r, t) == ProviderPending(r, t) /\ "dispatched" \in providerFacts[<<r, t>>]

\* turn_index is one more than the number of prepared facts of the run.
IsNextTurn(r, t) ==
  /\ providerFacts[<<r, t>>] = {}
  /\ \A u \in 1..(t - 1) : providerFacts[<<r, u>>] # {}

ToolSettled(r, t, k) == toolFacts[<<r, t, k>>] \cap TerminalToolFacts # {}

ToolPending(r, t, k) == "prepared" \in toolFacts[<<r, t, k>>] /\ ~ToolSettled(r, t, k)

(* steering_lifecycle::pause: the unpaused queues of the sessions ss whose *)
(* target is one of rs.                                                    *)
PauseSteering(ss, rs) ==
  [s \in Sessions |-> steeringPaused[s] \/ (s \in ss /\ steeringTarget[s] \in rs)]

(* append_run_transition: the run's state, the session's active run and,   *)
(* on a terminal state, the pause of a queue that targets the run.         *)
AppendRunTransition(r, state) ==
  /\ runState' = [runState EXCEPT ![r] = state]
  /\ activeRun' = [activeRun EXCEPT ![SessionOf[r]] =
                     IF state \in TerminalRunStates THEN NoRun ELSE r]
  /\ steeringPaused' = IF state \in TerminalRunStates
                         THEN PauseSteering({SessionOf[r]}, {r})
                         ELSE steeringPaused
  /\ UNCHANGED <<cancelRequested, steeringTarget>>

AddProviderFact(r, t, fact) ==
  /\ providerFacts' = [providerFacts EXCEPT ![<<r, t>>] = @ \cup {fact}]
  /\ UNCHANGED sourceHighWater

AppendEntries(s, n) == highWater' = [highWater EXCEPT ![s] = @ + n]

--------------------------------------------------------------------------------
(* Runs: acceptance, cancellation, activation and termination. *)

\* Room is reserved for the input and one answer.
CanAcceptInput(r) ==
  LET s == SessionOf[r] IN
  /\ runState[r] = "none"
  /\ ~SessionArchivedOrPending(s)
  /\ activeRun[s] = NoRun
  /\ ~SessionCommandBusy(s)
  /\ highWater[s] + 2 <= MaxEntries

AcceptSessionInput(r) ==
  LET s == SessionOf[r] IN
  /\ CanAcceptInput(r)
  /\ runState' = [runState EXCEPT ![r] = "accepted"]
  /\ activeRun' = [activeRun EXCEPT ![s] = r]
  /\ AppendEntries(s, 1)
  /\ UNCHANGED <<cancelRequested, providerVars, toolVars, commandVars, steeringVars, archiveVars>>

\* A cancellation of a terminal or already cancelled run only records its receipt.
CancelRun(r) ==
  /\ IsLive(r)
  /\ ~cancelRequested[r]
  /\ cancelRequested' = [cancelRequested EXCEPT ![r] = TRUE]
  /\ steeringPaused' = PauseSteering({SessionOf[r]}, {r})
  /\ UNCHANGED <<runState, activeRun, steeringTarget, highWater, providerVars, toolVars,
                 commandVars, archiveVars>>

ActivateRun(r) ==
  /\ IsLive(r)
  /\ AppendRunTransition(r, IF cancelRequested[r] THEN "cancelled" ELSE "active")
  /\ UNCHANGED <<highWater, providerVars, toolVars, commandVars, archiveVars>>

\* What stopping leaves of an operation: unknown once it was dispatched.
StoppedFact(r, t) == IF "dispatched" \in providerFacts[<<r, t>>] THEN "uncertain" ELSE "abandoned"

\* finish_run with no operation (t = 0), or with the pending operation t.
\* kind: "stopped", or the state a failure leaves the operation in: "failed" or
\* "uncertain".
FinishRun(r, t, kind) ==
  /\ IsLive(r)
  /\ IF t = 0
       THEN UNCHANGED providerVars
       ELSE /\ ProviderPending(r, t)
            /\ AddProviderFact(r, t, IF kind = "stopped" THEN StoppedFact(r, t) ELSE kind)
  /\ AppendRunTransition(r, IF kind # "stopped" THEN "failed"
                            ELSE IF cancelRequested[r] THEN "cancelled" ELSE "interrupted")
  /\ UNCHANGED <<highWater, toolVars, commandVars, archiveVars>>

--------------------------------------------------------------------------------
(* Provider operations. *)

\* The context the operation is prepared from must still be the session's.
CanPrepareProvider(r, t, source) ==
  /\ runState[r] = "active"
  /\ source = highWater[SessionOf[r]]
  /\ \A u \in Turns : ~ProviderPending(r, u)
  /\ IsNextTurn(r, t)

PrepareProviderOperation(r, t, source) ==
  /\ IsLive(r)
  /\ \/ /\ cancelRequested[r]
        /\ AppendRunTransition(r, "cancelled")
        /\ UNCHANGED providerVars
     \/ /\ ~cancelRequested[r]
        /\ CanPrepareProvider(r, t, source)
        /\ providerFacts' = [providerFacts EXCEPT ![<<r, t>>] = {"prepared"}]
        /\ sourceHighWater' = [sourceHighWater EXCEPT ![<<r, t>>] = source]
        /\ UNCHANGED <<runVars, steeringVars>>
  /\ UNCHANGED <<highWater, toolVars, commandVars, archiveVars>>

MarkProviderDispatched(r, t) ==
  /\ IsLive(r)
  /\ "prepared" \in providerFacts[<<r, t>>]
  /\ \/ /\ cancelRequested[r]
        /\ AddProviderFact(r, t, "abandoned")
        /\ AppendRunTransition(r, "cancelled")
     \/ /\ ~cancelRequested[r]
        /\ runState[r] = "active"
        /\ ProviderPending(r, t)
        /\ AddProviderFact(r, t, "dispatched")
        /\ UNCHANGED <<runVars, steeringVars>>
  /\ UNCHANGED <<highWater, toolVars, commandVars, archiveVars>>

\* An outcome commits only onto the transcript its request was built from.
SourceUnchanged(r, t) == sourceHighWater[<<r, t>>] = highWater[SessionOf[r]]

\* Mutant: a success overrides a cancellation that committed first.
CompleteRunSuccess_IgnoresCancel(r, t) ==
  /\ runState[r] = "active"
  /\ ProviderInFlight(r, t)
  /\ SourceUnchanged(r, t)
  /\ highWater[SessionOf[r]] + 1 <= MaxEntries
  /\ AddProviderFact(r, t, "completed")
  /\ AppendRunTransition(r, "succeeded")
  /\ AppendEntries(SessionOf[r], 1)
  /\ UNCHANGED <<toolVars, commandVars, archiveVars>>

CompleteRunSuccess(r, t) ==
  /\ runState[r] = "active"
  /\ ProviderInFlight(r, t)
  /\ AddProviderFact(r, t, "completed")
  /\ \/ /\ cancelRequested[r]
        /\ AppendRunTransition(r, "cancelled")
        /\ UNCHANGED highWater
     \/ /\ ~cancelRequested[r]
        /\ SourceUnchanged(r, t)
        /\ highWater[SessionOf[r]] + 1 <= MaxEntries
        /\ AppendRunTransition(r, "succeeded")
        /\ AppendEntries(SessionOf[r], 1)
  /\ UNCHANGED <<toolVars, commandVars, archiveVars>>

\* calls: the kinds of the turn's tool calls; commentary: 1 if it carries text.
CompleteProviderToolTurn(r, t, calls, commentary) ==
  /\ runState[r] = "active"
  /\ ProviderInFlight(r, t)
  /\ SourceUnchanged(r, t)
  /\ highWater[SessionOf[r]] + Len(calls) + commentary <= MaxEntries
  /\ AddProviderFact(r, t, "completed")
  /\ toolCalls' = [toolCalls EXCEPT ![<<r, t>>] = calls]
  /\ AppendEntries(SessionOf[r], Len(calls) + commentary)
  /\ UNCHANGED <<runVars, toolFacts, commandVars, steeringVars, archiveVars>>

\* The provider rejected the context: at most one such operation per run.
SettleContextRejection(r, t) ==
  /\ runState[r] = "active"
  /\ ~cancelRequested[r]
  /\ \A u \in Turns : providerFacts[<<r, u>>] \cap {"failed", "uncertain", "abandoned"} = {}
  /\ ProviderInFlight(r, t)
  /\ AddProviderFact(r, t, "failed")
  /\ UNCHANGED <<runVars, highWater, toolVars, commandVars, steeringVars, archiveVars>>

--------------------------------------------------------------------------------
(* Tool operations. *)

IsCall(r, t, k) == k <= Len(toolCalls[<<r, t>>])

AddToolFact(r, t, k, fact) ==
  /\ toolFacts' = [toolFacts EXCEPT ![<<r, t, k>>] = @ \cup {fact}]
  /\ UNCHANGED toolCalls

CanPrepareTool(r, t, k) ==
  /\ runState[r] = "active"
  /\ IsCall(r, t, k)
  /\ toolFacts[<<r, t, k>>] = {}
  /\ \A j \in 1..(k - 1) : ToolSettled(r, t, j)

PrepareToolOperation(r, t, k) ==
  /\ CanPrepareTool(r, t, k)
  /\ AddToolFact(r, t, k, "prepared")
  /\ UNCHANGED <<runVars, highWater, providerVars, commandVars, steeringVars, archiveVars>>

CanMarkToolDispatched(r, t, k) == runState[r] = "active" /\ ToolPending(r, t, k)

MarkToolDispatched(r, t, k) ==
  /\ CanMarkToolDispatched(r, t, k)
  /\ AddToolFact(r, t, k, "dispatched")
  /\ UNCHANGED <<runVars, highWater, providerVars, commandVars, steeringVars, archiveVars>>

\* "web_uncertain" is WebSearchUncertain; "failed" is any other tool error.
ToolResults ==
  {"ok", "failed", "uncertain", "web_uncertain", "interrupted", "cancelled", "not_dispatched"}

\* classify_result, on the results it accepts (a success must be dispatched).
ClassifyResult(result, dispatched) ==
  CASE dispatched /\ result \in {"uncertain", "web_uncertain"} -> "uncertain"
    [] dispatched /\ result \in {"interrupted", "cancelled"} -> "interrupted"
    [] ~dispatched /\ result \in {"interrupted", "cancelled", "not_dispatched"} -> "not_dispatched"
    [] OTHER -> "completed"

\* Under the current tool catalog an uncertain web search does not stop its run.
StopsRun(result) == result = "uncertain"

CanCompleteTool(r, t, k, result) ==
  /\ runState[r] = "active"
  /\ ToolPending(r, t, k)
  /\ result = "ok" => "dispatched" \in toolFacts[<<r, t, k>>]
  /\ highWater[SessionOf[r]] + 1 <= MaxEntries

CompleteToolResult(r, t, k, result) ==
  /\ CanCompleteTool(r, t, k, result)
  /\ AddToolFact(r, t, k, ClassifyResult(result, "dispatched" \in toolFacts[<<r, t, k>>]))
  /\ AppendEntries(SessionOf[r], 1)
  /\ IF StopsRun(result)
       THEN AppendRunTransition(r, "uncertain")
       ELSE UNCHANGED <<runVars, steeringVars>>
  /\ UNCHANGED <<providerVars, commandVars, archiveVars>>

--------------------------------------------------------------------------------
(* Local commands. *)

\* No room is reserved for the entry its completion will append.
CanAcceptCommand(c) ==
  /\ commandState[c] = "none"
  /\ ~SessionArchivedOrPending(SessionOf[c])
  /\ activeRun[SessionOf[c]] = NoRun
  /\ ~SessionCommandBusy(SessionOf[c])

AcceptLocalCommand(c) ==
  /\ CanAcceptCommand(c)
  /\ commandState' = [commandState EXCEPT ![c] = "accepted"]
  /\ UNCHANGED <<runVars, highWater, providerVars, toolVars, commandCancel, steeringVars,
                 archiveVars>>

\* A cancelled command is not activated: its supervisor completes it as cancelled.
ActivateLocalCommand(c) ==
  /\ commandState[c] = "accepted"
  /\ ~commandCancel[c]
  /\ commandState' = [commandState EXCEPT ![c] = "active"]
  /\ UNCHANGED <<runVars, highWater, providerVars, toolVars, commandCancel, steeringVars,
                 archiveVars>>

CancelLocalCommand(c) ==
  /\ commandState[c] \in LiveCommandStates
  /\ ~commandCancel[c]
  /\ commandCancel' = [commandCancel EXCEPT ![c] = TRUE]
  /\ UNCHANGED <<runVars, highWater, providerVars, toolVars, commandState, steeringVars,
                 archiveVars>>

CanCompleteCommand(c) ==
  commandState[c] \in LiveCommandStates /\ highWater[SessionOf[c]] + 1 <= MaxEntries

CompleteLocalCommand(c, state) ==
  /\ CanCompleteCommand(c)
  /\ commandState' = [commandState EXCEPT ![c] = state]
  /\ AppendEntries(SessionOf[c], 1)
  /\ UNCHANGED <<runVars, providerVars, toolVars, commandCancel, steeringVars, archiveVars>>

--------------------------------------------------------------------------------
(* The steering queue: its target and whether it is paused.  The queued   *)
(* texts and the revisions guarding their edits do not change either.      *)

CanMutateSteering(s) == ~archived[s] /\ ~LatestRequestArchives(s)

TargetAcceptsSteering(s, r) ==
  /\ SessionOf[r] = s
  /\ IsLive(r)
  /\ ~cancelRequested[r]
  /\ \A t \in Turns : "uncertain" \notin providerFacts[<<r, t>>]

\* The first message creates the queue, paused; a later one must name its target.
EnqueueSteering(s, r) ==
  /\ CanMutateSteering(s)
  /\ TargetAcceptsSteering(s, r)
  /\ steeringTarget[s] = NoRun
  /\ steeringTarget' = [steeringTarget EXCEPT ![s] = r]
  /\ UNCHANGED <<runVars, highWater, providerVars, toolVars, commandVars, steeringPaused,
                 archiveVars>>

PauseSteeringQueue(s) ==
  /\ CanMutateSteering(s)
  /\ steeringTarget[s] # NoRun
  /\ steeringPaused' = [steeringPaused EXCEPT ![s] = TRUE]
  /\ UNCHANGED <<runVars, highWater, providerVars, toolVars, commandVars, steeringTarget,
                 archiveVars>>

ResumeSteering(s, r) ==
  /\ CanMutateSteering(s)
  /\ TargetAcceptsSteering(s, r)
  /\ steeringTarget[s] # NoRun
  /\ steeringTarget' = [steeringTarget EXCEPT ![s] = r]
  /\ steeringPaused' = [steeringPaused EXCEPT ![s] = FALSE]
  /\ UNCHANGED <<runVars, highWater, providerVars, toolVars, commandVars, archiveVars>>

\* Recovery pauses every queue before it ends the runs they target.
PauseSteeringForRecovery ==
  /\ steeringPaused' = PauseSteering(Sessions, Runs)
  /\ UNCHANGED <<runVars, highWater, providerVars, toolVars, commandVars, steeringTarget,
                 archiveVars>>

--------------------------------------------------------------------------------
(* Archiving and unarchiving a session, in two transactions. *)

PrepareSessionArchive(a) ==
  LET s == SessionOf[a] IN
  /\ archiveState[a] = "none"
  /\ archiveState' = [archiveState EXCEPT ![a] = "prepared"]
  /\ archiveLog' = Append(archiveLog, a)
  /\ steeringPaused' = IF ArchiveFlag[a] THEN PauseSteering({s}, Runs) ELSE steeringPaused
  /\ UNCHANGED <<runVars, highWater, providerVars, toolVars, commandVars, steeringTarget,
                 archived>>

CompleteSessionArchive(a) ==
  LET s == SessionOf[a] IN
  /\ archiveState[a] = "prepared"
  /\ activeRun[s] = NoRun
  /\ ~SessionCommandBusy(s)
  /\ archived' = [archived EXCEPT ![s] = ArchiveFlag[a]]
  /\ archiveState' = [archiveState EXCEPT ![a] = "applied"]
  /\ UNCHANGED <<runVars, highWater, providerVars, toolVars, commandVars, steeringVars,
                 archiveLog>>

--------------------------------------------------------------------------------
(* The ledger under callers that keep its protocol: an outcome is reported *)
(* for the operation the caller was given, which is the pending one.       *)

\* The batches of tool calls a completed provider turn may carry.
CallBatches == UNION {[1..n -> ToolKinds] : n \in Calls}

\* The run's task holds no provider operation.
Quiet(r) == \A t \in Turns : ~ProviderPending(r, t)

RunStep(r) ==
  \/ AcceptSessionInput(r)
  \/ CancelRun(r)
  \/ Quiet(r) /\ ActivateRun(r)
  \/ Quiet(r) /\ \E kind \in {"stopped", "failed"} : FinishRun(r, 0, kind)

ProviderStep(r, t) ==
  \/ Quiet(r) /\ PrepareProviderOperation(r, t, highWater[SessionOf[r]])
  \/ /\ ProviderPending(r, t)
     /\ "dispatched" \notin providerFacts[<<r, t>>]
     /\ MarkProviderDispatched(r, t)
  \/ CompleteRunSuccess(r, t)
  \/ \E calls \in CallBatches, commentary \in {0, 1} :
       CompleteProviderToolTurn(r, t, calls, commentary)
  \/ SettleContextRejection(r, t)
  \/ \E kind \in {"stopped", "failed", "uncertain"} : FinishRun(r, t, kind)

\* Tools run between provider operations; only a dispatched call can be uncertain.
ToolStep(r, t, k) ==
  /\ Quiet(r)
  /\ \/ PrepareToolOperation(r, t, k)
     \/ "dispatched" \notin toolFacts[<<r, t, k>>] /\ MarkToolDispatched(r, t, k)
     \/ \E result \in ToolResults :
          /\ result \in {"uncertain", "web_uncertain"} => "dispatched" \in toolFacts[<<r, t, k>>]
          /\ CompleteToolResult(r, t, k, result)

CommandStep(c) ==
  \/ AcceptLocalCommand(c)
  \/ ActivateLocalCommand(c)
  \/ CancelLocalCommand(c)
  \/ \E state \in TerminalCommandStates : CompleteLocalCommand(c, state)

SteeringStep(s) ==
  \/ \E r \in Runs : EnqueueSteering(s, r) \/ ResumeSteering(s, r)
  \/ PauseSteeringQueue(s)

ArchiveStep(a) == PrepareSessionArchive(a) \/ CompleteSessionArchive(a)

LedgerNext ==
  \/ \E r \in Runs :
       \/ RunStep(r)
       \/ \E t \in Turns : ProviderStep(r, t) \/ \E k \in Calls : ToolStep(r, t, k)
  \/ \E c \in Commands : CommandStep(c)
  \/ \E s \in Sessions : SteeringStep(s)
  \/ PauseSteeringForRecovery
  \/ \E a \in Archives : ArchiveStep(a)

LedgerSpec == LedgerInit /\ [][LedgerNext]_ledgerVars

--------------------------------------------------------------------------------
(* Properties. *)

\* The tables hold the values their columns allow, and a transcript never
\* exceeds MAX_TRANSCRIPT_ENTRIES.
LedgerTypeOK ==
  /\ runState \in [Runs -> RunStates]
  /\ cancelRequested \in [Runs -> BOOLEAN]
  /\ activeRun \in [Sessions -> Runs \cup {NoRun}]
  /\ highWater \in [Sessions -> 0..MaxEntries]
  /\ providerFacts \in [Runs \X Turns -> SUBSET ProviderFacts]
  /\ sourceHighWater \in [Runs \X Turns -> 0..MaxEntries]
  /\ toolCalls \in [Runs \X Turns -> Seq(ToolKinds)]
  /\ toolFacts \in [Runs \X Turns \X Calls -> SUBSET ToolFacts]
  /\ commandState \in [Commands -> CommandStates]
  /\ commandCancel \in [Commands -> BOOLEAN]
  /\ steeringTarget \in [Sessions -> Runs \cup {NoRun}]
  /\ steeringPaused \in [Sessions -> BOOLEAN]
  /\ archived \in [Sessions -> BOOLEAN]
  /\ archiveState \in [Archives -> {"none", "prepared", "applied"}]
  /\ archiveLog \in Seq(Archives)

\* session_run_states.active_run_id names exactly the session's live run, so a
\* session never has two (append_run_transition, accept_session_input).
ActiveRunAgrees ==
  \A s \in Sessions, r \in Runs : activeRun[s] = r <=> SessionOf[r] = s /\ IsLive(r)

\* A session has at most one live command and never one beside a live run, though
\* acceptance of the two reads different tables (SessionBusy, SessionCommandBusy).
SessionIsExclusive ==
  \A c \in Commands : commandState[c] \in LiveCommandStates =>
    /\ \A r \in Runs : SessionOf[r] = SessionOf[c] => ~IsLive(r)
    /\ \A d \in Commands \ {c} :
         SessionOf[d] = SessionOf[c] => commandState[d] \notin LiveCommandStates

\* A run has at most one provider operation pending, and only while it is live:
\* a terminal run leaves no operation without a terminal fact.
PendingOperationNeedsLiveRun ==
  \A r \in Runs, t \in Turns : ProviderPending(r, t) =>
    IsLive(r) /\ \A u \in Turns \ {t} : ~ProviderPending(r, u)

\* While an operation is pending no entry is appended to its session, by the run
\* or by anyone else: its outcome commits onto the context it was built from.
PendingOperationSeesTranscript ==
  \A r \in Runs, t \in Turns : ProviderPending(r, t) => SourceUnchanged(r, t)

\* A cancellation the ledger accepted before the outcome committed prevails: the
\* run never succeeds, and only a cancelled run ends as cancelled.
CancellationPrevails ==
  \A r \in Runs :
    /\ cancelRequested[r] => runState[r] \notin {"none", "succeeded", "interrupted"}
    /\ runState[r] = "cancelled" => cancelRequested[r]

\* What a transaction may not do: move a terminal run or its cancellation flag, or
\* withdraw a fact.
KeepsHistory ==
  \A r \in Runs :
    /\ runState[r] \in TerminalRunStates =>
         runState'[r] = runState[r] /\ cancelRequested'[r] = cancelRequested[r]
    /\ \A t \in Turns :
         /\ providerFacts[<<r, t>>] \subseteq providerFacts'[<<r, t>>]
         /\ \A k \in Calls : toolFacts[<<r, t, k>>] \subseteq toolFacts'[<<r, t, k>>]

\* A terminal run stays as it ended, its cancellation flag included, and no fact
\* is ever withdrawn.
TerminalRunsAreFinal == [][KeepsHistory]_ledgerVars

(* Refinement: the tables of the ledger as the runs of RunContract. *)

Status ==
  [r \in Runs |-> IF runState[r] = "none" THEN "new"
                   ELSE IF IsLive(r) THEN "live" ELSE runState[r]]

Contract == INSTANCE RunContract WITH status <- Status, intent <- cancelRequested

\* The ledger keeps the promise of RunContract: one live run per session although
\* acceptance reads only session_run_states, one outcome per run, and none that
\* contradicts an accepted cancellation.
ImplementsContract == Contract!ContractSpec
================================================================================

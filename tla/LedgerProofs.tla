------------------------------ MODULE LedgerProofs -----------------------------
(***************************************************************************)
(* Theorems about SessionLedger and about LedgerFacts, the rows behind it, *)
(* for any number of sessions, runs, commands, turns, calls and entries.   *)
(* The first half is about the transactions alone; the second shows that   *)
(* after any history of them the next start accepts every row and rebuilds *)
(* the projections that were there.                                        *)
(***************************************************************************)
EXTENDS LedgerFacts, FiniteSetTheorems, FunctionTheorems, SequenceTheorems, TLAPS

--------------------------------------------------------------------------------
(* Type correctness. *)

\* The helper every run transition goes through keeps the run tables' types.
LEMMA RunTransitionType ==
  ASSUME LedgerTypeOK, NEW r \in Runs, NEW state \in RunStates,
         AppendRunTransition(r, state)
  PROVE  /\ runState' \in [Runs -> RunStates]
         /\ cancelRequested' \in [Runs -> BOOLEAN]
         /\ activeRun' \in [Sessions -> Runs \cup {NoRun}]
         /\ steeringTarget' \in [Sessions -> Runs \cup {NoRun}]
         /\ steeringPaused' \in [Sessions -> BOOLEAN]
  <1>1. SessionOf[r] \in Sessions
    BY SessionOfAssumption
  <1>2. steeringPaused' \in [Sessions -> BOOLEAN]
    BY DEF AppendRunTransition, PauseSteering, LedgerTypeOK
  <1> QED
    BY <1>1, <1>2 DEF AppendRunTransition, LedgerTypeOK

\* A fact added to an operation keeps the fact table's type.
LEMMA ProviderFactType ==
  ASSUME LedgerTypeOK, NEW r \in Runs, NEW t \in Turns, NEW fact \in ProviderFacts,
         AddProviderFact(r, t, fact)
  PROVE  /\ providerFacts' \in [Runs \X Turns -> SUBSET ProviderFacts]
         /\ sourceHighWater' \in [Runs \X Turns -> 0..MaxEntries]
  BY DEF AddProviderFact, LedgerTypeOK

\* A fact added to a tool call keeps the fact table's type.
LEMMA ToolFactType ==
  ASSUME LedgerTypeOK, NEW r \in Runs, NEW t \in Turns, NEW k \in Calls,
         NEW fact \in ToolFacts, AddToolFact(r, t, k, fact)
  PROVE  /\ toolCalls' \in [Runs \X Turns -> Seq(ToolKinds)]
         /\ toolFacts' \in [Runs \X Turns \X Calls -> SUBSET ToolFacts]
  BY DEF AddToolFact, LedgerTypeOK

\* Entries appended within the limit keep the high water in its range.
LEMMA AppendEntriesType ==
  ASSUME LedgerTypeOK, NEW s \in Sessions, NEW n \in Nat,
         highWater[s] + n <= MaxEntries, AppendEntries(s, n)
  PROVE  highWater' \in [Sessions -> 0..MaxEntries]
  BY BoundAssumption DEF AppendEntries, LedgerTypeOK

\* The empty tables are well typed.
LEMMA TypeInit == LedgerInit => LedgerTypeOK
  BY BoundAssumption DEF LedgerInit, LedgerTypeOK, RunStates, CommandStates

\* The steps of a run keep the tables well typed.
LEMMA RunStepType ==
  ASSUME LedgerTypeOK, NEW r \in Runs, RunStep(r)
  PROVE  LedgerTypeOK'
  <1>0. SessionOf[r] \in Sessions
    BY SessionOfAssumption
  <1>1. CASE AcceptSessionInput(r)
    <2>1. /\ highWater[SessionOf[r]] \in 0..MaxEntries
          /\ highWater[SessionOf[r]] + 2 <= MaxEntries
      BY <1>0, <1>1 DEF AcceptSessionInput, CanAcceptInput, LedgerTypeOK
    <2>2. highWater' \in [Sessions -> 0..MaxEntries]
      BY <1>0, <1>1, <2>1, AppendEntriesType, BoundAssumption DEF AcceptSessionInput
    <2> QED
      BY <1>0, <1>1, <2>2
      DEF AcceptSessionInput, LedgerTypeOK, RunStates, LiveRunStates, providerVars, toolVars,
          commandVars, steeringVars, archiveVars
  <1>2. CASE CancelRun(r)
    BY <1>2 DEF CancelRun, PauseSteering, LedgerTypeOK, providerVars, toolVars, commandVars,
                archiveVars
  <1>3. CASE Quiet(r) /\ ActivateRun(r)
    <2>1. PICK state \in RunStates : AppendRunTransition(r, state)
      BY <1>3 DEF ActivateRun, RunStates, LiveRunStates, TerminalRunStates
    <2> QED
      BY <1>3, <2>1, RunTransitionType
      DEF ActivateRun, LedgerTypeOK, providerVars, toolVars, commandVars, archiveVars
  <1>4. ASSUME NEW kind \in {"stopped", "failed"}, FinishRun(r, 0, kind)
        PROVE  LedgerTypeOK'
    <2>1. PICK state \in RunStates : AppendRunTransition(r, state)
      BY <1>4 DEF FinishRun, RunStates, LiveRunStates, TerminalRunStates
    <2> QED
      BY <1>4, <2>1, RunTransitionType
      DEF FinishRun, LedgerTypeOK, providerVars, toolVars, commandVars, archiveVars
  <1> QED
    BY <1>1, <1>2, <1>3, <1>4 DEF RunStep

\* The steps of a provider operation keep the tables well typed.
LEMMA ProviderStepType ==
  ASSUME LedgerTypeOK, NEW r \in Runs, NEW t \in Turns, ProviderStep(r, t)
  PROVE  LedgerTypeOK'
  <1>0. SessionOf[r] \in Sessions
    BY SessionOfAssumption
  <1>1. CASE PrepareProviderOperation(r, t, highWater[SessionOf[r]])
    <2>1. CASE cancelRequested[r]
      <3>1. AppendRunTransition(r, "cancelled") /\ UNCHANGED providerVars
        BY <1>1, <2>1 DEF PrepareProviderOperation
      <3> QED
        BY <1>1, <3>1, RunTransitionType
        DEF PrepareProviderOperation, LedgerTypeOK, RunStates, TerminalRunStates, providerVars,
            toolVars, commandVars, archiveVars
    <2>2. CASE ~cancelRequested[r]
      <3>1. /\ providerFacts' = [providerFacts EXCEPT ![<<r, t>>] = {"prepared"}]
            /\ sourceHighWater' =
                 [sourceHighWater EXCEPT ![<<r, t>>] = highWater[SessionOf[r]]]
            /\ UNCHANGED <<runVars, steeringVars>>
        BY <1>1, <2>2 DEF PrepareProviderOperation
      <3>2. highWater[SessionOf[r]] \in 0..MaxEntries
        BY <1>0 DEF LedgerTypeOK
      <3>3. providerFacts' \in [Runs \X Turns -> SUBSET ProviderFacts]
        BY <3>1 DEF LedgerTypeOK, ProviderFacts
      <3>4. sourceHighWater' \in [Runs \X Turns -> 0..MaxEntries]
        BY <3>1, <3>2 DEF LedgerTypeOK
      <3> QED
        BY <1>1, <3>1, <3>3, <3>4
        DEF PrepareProviderOperation, LedgerTypeOK, runVars, steeringVars, toolVars,
            commandVars, archiveVars
    <2> QED
      BY <2>1, <2>2
  <1>2. CASE MarkProviderDispatched(r, t)
    <2>1. CASE cancelRequested[r]
      <3>1. AppendRunTransition(r, "cancelled") /\ AddProviderFact(r, t, "abandoned")
        BY <1>2, <2>1 DEF MarkProviderDispatched
      <3> QED
        BY <1>2, <3>1, RunTransitionType, ProviderFactType
        DEF MarkProviderDispatched, LedgerTypeOK, RunStates, TerminalRunStates, ProviderFacts,
            TerminalProviderFacts, toolVars, commandVars, archiveVars
    <2>2. CASE ~cancelRequested[r]
      <3>1. AddProviderFact(r, t, "dispatched") /\ UNCHANGED <<runVars, steeringVars>>
        BY <1>2, <2>2 DEF MarkProviderDispatched
      <3> QED
        BY <1>2, <3>1, ProviderFactType
        DEF MarkProviderDispatched, LedgerTypeOK, ProviderFacts, runVars, steeringVars,
            toolVars, commandVars, archiveVars
    <2> QED
      BY <2>1, <2>2
  <1>3. CASE CompleteRunSuccess(r, t)
    <2>1. /\ providerFacts' \in [Runs \X Turns -> SUBSET ProviderFacts]
          /\ sourceHighWater' \in [Runs \X Turns -> 0..MaxEntries]
      BY <1>3, ProviderFactType DEF CompleteRunSuccess, ProviderFacts, TerminalProviderFacts
    <2>2. PICK state \in RunStates : AppendRunTransition(r, state)
      BY <1>3 DEF CompleteRunSuccess, RunStates, TerminalRunStates
    <2>3. highWater' \in [Sessions -> 0..MaxEntries]
      BY <1>0, <1>3, AppendEntriesType DEF CompleteRunSuccess, LedgerTypeOK
    <2> QED
      BY <1>3, <2>1, <2>2, <2>3, RunTransitionType
      DEF CompleteRunSuccess, LedgerTypeOK, toolVars, commandVars, archiveVars
  <1>4. ASSUME NEW calls \in CallBatches, NEW commentary \in {0, 1},
               CompleteProviderToolTurn(r, t, calls, commentary)
        PROVE  LedgerTypeOK'
    <2>1. calls \in Seq(ToolKinds) /\ Len(calls) \in Nat
      <3>1. PICK n \in Calls : calls \in [1..n -> ToolKinds]
        BY <1>4 DEF CallBatches
      <3> QED
        BY <3>1, BoundAssumption DEF Calls
    <2>2. /\ providerFacts' \in [Runs \X Turns -> SUBSET ProviderFacts]
          /\ sourceHighWater' \in [Runs \X Turns -> 0..MaxEntries]
      BY <1>4, ProviderFactType DEF CompleteProviderToolTurn, ProviderFacts,
                                    TerminalProviderFacts
    <2>3. highWater[SessionOf[r]] + (Len(calls) + commentary) <= MaxEntries
      BY <1>0, <1>4, <2>1 DEF CompleteProviderToolTurn, LedgerTypeOK
    <2>4. highWater' \in [Sessions -> 0..MaxEntries]
      BY <1>0, <1>4, <2>1, <2>3, AppendEntriesType DEF CompleteProviderToolTurn
    <2> QED
      BY <1>4, <2>1, <2>2, <2>4
      DEF CompleteProviderToolTurn, LedgerTypeOK, runVars, commandVars, steeringVars,
          archiveVars
  <1>5. CASE SettleContextRejection(r, t)
    BY <1>5, ProviderFactType
    DEF SettleContextRejection, LedgerTypeOK, ProviderFacts, TerminalProviderFacts, runVars,
        toolVars, commandVars, steeringVars, archiveVars
  <1>6. ASSUME NEW kind \in {"stopped", "failed", "uncertain"}, FinishRun(r, t, kind)
        PROVE  LedgerTypeOK'
    <2>1. PICK state \in RunStates : AppendRunTransition(r, state)
      BY <1>6 DEF FinishRun, RunStates, LiveRunStates, TerminalRunStates
    <2>2. PICK fact \in ProviderFacts : AddProviderFact(r, t, fact)
      <3>1. t # 0
        BY BoundAssumption DEF Turns
      <3> QED
        BY <1>6, <3>1 DEF FinishRun, StoppedFact, ProviderFacts, TerminalProviderFacts
    <2> QED
      BY <1>6, <2>1, <2>2, RunTransitionType, ProviderFactType
      DEF FinishRun, LedgerTypeOK, toolVars, commandVars, archiveVars
  <1> QED
    BY <1>1, <1>2, <1>3, <1>4, <1>5, <1>6 DEF ProviderStep

\* The steps of a tool call keep the tables well typed.
LEMMA ToolStepType ==
  ASSUME LedgerTypeOK, NEW r \in Runs, NEW t \in Turns, NEW k \in Calls, ToolStep(r, t, k)
  PROVE  LedgerTypeOK'
  <1>0. SessionOf[r] \in Sessions
    BY SessionOfAssumption
  <1>1. CASE PrepareToolOperation(r, t, k)
    BY <1>1, ToolFactType
    DEF PrepareToolOperation, LedgerTypeOK, ToolFacts, runVars, providerVars, commandVars,
        steeringVars, archiveVars
  <1>2. CASE MarkToolDispatched(r, t, k)
    BY <1>2, ToolFactType
    DEF MarkToolDispatched, LedgerTypeOK, ToolFacts, runVars, providerVars, commandVars,
        steeringVars, archiveVars
  <1>3. ASSUME NEW result \in ToolResults, CompleteToolResult(r, t, k, result)
        PROVE  LedgerTypeOK'
    <2>1. PICK fact \in ToolFacts : AddToolFact(r, t, k, fact)
      BY <1>3 DEF CompleteToolResult, ClassifyResult, ToolFacts, TerminalToolFacts
    <2>2. highWater' \in [Sessions -> 0..MaxEntries]
      BY <1>0, <1>3, AppendEntriesType DEF CompleteToolResult, CanCompleteTool
    <2>3. /\ runState' \in [Runs -> RunStates]
          /\ cancelRequested' \in [Runs -> BOOLEAN]
          /\ activeRun' \in [Sessions -> Runs \cup {NoRun}]
          /\ steeringTarget' \in [Sessions -> Runs \cup {NoRun}]
          /\ steeringPaused' \in [Sessions -> BOOLEAN]
      <3>1. CASE StopsRun(result)
        BY <1>3, <3>1, RunTransitionType DEF CompleteToolResult, RunStates, TerminalRunStates
      <3>2. CASE ~StopsRun(result)
        BY <1>3, <3>2 DEF CompleteToolResult, LedgerTypeOK, runVars, steeringVars
      <3> QED
        BY <3>1, <3>2
    <2> QED
      BY <1>3, <2>1, <2>2, <2>3, ToolFactType
      DEF CompleteToolResult, LedgerTypeOK, providerVars, commandVars, archiveVars
  <1> QED
    BY <1>1, <1>2, <1>3 DEF ToolStep

\* The steps of a local command keep the tables well typed.
LEMMA CommandStepType ==
  ASSUME LedgerTypeOK, NEW c \in Commands, CommandStep(c)
  PROVE  LedgerTypeOK'
  <1>0. SessionOf[c] \in Sessions
    BY SessionOfAssumption
  <1>1. CASE AcceptLocalCommand(c) \/ ActivateLocalCommand(c) \/ CancelLocalCommand(c)
    BY <1>1
    DEF AcceptLocalCommand, ActivateLocalCommand, CancelLocalCommand, LedgerTypeOK,
        CommandStates, LiveCommandStates, runVars, providerVars, toolVars, steeringVars,
        archiveVars
  <1>2. ASSUME NEW state \in TerminalCommandStates, CompleteLocalCommand(c, state)
        PROVE  LedgerTypeOK'
    <2>1. highWater' \in [Sessions -> 0..MaxEntries]
      BY <1>0, <1>2, AppendEntriesType DEF CompleteLocalCommand, CanCompleteCommand
    <2> QED
      BY <1>2, <2>1
      DEF CompleteLocalCommand, CanCompleteCommand, LedgerTypeOK, CommandStates, runVars,
          providerVars, toolVars, steeringVars, archiveVars
  <1> QED
    BY <1>1, <1>2 DEF CommandStep

\* The steps of a steering queue keep the tables well typed.
LEMMA SteeringStepType ==
  ASSUME LedgerTypeOK, NEW s \in Sessions, SteeringStep(s)
  PROVE  LedgerTypeOK'
  <1>1. ASSUME NEW r \in Runs, EnqueueSteering(s, r) PROVE LedgerTypeOK'
    BY <1>1 DEF EnqueueSteering, LedgerTypeOK, runVars, providerVars, toolVars, commandVars,
                archiveVars
  <1>2. ASSUME NEW r \in Runs, ResumeSteering(s, r) PROVE LedgerTypeOK'
    BY <1>2 DEF ResumeSteering, LedgerTypeOK, runVars, providerVars, toolVars, commandVars,
                archiveVars
  <1>3. CASE PauseSteeringQueue(s)
    BY <1>3 DEF PauseSteeringQueue, LedgerTypeOK, runVars, providerVars, toolVars, commandVars,
                archiveVars
  <1> QED
    BY <1>1, <1>2, <1>3 DEF SteeringStep

\* Pausing every queue keeps the tables well typed.
LEMMA RecoveryPauseType ==
  ASSUME LedgerTypeOK, PauseSteeringForRecovery
  PROVE  LedgerTypeOK'
  BY DEF PauseSteeringForRecovery, PauseSteering, LedgerTypeOK, runVars, providerVars, toolVars,
         commandVars, archiveVars

\* The steps of an archive request keep the tables well typed.
LEMMA ArchiveStepType ==
  ASSUME LedgerTypeOK, NEW a \in Archives, ArchiveStep(a)
  PROVE  LedgerTypeOK'
  <1>0. SessionOf[a] \in Sessions /\ ArchiveFlag[a] \in BOOLEAN
    BY SessionOfAssumption
  <1>1. CASE PrepareSessionArchive(a)
    BY <1>0, <1>1
    DEF PrepareSessionArchive, PauseSteering, LedgerTypeOK, runVars, providerVars, toolVars,
        commandVars
  <1>2. CASE CompleteSessionArchive(a)
    BY <1>0, <1>2
    DEF CompleteSessionArchive, LedgerTypeOK, runVars, providerVars, toolVars, commandVars,
        steeringVars
  <1> QED
    BY <1>1, <1>2 DEF ArchiveStep

\* Every transaction keeps the tables well typed.
LEMMA TypeNext == LedgerTypeOK /\ [LedgerNext]_ledgerVars => LedgerTypeOK'
  <1> SUFFICES ASSUME LedgerTypeOK, [LedgerNext]_ledgerVars PROVE LedgerTypeOK'
    OBVIOUS
  <1>1. CASE UNCHANGED ledgerVars
    BY <1>1 DEF LedgerTypeOK, ledgerVars, runVars, providerVars, toolVars, commandVars,
                steeringVars, archiveVars
  <1>2. CASE LedgerNext
    BY <1>2, RunStepType, ProviderStepType, ToolStepType, CommandStepType, SteeringStepType,
       RecoveryPauseType, ArchiveStepType
    DEF LedgerNext
  <1> QED
    BY <1>1, <1>2

\* The columns of the ledger always hold values of their types, and no transcript
\* exceeds MAX_TRANSCRIPT_ENTRIES, whatever the limit is.
THEOREM TypeCorrect == LedgerSpec => []LedgerTypeOK
  BY TypeInit, TypeNext, PTL DEF LedgerSpec

--------------------------------------------------------------------------------
(* What a transaction can do to the runs. *)

\* The states a live run may be moved to, given its cancellation flag.
MayBecome(r, state) ==
  /\ state \in TerminalRunStates \cup {"active"}
  /\ state \in {"active", "succeeded", "interrupted"} => ~cancelRequested[r]
  /\ state = "cancelled" => cancelRequested[r]

\* A transaction accepts a run, cancels one, moves a live run through
\* append_run_transition, or leaves the run tables alone.
RunEffect ==
  \/ \E r \in Runs : AcceptSessionInput(r)
  \/ \E r \in Runs : CancelRun(r)
  \/ \E r \in Runs, state \in RunStates :
       /\ IsLive(r)
       /\ MayBecome(r, state)
       /\ AppendRunTransition(r, state)
       /\ UNCHANGED commandState
  \/ UNCHANGED runVars

\* A finished run ends as its kind and its cancellation flag say.
LEMMA FinishRunEffect ==
  ASSUME LedgerTypeOK, NEW r \in Runs, NEW t, NEW kind, FinishRun(r, t, kind)
  PROVE  RunEffect
  <1>1. cancelRequested[r] \in BOOLEAN
    BY DEF LedgerTypeOK
  <1>2. CASE kind # "stopped"
    BY <1>2 DEF FinishRun, RunEffect, MayBecome, RunStates, TerminalRunStates, commandVars
  <1>3. CASE kind = "stopped" /\ cancelRequested[r]
    BY <1>3 DEF FinishRun, RunEffect, MayBecome, RunStates, TerminalRunStates, commandVars
  <1>4. CASE kind = "stopped" /\ ~cancelRequested[r]
    BY <1>4 DEF FinishRun, RunEffect, MayBecome, RunStates, TerminalRunStates, commandVars
  <1> QED
    BY <1>2, <1>3, <1>4

\* The steps of a run have one of the four effects.
LEMMA RunStepEffect ==
  ASSUME LedgerTypeOK, NEW r \in Runs, RunStep(r)
  PROVE  RunEffect
  <1>1. CASE AcceptSessionInput(r) \/ CancelRun(r)
    BY <1>1 DEF RunEffect
  <1>2. CASE ActivateRun(r)
    <2>1. CASE cancelRequested[r]
      BY <1>2, <2>1 DEF ActivateRun, RunEffect, MayBecome, RunStates, TerminalRunStates,
                        commandVars
    <2>2. CASE ~cancelRequested[r]
      BY <1>2, <2>2 DEF ActivateRun, RunEffect, MayBecome, RunStates, LiveRunStates,
                        commandVars
    <2> QED
      BY <2>1, <2>2
  <1>3. ASSUME NEW kind, FinishRun(r, 0, kind) PROVE RunEffect
    BY <1>3, FinishRunEffect
  <1> QED
    BY <1>1, <1>2, <1>3 DEF RunStep

\* So do the steps of a provider operation.
LEMMA ProviderStepEffect ==
  ASSUME LedgerTypeOK, NEW r \in Runs, NEW t \in Turns, ProviderStep(r, t)
  PROVE  RunEffect
  <1>1. CASE PrepareProviderOperation(r, t, highWater[SessionOf[r]])
    BY <1>1 DEF PrepareProviderOperation, RunEffect, MayBecome, RunStates, TerminalRunStates,
                commandVars
  <1>2. CASE MarkProviderDispatched(r, t)
    BY <1>2 DEF MarkProviderDispatched, RunEffect, MayBecome, RunStates, TerminalRunStates,
                commandVars
  <1>3. CASE CompleteRunSuccess(r, t)
    <2>1. IsLive(r) /\ UNCHANGED commandState
      BY <1>3 DEF CompleteRunSuccess, IsLive, LiveRunStates, commandVars
    <2>2. CASE cancelRequested[r]
      BY <1>3, <2>1, <2>2 DEF CompleteRunSuccess, RunEffect, MayBecome, RunStates,
                              TerminalRunStates
    <2>3. CASE ~cancelRequested[r]
      BY <1>3, <2>1, <2>3 DEF CompleteRunSuccess, RunEffect, MayBecome, RunStates,
                              TerminalRunStates
    <2> QED
      BY <2>2, <2>3
  <1>4. ASSUME NEW calls, NEW commentary, CompleteProviderToolTurn(r, t, calls, commentary)
        PROVE  RunEffect
    BY <1>4 DEF CompleteProviderToolTurn, RunEffect
  <1>5. CASE SettleContextRejection(r, t)
    BY <1>5 DEF SettleContextRejection, RunEffect
  <1>6. ASSUME NEW kind, FinishRun(r, t, kind) PROVE RunEffect
    BY <1>6, FinishRunEffect
  <1> QED
    BY <1>1, <1>2, <1>3, <1>4, <1>5, <1>6 DEF ProviderStep

\* And those of a tool call, which end the run only as uncertain.
LEMMA ToolStepEffect ==
  ASSUME LedgerTypeOK, NEW r \in Runs, NEW t \in Turns, NEW k \in Calls, ToolStep(r, t, k)
  PROVE  RunEffect
  <1>1. CASE PrepareToolOperation(r, t, k) \/ MarkToolDispatched(r, t, k)
    BY <1>1 DEF PrepareToolOperation, MarkToolDispatched, RunEffect
  <1>2. ASSUME NEW result, CompleteToolResult(r, t, k, result) PROVE RunEffect
    <2>1. IsLive(r) /\ UNCHANGED commandState
      BY <1>2 DEF CompleteToolResult, CanCompleteTool, IsLive, LiveRunStates, commandVars
    <2> QED
      BY <1>2, <2>1 DEF CompleteToolResult, RunEffect, MayBecome, RunStates, TerminalRunStates
  <1> QED
    BY <1>1, <1>2 DEF ToolStep

\* Every transaction has one of the four effects on the runs.
LEMMA NextEffect ==
  ASSUME LedgerTypeOK, [LedgerNext]_ledgerVars
  PROVE  RunEffect
  <1>1. CASE UNCHANGED ledgerVars
    BY <1>1 DEF RunEffect, ledgerVars
  <1>2. ASSUME NEW c \in Commands, CommandStep(c) PROVE RunEffect
    BY <1>2 DEF CommandStep, AcceptLocalCommand, ActivateLocalCommand, CancelLocalCommand,
                CompleteLocalCommand, RunEffect
  <1>3. ASSUME NEW s \in Sessions, SteeringStep(s) PROVE RunEffect
    BY <1>3 DEF SteeringStep, EnqueueSteering, ResumeSteering, PauseSteeringQueue, RunEffect
  <1>4. CASE PauseSteeringForRecovery
    BY <1>4 DEF PauseSteeringForRecovery, RunEffect
  <1>5. ASSUME NEW a \in Archives, ArchiveStep(a) PROVE RunEffect
    BY <1>5 DEF ArchiveStep, PrepareSessionArchive, CompleteSessionArchive, RunEffect
  <1> QED
    BY <1>1, <1>2, <1>3, <1>4, <1>5, RunStepEffect, ProviderStepEffect, ToolStepEffect
    DEF LedgerNext

--------------------------------------------------------------------------------
(* One live run per session, and no live command beside it. *)

\* active_run_id stays the name of the session's live run.
LEMMA ActiveRunStep ==
  ASSUME LedgerTypeOK, ActiveRunAgrees, RunEffect
  PROVE  ActiveRunAgrees'
  <1>1. ASSUME NEW r \in Runs, AcceptSessionInput(r) PROVE ActiveRunAgrees'
    <2>1. /\ SessionOf[r] \in Sessions /\ NoRun # r
          /\ activeRun[SessionOf[r]] = NoRun
          /\ runState' = [runState EXCEPT ![r] = "accepted"]
          /\ activeRun' = [activeRun EXCEPT ![SessionOf[r]] = r]
      BY <1>1, SessionOfAssumption DEF AcceptSessionInput, CanAcceptInput
    <2>2. \A q \in Runs : SessionOf[q] = SessionOf[r] => ~IsLive(q)
      BY <2>1, SessionOfAssumption DEF ActiveRunAgrees
    <2> QED
      BY <2>1, <2>2 DEF ActiveRunAgrees, LedgerTypeOK, IsLive, LiveRunStates
  <1>2. ASSUME NEW r \in Runs, CancelRun(r) PROVE ActiveRunAgrees'
    BY <1>2 DEF CancelRun, ActiveRunAgrees, IsLive
  <1>3. ASSUME NEW r \in Runs, NEW state \in RunStates, IsLive(r), MayBecome(r, state),
               AppendRunTransition(r, state)
        PROVE  ActiveRunAgrees'
    <2>1. SessionOf[r] \in Sessions /\ NoRun \notin Runs /\ activeRun[SessionOf[r]] = r
      BY <1>3, SessionOfAssumption DEF ActiveRunAgrees
    <2>2. runState' = [runState EXCEPT ![r] = state]
      BY <1>3 DEF AppendRunTransition
    <2>3. CASE state \in TerminalRunStates
      <3>1. activeRun' = [activeRun EXCEPT ![SessionOf[r]] = NoRun]
        BY <1>3, <2>3 DEF AppendRunTransition
      <3> QED
        BY <2>1, <2>2, <2>3, <3>1
        DEF ActiveRunAgrees, LedgerTypeOK, IsLive, LiveRunStates, TerminalRunStates
    <2>4. CASE state = "active"
      <3>1. activeRun' = [activeRun EXCEPT ![SessionOf[r]] = r]
        BY <1>3, <2>4 DEF AppendRunTransition, TerminalRunStates
      <3> QED
        BY <1>3, <2>1, <2>2, <2>4, <3>1 DEF ActiveRunAgrees, LedgerTypeOK, IsLive, LiveRunStates
    <2> QED
      BY <1>3, <2>3, <2>4 DEF MayBecome
  <1>4. CASE UNCHANGED runVars
    BY <1>4 DEF runVars, ActiveRunAgrees, IsLive
  <1> QED
    BY <1>1, <1>2, <1>3, <1>4 DEF RunEffect

\* A run becomes live only by acceptance.
LEMMA LiveOnlyByAcceptance ==
  ASSUME LedgerTypeOK, RunEffect, NEW r \in Runs, IsLive(r)', ~AcceptSessionInput(r)
  PROVE  IsLive(r)
  <1>1. ASSUME NEW q \in Runs, AcceptSessionInput(q) PROVE IsLive(r)
    BY <1>1 DEF AcceptSessionInput, LedgerTypeOK, IsLive
  <1>2. ASSUME NEW q \in Runs, CancelRun(q) PROVE IsLive(r)
    BY <1>2 DEF CancelRun, IsLive
  <1>3. ASSUME NEW q \in Runs, NEW state \in RunStates, IsLive(q), AppendRunTransition(q, state)
        PROVE  IsLive(r)
    BY <1>3 DEF AppendRunTransition, LedgerTypeOK, IsLive
  <1>4. CASE UNCHANGED runVars
    BY <1>4 DEF runVars, IsLive
  <1> QED
    BY <1>1, <1>2, <1>3, <1>4 DEF RunEffect

\* Only the steps of a command change commands, and they leave runs alone.
LEMMA CommandsKept ==
  ASSUME LedgerTypeOK, [LedgerNext]_ledgerVars
  PROVE  (\E c \in Commands : CommandStep(c)) \/ UNCHANGED commandState
  <1>1. ASSUME NEW r \in Runs, RunStep(r) PROVE UNCHANGED commandState
    BY <1>1 DEF RunStep, AcceptSessionInput, CancelRun, ActivateRun, FinishRun, commandVars
  <1>2. ASSUME NEW r \in Runs, NEW t \in Turns, ProviderStep(r, t) PROVE UNCHANGED commandState
    BY <1>2 DEF ProviderStep, PrepareProviderOperation, MarkProviderDispatched,
                CompleteRunSuccess, CompleteProviderToolTurn, SettleContextRejection, FinishRun,
                commandVars
  <1>3. ASSUME NEW r \in Runs, NEW t \in Turns, NEW k \in Calls, ToolStep(r, t, k)
        PROVE  UNCHANGED commandState
    BY <1>3 DEF ToolStep, PrepareToolOperation, MarkToolDispatched, CompleteToolResult,
                commandVars
  <1>4. ASSUME NEW s \in Sessions, SteeringStep(s) PROVE UNCHANGED commandState
    BY <1>4 DEF SteeringStep, EnqueueSteering, ResumeSteering, PauseSteeringQueue, commandVars
  <1>5. CASE PauseSteeringForRecovery
    BY <1>5 DEF PauseSteeringForRecovery, commandVars
  <1>6. ASSUME NEW a \in Archives, ArchiveStep(a) PROVE UNCHANGED commandState
    BY <1>6 DEF ArchiveStep, PrepareSessionArchive, CompleteSessionArchive, commandVars
  <1>7. CASE UNCHANGED ledgerVars
    BY <1>7 DEF ledgerVars, commandVars
  <1> QED
    BY <1>1, <1>2, <1>3, <1>4, <1>5, <1>6, <1>7 DEF LedgerNext

\* A session keeps at most one of a live run and a live command.
LEMMA ExclusiveStep ==
  ASSUME LedgerTypeOK, ActiveRunAgrees, SessionIsExclusive, RunEffect,
         [LedgerNext]_ledgerVars
  PROVE  SessionIsExclusive'
  <1>1. CASE UNCHANGED commandState
    <2>1. \A r \in Runs, c \in Commands :
            IsLive(r)' /\ commandState[c] \in LiveCommandStates => SessionOf[r] # SessionOf[c]
      <3>1. SUFFICES ASSUME NEW r \in Runs, NEW c \in Commands, IsLive(r)',
                            commandState[c] \in LiveCommandStates, SessionOf[r] = SessionOf[c]
                     PROVE  FALSE
        OBVIOUS
      <3>2. CASE AcceptSessionInput(r)
        BY <3>1, <3>2 DEF AcceptSessionInput, CanAcceptInput, SessionCommandBusy
      <3>3. CASE ~AcceptSessionInput(r)
        BY <3>1, <3>3, LiveOnlyByAcceptance DEF SessionIsExclusive
      <3> QED
        BY <3>2, <3>3
    <2> QED
      BY <1>1, <2>1 DEF SessionIsExclusive
  <1>2. ASSUME NEW c \in Commands, CommandStep(c) PROVE SessionIsExclusive'
    <2>0. UNCHANGED runState
      BY <1>2 DEF CommandStep, AcceptLocalCommand, ActivateLocalCommand, CancelLocalCommand,
                  CompleteLocalCommand, runVars
    <2>1. CASE AcceptLocalCommand(c)
      <3>1. /\ activeRun[SessionOf[c]] = NoRun
            /\ ~SessionCommandBusy(SessionOf[c])
            /\ commandState' = [commandState EXCEPT ![c] = "accepted"]
        BY <2>1 DEF AcceptLocalCommand, CanAcceptCommand
      <3>2. \A r \in Runs : SessionOf[r] = SessionOf[c] => ~IsLive(r)
        BY <3>1, SessionOfAssumption DEF ActiveRunAgrees
      <3> QED
        BY <2>0, <3>1, <3>2
        DEF SessionIsExclusive, SessionCommandBusy, LedgerTypeOK, LiveCommandStates, IsLive
    <2>2. CASE ~AcceptLocalCommand(c)
      <3>1. \A d \in Commands :
              commandState'[d] \in LiveCommandStates => commandState[d] \in LiveCommandStates
        BY <1>2, <2>2
        DEF CommandStep, ActivateLocalCommand, CancelLocalCommand, CompleteLocalCommand,
            CanCompleteCommand, LedgerTypeOK, LiveCommandStates, TerminalCommandStates
      <3> QED
        BY <2>0, <3>1 DEF SessionIsExclusive, IsLive
    <2> QED
      BY <2>1, <2>2
  <1> QED
    BY <1>1, <1>2, CommandsKept

\* A cancellation that was accepted prevails in every later state.
LEMMA CancellationStep ==
  ASSUME LedgerTypeOK, CancellationPrevails, RunEffect
  PROVE  CancellationPrevails'
  <1>1. ASSUME NEW r \in Runs, AcceptSessionInput(r) PROVE CancellationPrevails'
    BY <1>1 DEF AcceptSessionInput, CanAcceptInput, CancellationPrevails, LedgerTypeOK
  <1>2. ASSUME NEW r \in Runs, CancelRun(r) PROVE CancellationPrevails'
    BY <1>2 DEF CancelRun, CancellationPrevails, LedgerTypeOK, IsLive, LiveRunStates
  <1>3. ASSUME NEW r \in Runs, NEW state \in RunStates, IsLive(r), MayBecome(r, state),
               AppendRunTransition(r, state)
        PROVE  CancellationPrevails'
    BY <1>3 DEF AppendRunTransition, MayBecome, CancellationPrevails, LedgerTypeOK,
                TerminalRunStates
  <1>4. CASE UNCHANGED runVars
    BY <1>4 DEF runVars, CancellationPrevails
  <1> QED
    BY <1>1, <1>2, <1>3, <1>4 DEF RunEffect

--------------------------------------------------------------------------------
(* Provider operations in flight. *)

\* A terminal fact settles its operation and no other.
LEMMA SettlingFact ==
  ASSUME LedgerTypeOK, NEW r \in Runs, NEW t \in Turns, NEW fact \in TerminalProviderFacts,
         AddProviderFact(r, t, fact)
  PROVE  \A q \in Runs, u \in Turns :
           ProviderPending(q, u)' <=> ProviderPending(q, u) /\ <<q, u>> # <<r, t>>
  BY DEF AddProviderFact, ProviderPending, LedgerTypeOK

\* The dispatched fact settles none.
LEMMA DispatchedFact ==
  ASSUME LedgerTypeOK, NEW r \in Runs, NEW t \in Turns, AddProviderFact(r, t, "dispatched")
  PROVE  \A q \in Runs, u \in Turns : ProviderPending(q, u)' <=> ProviderPending(q, u)
  BY DEF AddProviderFact, ProviderPending, LedgerTypeOK, TerminalProviderFacts

\* A finished run leaves no operation pending, and the others as they were.
LEMMA FinishSettles ==
  ASSUME LedgerTypeOK, PendingOperationNeedsLiveRun, NEW r \in Runs, NEW t \in Turns,
         NEW kind \in {"stopped", "failed", "uncertain"}, FinishRun(r, t, kind)
  PROVE  /\ \A u \in Turns : ~ProviderPending(r, u)'
         /\ \A q \in Runs, u \in Turns : ProviderPending(q, u)' => ProviderPending(q, u)
  <1>1. t # 0
    BY BoundAssumption DEF Turns
  <1>2. ProviderPending(r, t)
    BY <1>1 DEF FinishRun
  <1>3. PICK fact \in TerminalProviderFacts : AddProviderFact(r, t, fact)
    BY <1>1 DEF FinishRun, StoppedFact, TerminalProviderFacts
  <1> QED
    BY <1>2, <1>3, SettlingFact DEF PendingOperationNeedsLiveRun

\* One fact of the run r and a change of its state alone keep the invariant.
LEMMA PendingKept ==
  ASSUME PendingOperationNeedsLiveRun, NEW r \in Runs,
         \A q \in Runs, u \in Turns : ProviderPending(q, u)' => ProviderPending(q, u),
         \A q \in Runs \ {r} : runState'[q] = runState[q],
         \A u \in Turns : ProviderPending(r, u)' => IsLive(r)'
  PROVE  PendingOperationNeedsLiveRun'
  BY DEF PendingOperationNeedsLiveRun, IsLive

\* A transition changes the state of its run alone.
LEMMA TransitionIsLocal ==
  ASSUME LedgerTypeOK, NEW r \in Runs, NEW state, AppendRunTransition(r, state)
  PROVE  \A q \in Runs \ {r} : runState'[q] = runState[q]
  BY DEF AppendRunTransition, LedgerTypeOK

\* The steps of a run settle the operation it holds or need it to hold none.
LEMMA PendingRunStep ==
  ASSUME LedgerTypeOK, PendingOperationNeedsLiveRun, NEW r \in Runs, RunStep(r)
  PROVE  PendingOperationNeedsLiveRun'
  <1>0. UNCHANGED providerFacts
    BY DEF RunStep, AcceptSessionInput, CancelRun, ActivateRun, FinishRun, providerVars
  <1>1. \A q \in Runs, u \in Turns : ProviderPending(q, u)' <=> ProviderPending(q, u)
    BY <1>0 DEF ProviderPending
  <1>2. CASE AcceptSessionInput(r)
    <2>1. \A q \in Runs \ {r} : runState'[q] = runState[q]
      BY <1>2 DEF AcceptSessionInput, LedgerTypeOK
    <2>2. IsLive(r)'
      BY <1>2 DEF AcceptSessionInput, LedgerTypeOK, IsLive, LiveRunStates
    <2> QED
      BY <1>1, <2>1, <2>2, PendingKept
  <1>3. CASE CancelRun(r)
    BY <1>1, <1>3 DEF CancelRun, PendingOperationNeedsLiveRun, IsLive
  <1>4. CASE Quiet(r) /\ \E state : AppendRunTransition(r, state)
    <2>1. \A u \in Turns : ~ProviderPending(r, u)'
      BY <1>1, <1>4 DEF Quiet
    <2>2. \A q \in Runs \ {r} : runState'[q] = runState[q]
      BY <1>4, TransitionIsLocal
    <2> QED
      BY <1>1, <2>1, <2>2, PendingKept
  <1> QED
    BY <1>2, <1>3, <1>4 DEF RunStep, ActivateRun, FinishRun

\* The steps of an operation: it is prepared alone, and ends before its run does.
LEMMA PendingProviderStep ==
  ASSUME LedgerTypeOK, PendingOperationNeedsLiveRun, NEW r \in Runs, NEW t \in Turns,
         ProviderStep(r, t)
  PROVE  PendingOperationNeedsLiveRun'
  <1>1. CASE Quiet(r) /\ PrepareProviderOperation(r, t, highWater[SessionOf[r]])
    <2>1. CASE cancelRequested[r]
      <3>1. UNCHANGED providerFacts /\ AppendRunTransition(r, "cancelled")
        BY <1>1, <2>1 DEF PrepareProviderOperation, providerVars
      <3>2. \A q \in Runs, u \in Turns : ProviderPending(q, u)' <=> ProviderPending(q, u)
        BY <3>1 DEF ProviderPending
      <3>3. \A q \in Runs \ {r} : runState'[q] = runState[q]
        BY <3>1, TransitionIsLocal
      <3> QED
        BY <1>1, <3>2, <3>3, PendingKept DEF Quiet
    <2>2. CASE ~cancelRequested[r]
      <3>1. /\ providerFacts' = [providerFacts EXCEPT ![<<r, t>>] = {"prepared"}]
            /\ UNCHANGED runState
            /\ IsLive(r)
        BY <1>1, <2>2 DEF PrepareProviderOperation, runVars
      <3>2. \A q \in Runs, u \in Turns :
              ProviderPending(q, u)' => ProviderPending(q, u) \/ (q = r /\ u = t)
        BY <3>1 DEF ProviderPending, LedgerTypeOK
      <3> QED
        BY <1>1, <3>1, <3>2 DEF PendingOperationNeedsLiveRun, Quiet, IsLive
    <2> QED
      BY <2>1, <2>2 DEF LedgerTypeOK
  <1>2. CASE ProviderPending(r, t) /\ MarkProviderDispatched(r, t)
    <2>1. CASE cancelRequested[r]
      <3>1. AddProviderFact(r, t, "abandoned") /\ AppendRunTransition(r, "cancelled")
        BY <1>2, <2>1 DEF MarkProviderDispatched
      <3>2. \A q \in Runs, u \in Turns :
              ProviderPending(q, u)' <=> ProviderPending(q, u) /\ <<q, u>> # <<r, t>>
        BY <3>1, SettlingFact DEF TerminalProviderFacts
      <3>3. \A q \in Runs \ {r} : runState'[q] = runState[q]
        BY <3>1, TransitionIsLocal
      <3>4. \A u \in Turns : ~ProviderPending(r, u)'
        BY <1>2, <3>2 DEF PendingOperationNeedsLiveRun
      <3> QED
        BY <3>2, <3>3, <3>4, PendingKept
    <2>2. CASE ~cancelRequested[r]
      <3>1. AddProviderFact(r, t, "dispatched") /\ UNCHANGED runState
        BY <1>2, <2>2 DEF MarkProviderDispatched, runVars
      <3> QED
        BY <3>1, DispatchedFact DEF PendingOperationNeedsLiveRun, IsLive
    <2> QED
      BY <2>1, <2>2 DEF LedgerTypeOK
  <1>3. CASE CompleteRunSuccess(r, t)
    <2>1. /\ ProviderPending(r, t)
          /\ AddProviderFact(r, t, "completed")
          /\ \E state : AppendRunTransition(r, state)
      BY <1>3 DEF CompleteRunSuccess, ProviderInFlight
    <2>2. \A q \in Runs, u \in Turns :
            ProviderPending(q, u)' <=> ProviderPending(q, u) /\ <<q, u>> # <<r, t>>
      BY <2>1, SettlingFact DEF TerminalProviderFacts
    <2>3. \A u \in Turns : ~ProviderPending(r, u)'
      BY <2>1, <2>2 DEF PendingOperationNeedsLiveRun
    <2>4. \A q \in Runs \ {r} : runState'[q] = runState[q]
      BY <2>1, TransitionIsLocal
    <2> QED
      BY <2>2, <2>3, <2>4, PendingKept
  <1>4. ASSUME NEW fact \in TerminalProviderFacts, AddProviderFact(r, t, fact),
               UNCHANGED runState
        PROVE  PendingOperationNeedsLiveRun'
    BY <1>4, SettlingFact DEF PendingOperationNeedsLiveRun, IsLive
  <1>5. ASSUME NEW calls, NEW commentary, CompleteProviderToolTurn(r, t, calls, commentary)
        PROVE  PendingOperationNeedsLiveRun'
    BY <1>4, <1>5 DEF CompleteProviderToolTurn, runVars, TerminalProviderFacts
  <1>6. CASE SettleContextRejection(r, t)
    BY <1>4, <1>6 DEF SettleContextRejection, runVars, TerminalProviderFacts
  <1>7. ASSUME NEW kind \in {"stopped", "failed", "uncertain"}, FinishRun(r, t, kind)
        PROVE  PendingOperationNeedsLiveRun'
    <2>1. \A q \in Runs \ {r} : runState'[q] = runState[q]
      BY <1>7, TransitionIsLocal DEF FinishRun
    <2> QED
      BY <1>7, <2>1, FinishSettles, PendingKept
  <1> QED
    BY <1>1, <1>2, <1>3, <1>5, <1>6, <1>7 DEF ProviderStep

\* The steps of a tool call, between operations.
LEMMA PendingToolStep ==
  ASSUME LedgerTypeOK, PendingOperationNeedsLiveRun, NEW r \in Runs, NEW t \in Turns,
         NEW k \in Calls, ToolStep(r, t, k)
  PROVE  PendingOperationNeedsLiveRun'
  <1>1. UNCHANGED providerFacts /\ Quiet(r)
    BY DEF ToolStep, PrepareToolOperation, MarkToolDispatched, CompleteToolResult, providerVars
  <1>2. \A q \in Runs, u \in Turns : ProviderPending(q, u)' <=> ProviderPending(q, u)
    BY <1>1 DEF ProviderPending
  <1>3. \A q \in Runs \ {r} : runState'[q] = runState[q]
    BY TransitionIsLocal
    DEF ToolStep, PrepareToolOperation, MarkToolDispatched, CompleteToolResult, runVars
  <1> QED
    BY <1>1, <1>2, <1>3, PendingKept DEF Quiet

\* Every other transaction leaves the runs and their operations alone.
LEMMA OtherSteps ==
  ASSUME [LedgerNext]_ledgerVars,
         ~\E r \in Runs :
            \/ RunStep(r)
            \/ \E t \in Turns : ProviderStep(r, t) \/ \E k \in Calls : ToolStep(r, t, k)
  PROVE  UNCHANGED <<runVars, providerVars, toolVars>>
  <1>1. CASE UNCHANGED ledgerVars
    BY <1>1 DEF ledgerVars
  <1>2. ASSUME NEW c \in Commands, CommandStep(c)
        PROVE  UNCHANGED <<runVars, providerVars, toolVars>>
    BY <1>2 DEF CommandStep, AcceptLocalCommand, ActivateLocalCommand, CancelLocalCommand,
                CompleteLocalCommand
  <1>3. ASSUME NEW s \in Sessions, SteeringStep(s)
        PROVE  UNCHANGED <<runVars, providerVars, toolVars>>
    BY <1>3 DEF SteeringStep, EnqueueSteering, ResumeSteering, PauseSteeringQueue
  <1>4. CASE PauseSteeringForRecovery
    BY <1>4 DEF PauseSteeringForRecovery
  <1>5. ASSUME NEW a \in Archives, ArchiveStep(a)
        PROVE  UNCHANGED <<runVars, providerVars, toolVars>>
    BY <1>5 DEF ArchiveStep, PrepareSessionArchive, CompleteSessionArchive
  <1> QED
    BY <1>1, <1>2, <1>3, <1>4, <1>5 DEF LedgerNext

\* An operation is pending only for a live run, and a run has one at most.
LEMMA PendingStep ==
  ASSUME LedgerTypeOK, PendingOperationNeedsLiveRun, [LedgerNext]_ledgerVars
  PROVE  PendingOperationNeedsLiveRun'
  <1>1. CASE UNCHANGED <<runVars, providerVars, toolVars>>
    BY <1>1 DEF PendingOperationNeedsLiveRun, ProviderPending, IsLive, runVars, providerVars
  <1> QED
    BY <1>1, OtherSteps, PendingRunStep, PendingProviderStep, PendingToolStep

--------------------------------------------------------------------------------
(* The transcript under an operation in flight. *)

\* Two live runs of one session are one run.
LEMMA OneLiveRun ==
  ASSUME ActiveRunAgrees, NEW q \in Runs, NEW r \in Runs, IsLive(q), IsLive(r),
         SessionOf[q] = SessionOf[r]
  PROVE  q = r
  BY SessionOfAssumption DEF ActiveRunAgrees

\* Entries of one session leave the others' high water.
LEMMA AppendElsewhere ==
  ASSUME LedgerTypeOK, NEW s \in Sessions, NEW n, AppendEntries(s, n),
         NEW other \in Sessions, other # s
  PROVE  highWater'[other] = highWater[other]
  BY DEF AppendEntries, LedgerTypeOK

\* A step of a run appends only its input, when no operation of its session is
\* pending.
LEMMA TranscriptRunStep ==
  ASSUME LedgerTypeOK, ActiveRunAgrees, PendingOperationNeedsLiveRun,
         PendingOperationSeesTranscript, NEW r \in Runs, RunStep(r)
  PROVE  PendingOperationSeesTranscript'
  <1>0. UNCHANGED providerVars
    BY DEF RunStep, AcceptSessionInput, CancelRun, ActivateRun, FinishRun
  <1>1. CASE AcceptSessionInput(r)
    <2> SUFFICES ASSUME NEW q \in Runs, NEW u \in Turns, ProviderPending(q, u)
                 PROVE  highWater'[SessionOf[q]] = highWater[SessionOf[q]]
      BY <1>0 DEF PendingOperationSeesTranscript, ProviderPending, SourceUnchanged, providerVars
    <2>1. IsLive(q) /\ SessionOf[q] \in Sessions /\ SessionOf[r] \in Sessions
      BY SessionOfAssumption DEF PendingOperationNeedsLiveRun
    <2>2. activeRun[SessionOf[r]] = NoRun /\ AppendEntries(SessionOf[r], 1)
      BY <1>1 DEF AcceptSessionInput, CanAcceptInput
    <2>3. SessionOf[q] # SessionOf[r]
      BY <2>1, <2>2, SessionOfAssumption DEF ActiveRunAgrees
    <2> QED
      BY <2>1, <2>2, <2>3, AppendElsewhere
  <1>2. CASE ~AcceptSessionInput(r)
    <2>1. UNCHANGED highWater
      BY <1>2 DEF RunStep, CancelRun, ActivateRun, FinishRun
    <2> QED
      BY <1>0, <2>1 DEF PendingOperationSeesTranscript, ProviderPending, SourceUnchanged,
                        providerVars
  <1> QED
    BY <1>1, <1>2

\* Entries the live run r appends while it holds no operation disturb no other.
LEMMA TranscriptOfOthers ==
  ASSUME LedgerTypeOK, ActiveRunAgrees, PendingOperationNeedsLiveRun,
         PendingOperationSeesTranscript, NEW r \in Runs, NEW n, IsLive(r),
         AppendEntries(SessionOf[r], n), UNCHANGED sourceHighWater,
         \A q \in Runs, u \in Turns : ProviderPending(q, u)' => ProviderPending(q, u) /\ q # r
  PROVE  PendingOperationSeesTranscript'
  <1> SUFFICES ASSUME NEW q \in Runs, NEW u \in Turns, ProviderPending(q, u), q # r
               PROVE  SourceUnchanged(q, u)'
    BY DEF PendingOperationSeesTranscript
  <1>1. IsLive(q) /\ SessionOf[q] \in Sessions /\ SessionOf[r] \in Sessions
    BY SessionOfAssumption DEF PendingOperationNeedsLiveRun
  <1>2. SessionOf[q] # SessionOf[r]
    BY <1>1, OneLiveRun
  <1>3. highWater'[SessionOf[q]] = highWater[SessionOf[q]]
    BY <1>1, <1>2, AppendElsewhere
  <1> QED
    BY <1>3 DEF PendingOperationSeesTranscript, SourceUnchanged

\* An operation is prepared from the current transcript, and its outcome appends
\* only after settling it.
LEMMA TranscriptProviderStep ==
  ASSUME LedgerTypeOK, ActiveRunAgrees, PendingOperationNeedsLiveRun,
         PendingOperationSeesTranscript, NEW r \in Runs, NEW t \in Turns, ProviderStep(r, t)
  PROVE  PendingOperationSeesTranscript'
  <1>1. CASE PrepareProviderOperation(r, t, highWater[SessionOf[r]])
    <2>1. UNCHANGED highWater
      BY <1>1 DEF PrepareProviderOperation
    <2>2. CASE UNCHANGED providerVars
      BY <2>1, <2>2 DEF PendingOperationSeesTranscript, ProviderPending, SourceUnchanged,
                        providerVars
    <2>3. CASE /\ providerFacts' = [providerFacts EXCEPT ![<<r, t>>] = {"prepared"}]
               /\ sourceHighWater' =
                    [sourceHighWater EXCEPT ![<<r, t>>] = highWater[SessionOf[r]]]
      BY <2>1, <2>3 DEF PendingOperationSeesTranscript, ProviderPending, SourceUnchanged,
                        LedgerTypeOK
    <2> QED
      BY <1>1, <2>2, <2>3 DEF PrepareProviderOperation
  <1>2. ASSUME NEW fact \in TerminalProviderFacts \cup {"dispatched"},
               AddProviderFact(r, t, fact), UNCHANGED highWater
        PROVE  PendingOperationSeesTranscript'
    <2>1. \A q \in Runs, u \in Turns : ProviderPending(q, u)' => ProviderPending(q, u)
      BY <1>2, SettlingFact, DispatchedFact
    <2> QED
      BY <1>2, <2>1 DEF AddProviderFact, PendingOperationSeesTranscript, SourceUnchanged
  <1>3. CASE MarkProviderDispatched(r, t)
    BY <1>2, <1>3 DEF MarkProviderDispatched, TerminalProviderFacts
  <1>4. CASE SettleContextRejection(r, t)
    BY <1>2, <1>4 DEF SettleContextRejection, TerminalProviderFacts
  <1>5. ASSUME NEW kind \in {"stopped", "failed", "uncertain"}, FinishRun(r, t, kind)
        PROVE  PendingOperationSeesTranscript'
    <2>1. t # 0
      BY BoundAssumption DEF Turns
    <2> QED
      BY <1>2, <1>5, <2>1 DEF FinishRun, StoppedFact, TerminalProviderFacts
  <1>6. ASSUME NEW n, runState[r] = "active", ProviderPending(r, t),
               AddProviderFact(r, t, "completed"), AppendEntries(SessionOf[r], n)
        PROVE  PendingOperationSeesTranscript'
    <2>1. IsLive(r) /\ UNCHANGED sourceHighWater
      BY <1>6 DEF IsLive, LiveRunStates, AddProviderFact
    <2>2. \A q \in Runs, u \in Turns :
            ProviderPending(q, u)' => ProviderPending(q, u) /\ <<q, u>> # <<r, t>>
      BY <1>6, SettlingFact DEF TerminalProviderFacts
    <2>3. \A q \in Runs, u \in Turns : ProviderPending(q, u)' => ProviderPending(q, u) /\ q # r
      BY <1>6, <2>2 DEF PendingOperationNeedsLiveRun
    <2> QED
      BY <1>6, <2>1, <2>3, TranscriptOfOthers
  <1>7. CASE CompleteRunSuccess(r, t)
    BY <1>2, <1>6, <1>7 DEF CompleteRunSuccess, ProviderInFlight, TerminalProviderFacts
  <1>8. ASSUME NEW calls, NEW commentary, CompleteProviderToolTurn(r, t, calls, commentary)
        PROVE  PendingOperationSeesTranscript'
    BY <1>6, <1>8 DEF CompleteProviderToolTurn, ProviderInFlight
  <1> QED
    BY <1>1, <1>3, <1>4, <1>5, <1>7, <1>8 DEF ProviderStep

\* A tool result is appended between the operations of its run.
LEMMA TranscriptToolStep ==
  ASSUME LedgerTypeOK, ActiveRunAgrees, PendingOperationNeedsLiveRun,
         PendingOperationSeesTranscript, NEW r \in Runs, NEW t \in Turns, NEW k \in Calls,
         ToolStep(r, t, k)
  PROVE  PendingOperationSeesTranscript'
  <1>1. UNCHANGED providerVars /\ Quiet(r)
    BY DEF ToolStep, PrepareToolOperation, MarkToolDispatched, CompleteToolResult
  <1>2. CASE UNCHANGED highWater
    BY <1>1, <1>2 DEF PendingOperationSeesTranscript, ProviderPending, SourceUnchanged,
                      providerVars
  <1>3. ASSUME NEW result, CompleteToolResult(r, t, k, result)
        PROVE  PendingOperationSeesTranscript'
    <2>1. IsLive(r) /\ AppendEntries(SessionOf[r], 1) /\ UNCHANGED sourceHighWater
      BY <1>1, <1>3 DEF CompleteToolResult, CanCompleteTool, IsLive, LiveRunStates, providerVars
    <2>2. \A q \in Runs, u \in Turns : ProviderPending(q, u)' => ProviderPending(q, u) /\ q # r
      BY <1>1 DEF ProviderPending, Quiet, providerVars
    <2> QED
      BY <2>1, <2>2, TranscriptOfOthers
  <1> QED
    BY <1>2, <1>3 DEF ToolStep, PrepareToolOperation, MarkToolDispatched

\* A local command appends its result while its session has no live run.
LEMMA TranscriptCommandStep ==
  ASSUME LedgerTypeOK, SessionIsExclusive, PendingOperationNeedsLiveRun,
         PendingOperationSeesTranscript, NEW c \in Commands, CommandStep(c)
  PROVE  PendingOperationSeesTranscript'
  <1>0. UNCHANGED providerVars
    BY DEF CommandStep, AcceptLocalCommand, ActivateLocalCommand, CancelLocalCommand,
           CompleteLocalCommand
  <1>1. CASE UNCHANGED highWater
    BY <1>0, <1>1 DEF PendingOperationSeesTranscript, ProviderPending, SourceUnchanged,
                      providerVars
  <1>2. ASSUME NEW state, CompleteLocalCommand(c, state)
        PROVE  PendingOperationSeesTranscript'
    <2> SUFFICES ASSUME NEW q \in Runs, NEW u \in Turns, ProviderPending(q, u)
                 PROVE  highWater'[SessionOf[q]] = highWater[SessionOf[q]]
      BY <1>0 DEF PendingOperationSeesTranscript, ProviderPending, SourceUnchanged, providerVars
    <2>1. IsLive(q) /\ SessionOf[q] \in Sessions /\ SessionOf[c] \in Sessions
      BY SessionOfAssumption DEF PendingOperationNeedsLiveRun
    <2>2. commandState[c] \in LiveCommandStates /\ AppendEntries(SessionOf[c], 1)
      BY <1>2 DEF CompleteLocalCommand, CanCompleteCommand
    <2>3. SessionOf[q] # SessionOf[c]
      BY <2>1, <2>2 DEF SessionIsExclusive
    <2> QED
      BY <2>1, <2>2, <2>3, AppendElsewhere
  <1> QED
    BY <1>1, <1>2 DEF CommandStep, AcceptLocalCommand, ActivateLocalCommand, CancelLocalCommand

\* While an operation is pending nothing is appended to its session.
LEMMA TranscriptStep ==
  ASSUME LedgerTypeOK, ActiveRunAgrees, SessionIsExclusive, PendingOperationNeedsLiveRun,
         PendingOperationSeesTranscript, [LedgerNext]_ledgerVars
  PROVE  PendingOperationSeesTranscript'
  <1>1. CASE UNCHANGED <<providerVars, highWater>>
    BY <1>1 DEF PendingOperationSeesTranscript, ProviderPending, SourceUnchanged, providerVars
  <1>2. CASE UNCHANGED ledgerVars
    BY <1>1, <1>2 DEF ledgerVars
  <1>3. ASSUME NEW s \in Sessions, SteeringStep(s) PROVE PendingOperationSeesTranscript'
    BY <1>1, <1>3 DEF SteeringStep, EnqueueSteering, ResumeSteering, PauseSteeringQueue
  <1>4. CASE PauseSteeringForRecovery
    BY <1>1, <1>4 DEF PauseSteeringForRecovery
  <1>5. ASSUME NEW a \in Archives, ArchiveStep(a) PROVE PendingOperationSeesTranscript'
    BY <1>1, <1>5 DEF ArchiveStep, PrepareSessionArchive, CompleteSessionArchive
  <1> QED
    BY <1>2, <1>3, <1>4, <1>5, TranscriptRunStep, TranscriptProviderStep, TranscriptToolStep,
       TranscriptCommandStep
    DEF LedgerNext

--------------------------------------------------------------------------------
(* The inductive invariant and the theorems it carries. *)

\* Each conjunct is a property of its own; the induction needs them together.
\* SessionIsExclusive rests on ActiveRunAgrees, and PendingOperationSeesTranscript
\* on all the others: who appends entries is decided by who is live.
LedgerInv ==
  /\ LedgerTypeOK
  /\ ActiveRunAgrees
  /\ SessionIsExclusive
  /\ CancellationPrevails
  /\ PendingOperationNeedsLiveRun
  /\ PendingOperationSeesTranscript

\* The empty ledger satisfies the invariant.
LEMMA InvInit == LedgerInit => LedgerInv
  <1> SUFFICES ASSUME LedgerInit PROVE LedgerInv
    OBVIOUS
  <1>1. \A r \in Runs : ~IsLive(r) /\ ~cancelRequested[r] /\ runState[r] = "none"
    BY DEF LedgerInit, IsLive, LiveRunStates
  <1>2. ActiveRunAgrees
    BY <1>1, SessionOfAssumption DEF LedgerInit, ActiveRunAgrees
  <1>3. SessionIsExclusive
    BY DEF LedgerInit, SessionIsExclusive, LiveCommandStates
  <1>4. CancellationPrevails
    BY <1>1 DEF CancellationPrevails
  <1>5. \A r \in Runs, t \in Turns : ~ProviderPending(r, t)
    BY DEF LedgerInit, ProviderPending
  <1> QED
    BY <1>2, <1>3, <1>4, <1>5, TypeInit
    DEF LedgerInv, PendingOperationNeedsLiveRun, PendingOperationSeesTranscript

\* Every transaction keeps the invariant.
LEMMA InvNext == LedgerInv /\ [LedgerNext]_ledgerVars => LedgerInv'
  <1> SUFFICES ASSUME LedgerInv, [LedgerNext]_ledgerVars PROVE LedgerInv'
    OBVIOUS
  <1>1. RunEffect
    BY NextEffect DEF LedgerInv
  <1>2. LedgerTypeOK'
    BY TypeNext DEF LedgerInv
  <1>3. ActiveRunAgrees' /\ SessionIsExclusive' /\ CancellationPrevails'
    BY <1>1, ActiveRunStep, ExclusiveStep, CancellationStep DEF LedgerInv
  <1>4. PendingOperationNeedsLiveRun' /\ PendingOperationSeesTranscript'
    BY PendingStep, TranscriptStep DEF LedgerInv
  <1> QED
    BY <1>2, <1>3, <1>4 DEF LedgerInv

\* The invariant holds in every state the ledger reaches.
THEOREM InvAlways == LedgerSpec => []LedgerInv
  BY InvInit, InvNext, PTL DEF LedgerSpec

\* active_run_id names exactly the session's live run.
THEOREM ActiveRunTheorem == LedgerSpec => []ActiveRunAgrees
  <1>1. LedgerInv => ActiveRunAgrees
    BY DEF LedgerInv
  <1> QED
    BY <1>1, InvAlways, PTL

\* A session never has a live command beside a live run or another live command.
THEOREM ExclusiveTheorem == LedgerSpec => []SessionIsExclusive
  <1>1. LedgerInv => SessionIsExclusive
    BY DEF LedgerInv
  <1> QED
    BY <1>1, InvAlways, PTL

\* An accepted cancellation prevails over every later outcome.
THEOREM CancellationTheorem == LedgerSpec => []CancellationPrevails
  <1>1. LedgerInv => CancellationPrevails
    BY DEF LedgerInv
  <1> QED
    BY <1>1, InvAlways, PTL

\* A run that ended leaves no provider operation pending.
THEOREM PendingTheorem == LedgerSpec => []PendingOperationNeedsLiveRun
  <1>1. LedgerInv => PendingOperationNeedsLiveRun
    BY DEF LedgerInv
  <1> QED
    BY <1>1, InvAlways, PTL

\* The outcome of an operation commits onto the transcript it was built from, for
\* any number of sessions, runs and commands.
THEOREM TranscriptTheorem == LedgerSpec => []PendingOperationSeesTranscript
  <1>1. LedgerInv => PendingOperationSeesTranscript
    BY DEF LedgerInv
  <1> QED
    BY <1>1, InvAlways, PTL

--------------------------------------------------------------------------------
(* Refinement of RunContract. *)

\* The empty ledger maps to the contract's initial state.
LEMMA ContractStart == LedgerInit => Contract!ContractInit
  BY DEF LedgerInit, Contract!ContractInit, Status, IsLive

\* Every transaction is a step of the contract or leaves it alone.
LEMMA ContractStep ==
  LedgerInv /\ [LedgerNext]_ledgerVars =>
    [Contract!ContractNext]_<<Status, cancelRequested>>
  <1> SUFFICES ASSUME LedgerInv, [LedgerNext]_ledgerVars
               PROVE  [Contract!ContractNext]_<<Status, cancelRequested>>
    OBVIOUS
  <1>0. RunEffect /\ LedgerTypeOK
    BY NextEffect DEF LedgerInv
  <1>1. ASSUME NEW r \in Runs, AcceptSessionInput(r) PROVE Contract!Submit(r)
    <2>1. /\ runState[r] = "none"
          /\ activeRun[SessionOf[r]] = NoRun
          /\ runState' = [runState EXCEPT ![r] = "accepted"]
          /\ UNCHANGED cancelRequested
      BY <1>1 DEF AcceptSessionInput, CanAcceptInput
    <2>2. \A q \in Runs : SessionOf[q] = SessionOf[r] => ~IsLive(q)
      BY <2>1, SessionOfAssumption DEF LedgerInv, ActiveRunAgrees
    <2>3. \A q \in Runs : Status[q] = "live" => IsLive(q)
      BY <1>0 DEF Status, LedgerTypeOK, RunStates, LiveRunStates, TerminalRunStates, IsLive
    <2>4. Status[r] = "new" /\ Status' = [Status EXCEPT ![r] = "live"]
      BY <1>0, <2>1 DEF Status, LedgerTypeOK, IsLive, LiveRunStates
    <2> QED
      BY <2>1, <2>2, <2>3, <2>4 DEF Contract!Submit
  <1>2. ASSUME NEW r \in Runs, CancelRun(r) PROVE Contract!Cancel(r)
    <2>1. /\ IsLive(r)
          /\ cancelRequested' = [cancelRequested EXCEPT ![r] = TRUE]
          /\ UNCHANGED runState
      BY <1>2 DEF CancelRun
    <2>2. Status[r] = "live" /\ UNCHANGED Status
      BY <2>1 DEF Status, IsLive, LiveRunStates
    <2> QED
      BY <2>1, <2>2 DEF Contract!Cancel
  <1>3. ASSUME NEW r \in Runs, NEW state \in RunStates, IsLive(r), MayBecome(r, state),
               AppendRunTransition(r, state)
        PROVE  [Contract!ContractNext]_<<Status, cancelRequested>>
    <2>1. runState' = [runState EXCEPT ![r] = state] /\ UNCHANGED cancelRequested
      BY <1>3 DEF AppendRunTransition
    <2>2. CASE state = "active"
      BY <1>0, <1>3, <2>1, <2>2 DEF Status, LedgerTypeOK, IsLive, LiveRunStates
    <2>3. CASE state \in TerminalRunStates
      <3>1. Status[r] = "live" /\ Status' = [Status EXCEPT ![r] = state]
        BY <1>0, <1>3, <2>1, <2>3
        DEF Status, LedgerTypeOK, IsLive, LiveRunStates, TerminalRunStates
      <3>2. Contract!Finish(r, state)
        BY <1>3, <2>1, <3>1 DEF Contract!Finish, MayBecome
      <3> QED
        BY <2>3, <3>2 DEF Contract!ContractNext, Contract!Outcomes, TerminalRunStates
    <2> QED
      BY <1>3, <2>2, <2>3 DEF MayBecome
  <1>4. CASE UNCHANGED runVars
    BY <1>4 DEF runVars, Status, IsLive
  <1> QED
    BY <1>0, <1>1, <1>2, <1>3, <1>4 DEF RunEffect, Contract!ContractNext

\* The ledger implements the contract its clients rely on.
THEOREM Refinement == LedgerSpec => ImplementsContract
  BY ContractStart, ContractStep, InvAlways, PTL
  DEF LedgerSpec, ImplementsContract, Contract!ContractSpec

--------------------------------------------------------------------------------
(* History. *)

\* A transaction moves no terminal run and withdraws no cancellation.
LEMMA RunsStayTerminal ==
  ASSUME LedgerTypeOK, RunEffect, NEW r \in Runs, runState[r] \in TerminalRunStates
  PROVE  runState'[r] = runState[r] /\ cancelRequested'[r] = cancelRequested[r]
  <1>0. runState[r] # "none" /\ ~IsLive(r)
    BY DEF TerminalRunStates, LiveRunStates, IsLive
  <1>1. ASSUME NEW q \in Runs, AcceptSessionInput(q)
        PROVE  runState'[r] = runState[r] /\ cancelRequested'[r] = cancelRequested[r]
    BY <1>0, <1>1 DEF AcceptSessionInput, CanAcceptInput, LedgerTypeOK
  <1>2. ASSUME NEW q \in Runs, CancelRun(q)
        PROVE  runState'[r] = runState[r] /\ cancelRequested'[r] = cancelRequested[r]
    BY <1>0, <1>2 DEF CancelRun, LedgerTypeOK
  <1>3. ASSUME NEW q \in Runs, NEW state \in RunStates, IsLive(q), AppendRunTransition(q, state)
        PROVE  runState'[r] = runState[r] /\ cancelRequested'[r] = cancelRequested[r]
    BY <1>0, <1>3 DEF AppendRunTransition, LedgerTypeOK
  <1>4. CASE UNCHANGED runVars
    BY <1>4 DEF runVars
  <1> QED
    BY <1>1, <1>2, <1>3, <1>4 DEF RunEffect

\* A transaction adds facts to the operation it names, or none.
LEMMA FactsAreKept ==
  ASSUME LedgerTypeOK, [LedgerNext]_ledgerVars
  PROVE  /\ \A q \in Runs, u \in Turns : providerFacts[<<q, u>>] \subseteq providerFacts'[<<q, u>>]
         /\ \A q \in Runs, u \in Turns, j \in Calls :
              toolFacts[<<q, u, j>>] \subseteq toolFacts'[<<q, u, j>>]
  <1> DEFINE ProviderKept ==
        \A q \in Runs, u \in Turns : providerFacts[<<q, u>>] \subseteq providerFacts'[<<q, u>>]
  <1> DEFINE ToolKept ==
        \A q \in Runs, u \in Turns, j \in Calls :
          toolFacts[<<q, u, j>>] \subseteq toolFacts'[<<q, u, j>>]
  <1>1. ASSUME NEW r \in Runs, NEW t \in Turns, NEW fact, AddProviderFact(r, t, fact)
        PROVE  ProviderKept
    BY <1>1 DEF AddProviderFact, LedgerTypeOK
  <1>2. ASSUME NEW r \in Runs, NEW t \in Turns, NEW k \in Calls, NEW fact,
               AddToolFact(r, t, k, fact)
        PROVE  ToolKept
    BY <1>2 DEF AddToolFact, LedgerTypeOK
  <1>3. ASSUME NEW r \in Runs, RunStep(r) PROVE ProviderKept /\ ToolKept
    BY <1>3 DEF RunStep, AcceptSessionInput, CancelRun, ActivateRun, FinishRun, providerVars,
                toolVars
  <1>4. ASSUME NEW r \in Runs, NEW t \in Turns, ProviderStep(r, t)
        PROVE  ProviderKept /\ ToolKept
    <2>1. ToolKept
      BY <1>4 DEF ProviderStep, PrepareProviderOperation, MarkProviderDispatched,
                  CompleteRunSuccess, CompleteProviderToolTurn, SettleContextRejection,
                  FinishRun, toolVars
    <2>2. CASE PrepareProviderOperation(r, t, highWater[SessionOf[r]])
      BY <2>1, <2>2 DEF PrepareProviderOperation, CanPrepareProvider, IsNextTurn, LedgerTypeOK,
                        providerVars
    <2>3. CASE \E fact : AddProviderFact(r, t, fact)
      BY <1>1, <2>1, <2>3
    <2>4. t # 0
      BY BoundAssumption DEF Turns
    <2>5. PrepareProviderOperation(r, t, highWater[SessionOf[r]])
          \/ \E fact : AddProviderFact(r, t, fact)
      BY <1>4, <2>4 DEF ProviderStep, MarkProviderDispatched, CompleteRunSuccess,
                        CompleteProviderToolTurn, SettleContextRejection, FinishRun
    <2> QED
      BY <2>1, <2>2, <2>3, <2>5
  <1>5. ASSUME NEW r \in Runs, NEW t \in Turns, NEW k \in Calls, ToolStep(r, t, k)
        PROVE  ProviderKept /\ ToolKept
    <2>1. \E fact : AddToolFact(r, t, k, fact)
      BY <1>5 DEF ToolStep, PrepareToolOperation, MarkToolDispatched, CompleteToolResult
    <2>2. UNCHANGED providerFacts
      BY <1>5 DEF ToolStep, PrepareToolOperation, MarkToolDispatched, CompleteToolResult,
                  providerVars
    <2> QED
      BY <1>2, <2>1, <2>2
  <1>6. CASE UNCHANGED <<runVars, providerVars, toolVars>>
    BY <1>6 DEF providerVars, toolVars
  <1> QED
    BY <1>3, <1>4, <1>5, <1>6, OtherSteps

\* Terminal runs are final and the fact tables only grow, in every execution.
THEOREM HistoryTheorem == LedgerSpec => TerminalRunsAreFinal
  <1>1. LedgerTypeOK /\ [LedgerNext]_ledgerVars => [KeepsHistory]_ledgerVars
    BY NextEffect, RunsStayTerminal, FactsAreKept DEF KeepsHistory
  <1> QED
    BY <1>1, TypeCorrect, PTL DEF LedgerSpec, TerminalRunsAreFinal

--------------------------------------------------------------------------------
(* The rows of the journal. *)

CommandKinds == LiveCommandStates \cup {"cancelled"}

AcceptedRowType ==
  [table : {"accepted"}, of : Runs, turn : {0}, call : {0}, kind : {"accepted"}, seq : Nat]

EntryRowType ==
  [table : {"entry"}, of : Runs, turn : {0}, call : {0}, kind : {"user"}, seq : Nat]
  \cup [table : {"entry"}, of : Runs, turn : Turns, call : {0},
        kind : {"commentary", "answer"}, seq : Nat]
  \cup [table : {"entry"}, of : Runs, turn : Turns, call : Calls,
        kind : {"call", "result"}, seq : Nat]

StateRowType ==
  [table : {"state"}, of : Runs, turn : {0}, call : {0},
   kind : {"active"} \cup TerminalRunStates, seq : {0}]

CancellationRowType ==
  [table : {"cancellation"}, of : Runs, turn : {0}, call : {0},
   kind : {"applied", "ignored"}, seq : {0}]

ProviderRowType ==
  [table : {"provider"}, of : Runs, turn : Turns, call : {0}, kind : ProviderFacts, seq : Nat]

CallRowType ==
  [table : {"call"}, of : Runs, turn : Turns, call : Calls, kind : ToolKinds, seq : {0}]

ToolRowType ==
  [table : {"tool"}, of : Runs, turn : Turns, call : Calls, kind : ToolFacts, seq : {0}]

CommandRowType ==
  [table : {"command"}, of : Commands, turn : {0}, call : {0}, kind : CommandKinds, seq : {0}]
  \cup [table : {"command"}, of : Commands, turn : {0}, call : {0},
        kind : TerminalCommandStates, seq : Nat]

JournalRows ==
  AcceptedRowType \cup EntryRowType \cup StateRowType \cup CancellationRowType
    \cup ProviderRowType \cup CallRowType \cup ToolRowType \cup CommandRowType

CounterType == [turns : Nat, calls : Nat, mutations : Nat]

JournalTypeOK ==
  /\ journal \in Seq(JournalRows)
  /\ counters \in [Runs -> CounterType]

\* A row has a place in the transcript of its session.
InTranscript(row) == row.table \in {"entry", "command"} /\ row.seq > 0

\* What the ledger holds when a row about it has been written.
Backed(row) ==
  /\ row.table = "accepted" =>
       runState[row.of] # "none" /\ row.seq <= highWater[SessionOf[row.of]]
  /\ row.table = "entry" =>
       /\ runState[row.of] # "none"
       /\ row.seq \in 1..highWater[SessionOf[row.of]]
       /\ row.kind = "answer" => runState[row.of] = "succeeded"
       /\ row.kind = "call" => IsCall(row.of, row.turn, row.call)
       /\ row.kind = "result" => ToolSettled(row.of, row.turn, row.call)
  /\ row.table = "state" =>
       /\ runState[row.of] \notin {"none", "accepted"}
       /\ row.kind \in TerminalRunStates => runState[row.of] = row.kind
  /\ row.table = "cancellation" =>
       runState[row.of] # "none" /\ (row.kind = "applied" => cancelRequested[row.of])
  /\ row.table = "provider" => row.kind \in providerFacts[<<row.of, row.turn>>]
  /\ row.table = "call" =>
       /\ IsCall(row.of, row.turn, row.call)
       /\ row.kind = toolCalls[<<row.of, row.turn>>][row.call]
  /\ row.table = "tool" => row.kind \in toolFacts[<<row.of, row.turn, row.call>>]
  /\ row.table = "command" =>
       /\ commandState[row.of] # "none"
       /\ row.kind \in TerminalCommandStates =>
            /\ commandState[row.of] = row.kind
            /\ row.seq \in 1..highWater[SessionOf[row.of]]

SameCall(a, b) == a.turn = b.turn /\ a.call = b.call

\* Row a is written before row b.
MustPrecede(a, b) ==
  /\ a.of = b.of
  /\ \/ a.table = "entry" /\ a.kind = "user" /\ b.table = "accepted"
     \/ a.table = "accepted" /\ b.table \in {"state", "provider", "call", "tool"}
     \/ /\ b.table = "state" /\ b.kind \in TerminalRunStates
        /\ a.table \in {"entry", "provider"} \/ (a.table = "state" /\ a.kind = "active")
     \/ /\ a.table = "provider" /\ b.table = "provider" /\ a.turn = b.turn
        /\ \/ a.kind = "prepared" /\ b.kind # "prepared"
           \/ a.kind = "dispatched" /\ b.kind \in TerminalProviderFacts
     \/ a.table = "provider" /\ a.kind = "completed" /\ b.table = "call" /\ a.turn = b.turn
     \/ a.table = "call" /\ b.table = "entry" /\ b.kind = "call" /\ SameCall(a, b)
     \/ a.table = "call" /\ b.table = "tool" /\ SameCall(a, b)
     \/ /\ a.table = "tool" /\ b.table = "tool" /\ SameCall(a, b)
        /\ \/ a.kind = "prepared" /\ b.kind # "prepared"
           \/ a.kind = "dispatched" /\ b.kind \in TerminalToolFacts
     \/ /\ a.table = "tool" /\ a.kind \in TerminalToolFacts
        /\ b.table = "entry" /\ b.kind = "result" /\ SameCall(a, b)
     \/ /\ a.table = "command" /\ b.table = "command"
        /\ a.kind \in CommandKinds /\ b.kind \in TerminalCommandStates

SameOrBoth(a, b, kinds) == a.kind = b.kind \/ (a.kind \in kinds /\ b.kind \in kinds)

\* Only one of two such rows is ever written.
Exclusive(a, b) ==
  \/ InTranscript(a) /\ InTranscript(b) /\ SessionOf[a.of] = SessionOf[b.of] /\ a.seq = b.seq
  \/ /\ a.table = b.table /\ a.of = b.of
     /\ \/ a.table = "accepted"
        \/ a.table = "entry" /\ a.kind = b.kind /\ a.kind \in {"user", "answer"}
        \/ a.table = "entry" /\ a.kind = b.kind /\ a.kind \in {"call", "result"} /\ SameCall(a, b)
        \/ a.table = "state" /\ SameOrBoth(a, b, TerminalRunStates)
        \/ a.table = "provider" /\ a.turn = b.turn /\ SameOrBoth(a, b, TerminalProviderFacts)
        \/ a.table = "call" /\ SameCall(a, b)
        \/ a.table = "tool" /\ SameCall(a, b) /\ SameOrBoth(a, b, TerminalToolFacts)
        \/ /\ a.table = "command"
           /\ a.kind \in TerminalCommandStates /\ b.kind \in TerminalCommandStates

\* Two rows of a run tell of different transcripts.
Conflicts(a, b) ==
  /\ a.of = b.of
  /\ \/ a.table = "accepted" /\ b.table = "entry" /\ b.kind = "user" /\ a.seq # b.seq
     \/ a.table = "provider" /\ a.kind = "prepared" /\ b.table = "accepted" /\ a.seq < b.seq

--------------------------------------------------------------------------------
(* The inductive invariant. *)

\* Rows are about facts of the ledger.
RowsAreBacked == \A i \in DOMAIN journal : Backed(journal[i])

\* Rows are written in order, once, and agree with each other.
RowsFit ==
  \A i, j \in DOMAIN journal :
    /\ MustPrecede(journal[i], journal[j]) => i < j
    /\ Exclusive(journal[i], journal[j]) => i = j
    /\ ~Conflicts(journal[i], journal[j])

DeliveriesAgree == deliveries = RebuiltDeliveries

\* What a run has begun and how it ended, over the tables of the ledger alone.
OperationShape(r, t) ==
  /\ runState[r] \in {"none", "accepted"} => providerFacts[<<r, t>>] = {}
  /\ providerFacts[<<r, t>>] # {} =>
       /\ "prepared" \in providerFacts[<<r, t>>]
       /\ \A u \in 1..(t - 1) : providerFacts[<<r, u>>] # {}
  /\ Len(toolCalls[<<r, t>>]) # 0 => "completed" \in providerFacts[<<r, t>>]

ToolShape(r, t, k) ==
  /\ toolFacts[<<r, t, k>>] # {} => "prepared" \in toolFacts[<<r, t, k>>] /\ IsCall(r, t, k)
  /\ "uncertain" \in toolFacts[<<r, t, k>>] =>
       toolCalls[<<r, t>>][k] = "web" \/ runState[r] = "uncertain"

FactsShape ==
  \A r \in Runs, t \in Turns : OperationShape(r, t) /\ \A k \in Calls : ToolShape(r, t, k)

IsWritten(table, of, t, k, kind) ==
  \E i \in DOMAIN journal :
    /\ journal[i].table = table /\ journal[i].of = of
    /\ journal[i].turn = t /\ journal[i].call = k /\ journal[i].kind = kind

\* The facts of the ledger have rows.
RunIsWritten(r) ==
  /\ runState[r] # "none" =>
       IsWritten("accepted", r, 0, 0, "accepted") /\ IsWritten("entry", r, 0, 0, "user")
  /\ runState[r] \notin {"none", "accepted"} => IsWritten("state", r, 0, 0, runState[r])
  /\ runState[r] = "succeeded" => \E t \in Turns : IsWritten("entry", r, t, 0, "answer")
  /\ cancelRequested[r] => IsWritten("cancellation", r, 0, 0, "applied")

RunsAreWritten == \A r \in Runs : RunIsWritten(r)

OperationsAreWritten ==
  \A r \in Runs, t \in Turns :
    \A fact \in providerFacts[<<r, t>>] : IsWritten("provider", r, t, 0, fact)

CallsAreWritten ==
  \A r \in Runs, t \in Turns, k \in Calls : IsCall(r, t, k) =>
    /\ IsWritten("call", r, t, k, toolCalls[<<r, t>>][k])
    /\ IsWritten("entry", r, t, k, "call")

ToolsAreWritten ==
  \A r \in Runs, t \in Turns, k \in Calls :
    /\ \A fact \in toolFacts[<<r, t, k>>] : IsWritten("tool", r, t, k, fact)
    /\ ToolSettled(r, t, k) => IsWritten("entry", r, t, k, "result")

\* Row i is at the n-th place of the transcript of session s.
IsPlace(i, s, n) ==
  InTranscript(journal[i]) /\ SessionOf[journal[i].of] = s /\ journal[i].seq = n

TranscriptIsWhole ==
  \A s \in Sessions : \A n \in 1..highWater[s] : \E i \in DOMAIN journal : IsPlace(i, s, n)

\* The transcript of a session that works on a run ends with an entry of the run,
\* not with a command.
LiveRunReadsEntry ==
  \A r \in Runs : IsLive(r) =>
    \E i \in DOMAIN journal :
      journal[i].table = "entry" /\ IsPlace(i, SessionOf[r], highWater[SessionOf[r]])

\* A prepared operation read a transcript that ended with an entry.
PreparedHaveSource ==
  \A p \in DOMAIN journal : journal[p].table = "provider" /\ journal[p].kind = "prepared" =>
    \E i \in DOMAIN journal :
      /\ i < p
      /\ journal[i].table = "entry"
      /\ IsPlace(i, SessionOf[journal[p].of], journal[p].seq)

CountersAgree == \A r \in Runs : RebuiltCounts(r) = counters[r]

\* The part of the invariant that is about rows alone.
RowsInv ==
  /\ JournalTypeOK
  /\ RowsAreBacked
  /\ RowsFit
  /\ RegistryValid /\ AuditsValid /\ DeliveriesAgree

\* Nothing the ledger holds is missing from the rows.
RowsAreComplete ==
  /\ RunsAreWritten /\ OperationsAreWritten /\ CallsAreWritten /\ ToolsAreWritten
  /\ TranscriptIsWhole /\ LiveRunReadsEntry /\ PreparedHaveSource /\ CountersAgree

FactsInv ==
  /\ LedgerInv
  /\ RowsInv
  /\ FactsShape
  /\ RowsAreComplete

--------------------------------------------------------------------------------
(* Writing rows. *)

\* A row goes with the audit row, the event and the request of its kind.
IsWrite(w) ==
  /\ w.row \in JournalRows
  /\ w.audit = AuditKind(w.row)
  /\ w.event = RebuiltEvent(w.row)
  /\ w.request = RequestKind(w.row)

\* The journal has the rows of n writes at its end and is otherwise the same.
Grown(writes, n) ==
  /\ Len(journal) \in Nat /\ n \in Nat
  /\ DOMAIN journal = 1 .. Len(journal)
  /\ DOMAIN journal' = 1 .. Len(journal) + n
  /\ \A i \in DOMAIN journal : i \in DOMAIN journal' /\ journal'[i] = journal[i]
  /\ \A i \in 1 .. n : journal'[Len(journal) + i] = writes[i].row
  /\ \A p \in DOMAIN journal' \ DOMAIN journal : \E i \in 1 .. n : p = Len(journal) + i

\* What a transaction makes of the journal.
LEMMA WriteGrows ==
  ASSUME JournalTypeOK, NEW n \in Nat, NEW writes, DOMAIN writes = 1 .. n,
         \A i \in 1 .. n : writes[i].row \in JournalRows, Write(writes)
  PROVE  journal' \in Seq(JournalRows) /\ Grown(writes, n)
<1> DEFINE rows == [i \in 1 .. n |-> writes[i].row]
<1>1. rows \in [1 .. n -> JournalRows]
  OBVIOUS
<1>2. rows \in Seq(JournalRows)
  BY <1>1, SeqDef
<1>3. Len(rows) = n
  BY <1>1, <1>2, LenProperties
<1>4. journal \in Seq(JournalRows)
  BY DEF JournalTypeOK
<1>5. journal' = journal \o rows
  BY DEF Write
<1>6. /\ journal' \in Seq(JournalRows)
      /\ Len(journal') = Len(journal) + Len(rows)
      /\ \A i \in 1 .. Len(journal) + Len(rows) :
           journal'[i] = IF i <= Len(journal) THEN journal[i] ELSE rows[i - Len(journal)]
  BY <1>2, <1>4, <1>5, ConcatProperties
<1>7. /\ Len(journal) \in Nat /\ DOMAIN journal = 1 .. Len(journal)
      /\ DOMAIN journal' = 1 .. Len(journal')
  BY <1>4, <1>6, LenProperties
<1>8. \A i \in 1 .. n : rows[i] = writes[i].row
  OBVIOUS
<1> HIDE DEF rows
<1>9. \A i \in 1 .. n : journal'[Len(journal) + i] = writes[i].row
  <2> TAKE i \in 1 .. n
  <2>1. /\ Len(journal) + i \in 1 .. Len(journal) + Len(rows)
        /\ ~(Len(journal) + i <= Len(journal)) /\ Len(journal) + i - Len(journal) = i
    BY <1>3, <1>7
  <2> QED
    BY <1>6, <1>8, <2>1
<1>10. \A i \in DOMAIN journal : i \in DOMAIN journal' /\ journal'[i] = journal[i]
  BY <1>3, <1>6, <1>7
<1>11. \A p \in DOMAIN journal' \ DOMAIN journal : \E i \in 1 .. n : p = Len(journal) + i
  <2> TAKE p \in DOMAIN journal' \ DOMAIN journal
  <2>1. p - Len(journal) \in 1 .. n /\ p = Len(journal) + (p - Len(journal))
    BY <1>3, <1>6, <1>7
  <2> QED
    BY <2>1
<1> QED
  BY <1>3, <1>6, <1>7, <1>9, <1>10, <1>11 DEF Grown

\* The kinds of the first len rows, and those of n more, with the numbers of the rows.
Numbered(kind, len) == {<<i, kind[i]>> : i \in {j \in 1 .. len : kind[j] # "none"}}

NumberedFrom(len, column, n) ==
  {<<len + i, column[i]>> : i \in {j \in 1 .. n : column[j] # "none"}}

\* The numbered kinds of a longer journal: those of the rows before and of the new ones.
LEMMA KindsGrow ==
  ASSUME NEW len \in Nat, NEW n \in Nat, NEW kind, NEW column,
         \A i \in 1 .. n : kind[len + i] = column[i]
  PROVE  Numbered(kind, len) \cup NumberedFrom(len, column, n) = Numbered(kind, len + n)
<1> DEFINE old == Numbered(kind, len)
           new == NumberedFrom(len, column, n)
           all == Numbered(kind, len + n)
<1> USE DEF Numbered, NumberedFrom
<1>1. old \subseteq all
  OBVIOUS
<1>2. new \subseteq all
  <2> SUFFICES ASSUME NEW i \in 1 .. n, column[i] # "none"
               PROVE  <<len + i, column[i]>> \in all
    OBVIOUS
  <2>1. len + i \in 1 .. len + n /\ kind[len + i] = column[i]
    OBVIOUS
  <2> QED
    BY <2>1
<1>3. all \subseteq old \cup new
  <2> SUFFICES ASSUME NEW i \in 1 .. len + n, kind[i] # "none"
               PROVE  <<i, kind[i]>> \in old \cup new
    OBVIOUS
  <2>1. CASE i <= len
    BY <2>1
  <2>2. CASE ~(i <= len)
    <3>1. PICK j \in 1 .. n : i = len + j
      <4>1. i - len \in 1 .. n /\ i = len + (i - len)
        BY <2>2
      <4> QED
        BY <4>1
    <3>2. kind[i] = column[j]
      BY <3>1
    <3>3. <<len + j, column[j]>> \in new
      BY <3>2
    <3> QED
      BY <3>1, <3>2, <3>3
  <2> QED
    BY <2>1, <2>2
<1> QED
  BY <1>1, <1>2, <1>3

\* What goes beside the rows of the journal is what their kinds say.
LEMMA BesideAgree ==
  ASSUME JournalTypeOK, NEW n \in Nat, NEW writes, DOMAIN writes = 1 .. n,
         \A i \in 1 .. n : IsWrite(writes[i]), Write(writes),
         RegistryValid, AuditsValid, DeliveriesAgree
  PROVE  RegistryValid' /\ AuditsValid' /\ DeliveriesAgree'
<1>1. Grown(writes, n)
  BY WriteGrows DEF IsWrite
<1>2. PICK len \in Nat : len = Len(journal)
  BY <1>1 DEF Grown
<1>3. /\ DOMAIN journal = 1 .. len /\ DOMAIN journal' = 1 .. len + n
      /\ \A i \in 1 .. len : journal'[i] = journal[i]
      /\ \A i \in 1 .. n : len + i \in 1 .. len + n /\ journal'[len + i] = writes[i].row
  BY <1>1, <1>2 DEF Grown
<1>4. AuditsValid'
  <2> DEFINE kind == [i \in 1 .. len + n |-> AuditKind(journal'[i])]
             column == [i \in 1 .. n |-> writes[i].audit]
  <2>1. audits' = audits \cup {<<len + i, column[i]>> :
                                 i \in {j \in 1 .. n : column[j] # "none"}}
    BY <1>2 DEF Write
  <2>2. audits = {<<i, kind[i]>> : i \in {j \in 1 .. len : kind[j] # "none"}}
    <3>1. \A i \in 1 .. len : kind[i] = AuditKind(journal[i])
      BY <1>3
    <3> HIDE DEF kind, column
    <3> QED
      BY <1>3, <3>1 DEF AuditsValid
  <2>3. AuditsValid' <=> audits' = {<<i, kind[i]>> : i \in {j \in 1 .. len + n : kind[j] # "none"}}
    BY <1>3 DEF AuditsValid
  <2>4. \A i \in 1 .. n : kind[len + i] = column[i]
    BY <1>3 DEF IsWrite
  <2> HIDE DEF kind, column
  <2>5. Numbered(kind, len) \cup NumberedFrom(len, column, n) = Numbered(kind, len + n)
    BY <2>4, KindsGrow
  <2> QED
    BY <2>1, <2>2, <2>3, <2>5 DEF Numbered, NumberedFrom
<1>5. RegistryValid'
  <2> DEFINE kind == [i \in 1 .. len + n |-> RequestKind(journal'[i])]
             column == [i \in 1 .. n |-> writes[i].request]
  <2>1. registry' = registry \cup {<<len + i, column[i]>> :
                                     i \in {j \in 1 .. n : column[j] # "none"}}
    BY <1>2 DEF Write
  <2>2. registry = {<<i, kind[i]>> : i \in {j \in 1 .. len : kind[j] # "none"}}
    <3>1. \A i \in 1 .. len : kind[i] = RequestKind(journal[i])
      BY <1>3
    <3> HIDE DEF kind, column
    <3> QED
      BY <1>3, <3>1 DEF RegistryValid
  <2>3. RegistryValid'
          <=> registry' = {<<i, kind[i]>> : i \in {j \in 1 .. len + n : kind[j] # "none"}}
    BY <1>3 DEF RegistryValid
  <2>4. \A i \in 1 .. n : kind[len + i] = column[i]
    BY <1>3 DEF IsWrite
  <2> HIDE DEF kind, column
  <2>5. Numbered(kind, len) \cup NumberedFrom(len, column, n) = Numbered(kind, len + n)
    BY <2>4, KindsGrow
  <2> QED
    BY <2>1, <2>2, <2>3, <2>5 DEF Numbered, NumberedFrom
<1>6. DeliveriesAgree'
  <2> DEFINE kind == [i \in 1 .. len + n |-> RebuiltEvent(journal'[i])]
             column == [i \in 1 .. n |-> writes[i].event]
  <2>1. deliveries' = deliveries \cup {<<len + i, column[i]>> :
                                         i \in {j \in 1 .. n : column[j] # "none"}}
    BY <1>2 DEF Write
  <2>2. deliveries = {<<i, kind[i]>> : i \in {j \in 1 .. len : kind[j] # "none"}}
    <3>1. \A i \in 1 .. len : kind[i] = RebuiltEvent(journal[i])
      BY <1>3
    <3> HIDE DEF kind, column
    <3> QED
      BY <1>3, <3>1 DEF DeliveriesAgree, RebuiltDeliveries
  <2>3. DeliveriesAgree'
          <=> deliveries' = {<<i, kind[i]>> : i \in {j \in 1 .. len + n : kind[j] # "none"}}
    BY <1>3 DEF DeliveriesAgree, RebuiltDeliveries
  <2>4. \A i \in 1 .. n : kind[len + i] = column[i]
    BY <1>3 DEF IsWrite
  <2> HIDE DEF kind, column
  <2>5. Numbered(kind, len) \cup NumberedFrom(len, column, n) = Numbered(kind, len + n)
    BY <2>4, KindsGrow
  <2> QED
    BY <2>1, <2>2, <2>3, <2>5 DEF Numbered, NumberedFrom
<1> QED
  BY <1>4, <1>5, <1>6

\* No row of a fact the ledger holds stands in the way of a new row.
Clear(row) ==
  \A o \in JournalRows : Backed(o) =>
    /\ ~MustPrecede(row, o)
    /\ ~Exclusive(row, o) /\ ~Exclusive(o, row)
    /\ ~Conflicts(row, o) /\ ~Conflicts(o, row)

\* The rows of one transaction fit each other.
Coherent(writes, n) ==
  \A i, j \in 1 .. n :
    /\ MustPrecede(writes[i].row, writes[j].row) => i < j
    /\ Exclusive(writes[i].row, writes[j].row) => i = j
    /\ ~Conflicts(writes[i].row, writes[j].row)

\* No transaction takes back what a row is about.
FactsKeep == \A row \in JournalRows : Backed(row) => Backed(row)'

\* What has to be said of the rows a transaction writes.
Fitting(writes, n) ==
  /\ \A i \in 1 .. n : IsWrite(writes[i]) /\ Clear(writes[i].row)
  /\ Coherent(writes, n)

LEMMA RowsStayFit ==
  ASSUME JournalTypeOK, RowsAreBacked, RowsFit, NEW n \in Nat, NEW writes,
         Grown(writes, n), Fitting(writes, n)
  PROVE  RowsFit'
<1> SUFFICES ASSUME NEW i \in DOMAIN journal', NEW j \in DOMAIN journal'
             PROVE  /\ MustPrecede(journal'[i], journal'[j]) => i < j
                    /\ Exclusive(journal'[i], journal'[j]) => i = j
                    /\ ~Conflicts(journal'[i], journal'[j])
  BY DEF RowsFit
<1>0. Len(journal) \in Nat /\ DOMAIN journal = 1 .. Len(journal) /\ DOMAIN journal' \subseteq Int
  BY DEF Grown
<1>1. \A p \in DOMAIN journal :
        journal'[p] = journal[p] /\ journal[p] \in JournalRows /\ Backed(journal[p])
  BY ElementOfSeq, <1>0 DEF Grown, JournalTypeOK, RowsAreBacked
<1>2. \A p \in DOMAIN journal' \ DOMAIN journal :
        \E m \in 1 .. n : p = Len(journal) + m /\ journal'[p] = writes[m].row
  BY DEF Grown
<1>3. CASE i \in DOMAIN journal /\ j \in DOMAIN journal
  BY <1>1, <1>3 DEF RowsFit
<1>4. CASE i \in DOMAIN journal /\ j \notin DOMAIN journal
  <2>1. PICK m \in 1 .. n : j = Len(journal) + m /\ journal'[j] = writes[m].row
    BY <1>2, <1>4
  <2>2. i < j
    BY <1>0, <1>4, <2>1
  <2> QED
    BY <1>1, <1>4, <2>1, <2>2 DEF Fitting, Clear
<1>5. CASE i \notin DOMAIN journal /\ j \in DOMAIN journal
  <2>1. PICK m \in 1 .. n : journal'[i] = writes[m].row
    BY <1>2, <1>5
  <2> QED
    BY <1>1, <1>5, <2>1 DEF Fitting, Clear
<1>6. CASE i \notin DOMAIN journal /\ j \notin DOMAIN journal
  <2>1. PICK m \in 1 .. n : i = Len(journal) + m /\ journal'[i] = writes[m].row
    BY <1>2, <1>6
  <2>2. PICK q \in 1 .. n : j = Len(journal) + q /\ journal'[j] = writes[q].row
    BY <1>2, <1>6
  <2>3. /\ MustPrecede(journal'[i], journal'[j]) => m < q
        /\ Exclusive(journal'[i], journal'[j]) => m = q
        /\ ~Conflicts(journal'[i], journal'[j])
    BY <2>1, <2>2 DEF Fitting, Coherent
  <2>4. (m < q => i < j) /\ (m = q => i = j)
    BY <1>0, <2>1, <2>2
  <2> QED
    BY <2>3, <2>4
<1> QED
  BY <1>3, <1>4, <1>5, <1>6

LEMMA RowsStayBacked ==
  ASSUME JournalTypeOK, RowsAreBacked, NEW n \in Nat, NEW writes, Grown(writes, n),
         FactsKeep, \A i \in 1 .. n : Backed(writes[i].row)'
  PROVE  RowsAreBacked'
<1> SUFFICES ASSUME NEW i \in DOMAIN journal', NEW row, row = journal'[i] PROVE Backed(row)'
  BY DEF RowsAreBacked
<1>0. Len(journal) \in Nat /\ DOMAIN journal = 1 .. Len(journal)
  BY DEF Grown
<1>1. CASE i \in DOMAIN journal
  <2>1. row = journal[i] /\ row \in JournalRows /\ Backed(journal[i])
    BY <1>0, <1>1, ElementOfSeq DEF Grown, JournalTypeOK, RowsAreBacked
  <2>2. Backed(row)
    BY <2>1
  <2> QED
    BY <2>1, <2>2 DEF FactsKeep
<1>2. CASE i \notin DOMAIN journal
  <2>1. PICK m \in 1 .. n : i = Len(journal) + m
    BY <1>2 DEF Grown
  <2>2. journal'[Len(journal) + m] = writes[m].row
    BY DEF Grown
  <2>3. row = writes[m].row
    BY <2>1, <2>2
  <2>4. Backed(writes[m].row)'
    OBVIOUS
  <2> QED
    BY <2>3, <2>4
<1> QED
  BY <1>1, <1>2

\* Fitting rows of facts that are there after the transaction keep it.
LEMMA RowsStayValid ==
  ASSUME RowsInv, NEW n \in Nat, NEW writes, DOMAIN writes = 1 .. n, Write(writes),
         Fitting(writes, n), FactsKeep, \A i \in 1 .. n : Backed(writes[i].row)',
         counters' \in [Runs -> CounterType]
  PROVE  RowsInv' /\ Grown(writes, n)
<1>1. journal' \in Seq(JournalRows) /\ Grown(writes, n)
  BY WriteGrows DEF RowsInv, Fitting, IsWrite
<1>2. RegistryValid' /\ AuditsValid' /\ DeliveriesAgree'
  BY BesideAgree DEF RowsInv, Fitting
<1>3. RowsFit'
  BY <1>1, RowsStayFit DEF RowsInv
<1>4. RowsAreBacked'
  BY <1>1, RowsStayBacked DEF RowsInv
<1> QED
  BY <1>1, <1>2, <1>3, <1>4 DEF RowsInv, JournalTypeOK

--------------------------------------------------------------------------------
(* The transactions are those of the ledger. *)

LEMMA FactsStepIsLedgerStep ==
  ASSUME [FactsNext]_factVars
  PROVE  [LedgerNext]_ledgerVars
<1>1. ASSUME NEW r \in Runs, FactsRunStep(r) PROVE RunStep(r) \/ UNCHANGED ledgerVars
  BY <1>1 DEF FactsRunStep, WriteInput, WriteCancellation, WriteReceipt, WriteActivation,
     WriteFinish, RunStep
<1>2. ASSUME NEW r \in Runs, NEW t \in Turns, FactsProviderStep(r, t) PROVE ProviderStep(r, t)
  <2>1. t # 0
    BY BoundAssumption DEF Turns
  <2>2. ASSUME NEW kind \in {"stopped", "failed", "uncertain"}, WriteFinish(r, t, kind)
        PROVE  ProviderStep(r, t)
    BY <2>2 DEF WriteFinish, ProviderStep
  <2>3. CASE WritePrepared(r, t) \/ WriteDispatched(r, t)
    BY <2>3 DEF WritePrepared, WriteDispatched, ProviderStep
  <2>4. CASE WriteAnswer(r, t) \/ WriteRejection(r, t)
    BY <2>4 DEF WriteAnswer, WriteRejection, ProviderStep
  <2>5. ASSUME NEW calls \in CallBatches, NEW commentary \in {0, 1},
               WriteToolTurn(r, t, calls, commentary)
        PROVE  ProviderStep(r, t)
    BY <2>5 DEF WriteToolTurn, ProviderStep
  <2> QED
    BY <1>2, <2>2, <2>3, <2>4, <2>5 DEF FactsProviderStep
<1>3. ASSUME NEW r \in Runs, NEW t \in Turns, NEW k \in Calls, FactsToolStep(r, t, k)
      PROVE  ToolStep(r, t, k)
  BY <1>3 DEF FactsToolStep, WriteToolPrepared, WriteToolDispatched, WriteToolResult, ToolStep
<1>4. ASSUME NEW c \in Commands, FactsCommandStep(c) PROVE CommandStep(c)
  BY <1>4 DEF FactsCommandStep, WriteCommand, WriteCommandActive, WriteCommandCancel,
     WriteCommandResult, CommandStep
<1>5. CASE UNCHANGED factVars
  BY <1>5 DEF factVars
<1>6. CASE \/ \E s \in Sessions : FactsSteeringStep(s)
           \/ PauseSteeringForRecovery /\ KeepRows
           \/ \E a \in Archives : FactsArchiveStep(a)
  BY <1>6 DEF FactsSteeringStep, FactsArchiveStep, LedgerNext
<1> QED
  BY <1>1, <1>2, <1>3, <1>4, <1>5, <1>6 DEF FactsNext, LedgerNext

\* Nothing that a row is about is withdrawn.
RunGrows(r) ==
  /\ runState[r] # "none" => runState'[r] # "none"
  /\ runState[r] \notin {"none", "accepted"} => runState'[r] \notin {"none", "accepted"}
  /\ runState[r] \in TerminalRunStates => runState'[r] = runState[r]
  /\ cancelRequested[r] => cancelRequested'[r]

OperationGrows(r, t) ==
  /\ providerFacts[<<r, t>>] \subseteq providerFacts'[<<r, t>>]
  /\ Len(toolCalls[<<r, t>>]) # 0 => toolCalls'[<<r, t>>] = toolCalls[<<r, t>>]
  /\ \A k \in Calls : toolFacts[<<r, t, k>>] \subseteq toolFacts'[<<r, t, k>>]

CommandGrows(c) ==
  /\ commandState[c] # "none" => commandState'[c] # "none"
  /\ commandState[c] \in TerminalCommandStates => commandState'[c] = commandState[c]

LedgerGrows ==
  /\ \A r \in Runs : RunGrows(r)
  /\ \A r \in Runs, t \in Turns : OperationGrows(r, t)
  /\ \A c \in Commands : CommandGrows(c)
  /\ \A s \in Sessions : highWater[s] <= highWater'[s]

\* The states of a run go forward.
LEMMA RunsGrow ==
  ASSUME LedgerTypeOK, RunEffect, NEW r \in Runs
  PROVE  RunGrows(r)
<1>1. ASSUME NEW q \in Runs, AcceptSessionInput(q) PROVE RunGrows(r)
  BY <1>1 DEF AcceptSessionInput, CanAcceptInput, LedgerTypeOK, RunGrows, TerminalRunStates
<1>2. ASSUME NEW q \in Runs, CancelRun(q) PROVE RunGrows(r)
  BY <1>2 DEF CancelRun, LedgerTypeOK, RunGrows
<1>3. ASSUME NEW q \in Runs, NEW state \in RunStates, IsLive(q), MayBecome(q, state),
             AppendRunTransition(q, state)
      PROVE  RunGrows(r)
  <2>1. state \notin {"none", "accepted"} /\ runState[q] \notin TerminalRunStates
    BY <1>3 DEF MayBecome, TerminalRunStates, IsLive, LiveRunStates
  <2>2. runState' = [runState EXCEPT ![q] = state] /\ cancelRequested' = cancelRequested
    BY <1>3 DEF AppendRunTransition
  <2> QED
    BY <2>1, <2>2 DEF LedgerTypeOK, RunGrows
<1>4. CASE UNCHANGED runVars
  BY <1>4 DEF runVars, RunGrows
<1> QED
  BY <1>1, <1>2, <1>3, <1>4 DEF RunEffect

\* The calls of a turn are committed once.
LEMMA CallsAreCommittedOnce ==
  ASSUME LedgerTypeOK, FactsShape, [LedgerNext]_ledgerVars, NEW r \in Runs, NEW t \in Turns,
         Len(toolCalls[<<r, t>>]) # 0
  PROVE  toolCalls'[<<r, t>>] = toolCalls[<<r, t>>]
<1>1. ASSUME NEW q \in Runs, NEW u \in Turns, NEW calls \in CallBatches, NEW commentary \in {0, 1},
             CompleteProviderToolTurn(q, u, calls, commentary)
      PROVE  toolCalls'[<<r, t>>] = toolCalls[<<r, t>>]
  <2>1. "completed" \notin providerFacts[<<q, u>>]
    BY <1>1 DEF CompleteProviderToolTurn, ProviderInFlight, ProviderPending, TerminalProviderFacts
  <2>2. <<q, u>> # <<r, t>>
    BY <2>1 DEF FactsShape, OperationShape, ToolShape
  <2>3. toolCalls' = [toolCalls EXCEPT ![<<q, u>>] = calls]
    BY <1>1 DEF CompleteProviderToolTurn
  <2> QED
    BY <2>2, <2>3 DEF LedgerTypeOK
<1>2. ASSUME NEW q \in Runs, NEW u \in Turns, ProviderStep(q, u)
      PROVE  toolCalls'[<<r, t>>] = toolCalls[<<r, t>>]
  BY <1>1, <1>2 DEF ProviderStep, PrepareProviderOperation, MarkProviderDispatched,
     CompleteRunSuccess, SettleContextRejection, FinishRun, toolVars
<1>3. ASSUME NEW q \in Runs, RunStep(q) PROVE UNCHANGED toolCalls
  BY <1>3 DEF RunStep, AcceptSessionInput, CancelRun, ActivateRun, FinishRun, toolVars
<1>4. ASSUME NEW q \in Runs, NEW u \in Turns, NEW k \in Calls, ToolStep(q, u, k)
      PROVE  UNCHANGED toolCalls
  BY <1>4 DEF ToolStep, PrepareToolOperation, MarkToolDispatched, CompleteToolResult, AddToolFact
<1>5. CASE UNCHANGED <<runVars, providerVars, toolVars>>
  BY <1>5 DEF toolVars
<1> QED
  BY <1>2, <1>3, <1>4, <1>5, OtherSteps

LEMMA TranscriptsGrow ==
  ASSUME LedgerTypeOK, [LedgerNext]_ledgerVars, NEW s \in Sessions
  PROVE  highWater[s] <= highWater'[s]
<1>0. \A z \in Sessions : highWater[z] \in Nat
  BY BoundAssumption DEF LedgerTypeOK
<1>1. ASSUME NEW z \in Sessions, NEW n \in Nat, AppendEntries(z, n)
      PROVE  highWater[s] <= highWater'[s]
  <2>1. highWater' = [highWater EXCEPT ![z] = highWater[z] + n]
    BY <1>1 DEF AppendEntries
  <2>2. highWater'[s] = highWater[s] \/ highWater'[s] = highWater[s] + n
    BY <2>1 DEF LedgerTypeOK
  <2> QED
    BY <1>0, <2>2
<1>2. CASE UNCHANGED highWater
  BY <1>0, <1>2
<1>3. ASSUME NEW r \in Runs, RunStep(r) PROVE highWater[s] <= highWater'[s]
  <2>1. AppendEntries(SessionOf[r], 1) \/ UNCHANGED highWater
    BY <1>3 DEF RunStep, AcceptSessionInput, CancelRun, ActivateRun, FinishRun
  <2> QED
    BY <1>1, <1>2, <2>1, SessionOfAssumption
<1>4. ASSUME NEW r \in Runs, NEW t \in Turns, ProviderStep(r, t)
      PROVE  highWater[s] <= highWater'[s]
  <2>1. \/ AppendEntries(SessionOf[r], 1) \/ UNCHANGED highWater
        \/ \E calls \in CallBatches, commentary \in {0, 1} :
             AppendEntries(SessionOf[r], Len(calls) + commentary)
    BY <1>4 DEF ProviderStep, PrepareProviderOperation, MarkProviderDispatched,
       CompleteRunSuccess, CompleteProviderToolTurn, SettleContextRejection, FinishRun
  <2>2. \A calls \in CallBatches, commentary \in {0, 1} : Len(calls) + commentary \in Nat
    BY DEF CallBatches, Calls
  <2> QED
    BY <1>1, <1>2, <2>1, <2>2, SessionOfAssumption
<1>5. ASSUME NEW r \in Runs, NEW t \in Turns, NEW k \in Calls, ToolStep(r, t, k)
      PROVE  highWater[s] <= highWater'[s]
  <2>1. AppendEntries(SessionOf[r], 1) \/ UNCHANGED highWater
    BY <1>5 DEF ToolStep, PrepareToolOperation, MarkToolDispatched, CompleteToolResult
  <2> QED
    BY <1>1, <1>2, <2>1, SessionOfAssumption
<1>6. ASSUME NEW c \in Commands, CommandStep(c) PROVE highWater[s] <= highWater'[s]
  <2>1. AppendEntries(SessionOf[c], 1) \/ UNCHANGED highWater
    BY <1>6 DEF CommandStep, AcceptLocalCommand, ActivateLocalCommand, CancelLocalCommand,
       CompleteLocalCommand
  <2> QED
    BY <1>1, <1>2, <2>1, SessionOfAssumption
<1>7. CASE \/ UNCHANGED ledgerVars \/ \E z \in Sessions : SteeringStep(z)
           \/ PauseSteeringForRecovery \/ \E a \in Archives : ArchiveStep(a)
  BY <1>2, <1>7 DEF ledgerVars, SteeringStep, EnqueueSteering, ResumeSteering,
     PauseSteeringQueue, PauseSteeringForRecovery, ArchiveStep, PrepareSessionArchive,
     CompleteSessionArchive
<1> QED
  BY <1>3, <1>4, <1>5, <1>6, <1>7 DEF LedgerNext

LEMMA CommandsGrow ==
  ASSUME LedgerTypeOK, [LedgerNext]_ledgerVars, NEW c \in Commands
  PROVE  CommandGrows(c)
<1>1. CASE UNCHANGED commandState
  BY <1>1 DEF CommandGrows
<1>2. ASSUME NEW d \in Commands, CommandStep(d) PROVE CommandGrows(c)
  BY <1>2 DEF CommandStep, AcceptLocalCommand, CanAcceptCommand, ActivateLocalCommand,
     CancelLocalCommand, CompleteLocalCommand, CanCompleteCommand, LedgerTypeOK, CommandGrows,
     TerminalCommandStates, LiveCommandStates
<1> QED
  BY <1>1, <1>2, CommandsKept

LEMMA LedgerOnlyGrows ==
  ASSUME LedgerTypeOK, FactsShape, [LedgerNext]_ledgerVars
  PROVE  LedgerGrows
<1>1. RunEffect
  BY NextEffect
<1>2. \A r \in Runs : RunGrows(r)
  BY <1>1, RunsGrow
<1>3. \A r \in Runs, t \in Turns : OperationGrows(r, t)
  BY FactsAreKept, CallsAreCommittedOnce DEF OperationGrows
<1> QED
  BY <1>2, <1>3, CommandsGrow, TranscriptsGrow DEF LedgerGrows

\* What rows are about stays.
LEMMA RowsKeepTheirFacts ==
  ASSUME LedgerTypeOK, LedgerTypeOK', LedgerGrows
  PROVE  FactsKeep
<1> SUFFICES ASSUME NEW row \in JournalRows, Backed(row) PROVE Backed(row)'
  BY DEF FactsKeep
<1>0. \A s \in Sessions : highWater[s] \in Nat /\ highWater'[s] \in Nat /\ highWater[s] <= highWater'[s]
  BY BoundAssumption DEF LedgerTypeOK, LedgerGrows
<1>1. ASSUME row \in AcceptedRowType \cup StateRowType \cup CancellationRowType PROVE Backed(row)'
  <2>1. row.of \in Runs /\ SessionOf[row.of] \in Sessions /\ RunGrows(row.of)
    BY <1>1, SessionOfAssumption DEF AcceptedRowType, StateRowType, CancellationRowType, LedgerGrows
  <2>2. row \in AcceptedRowType => row.seq \in Nat
    BY DEF AcceptedRowType
  <2> QED
    BY <1>0, <1>1, <2>1, <2>2
    DEF AcceptedRowType, StateRowType, CancellationRowType, Backed, RunGrows
<1>2. ASSUME row \in EntryRowType PROVE Backed(row)'
  <2>1. row.of \in Runs /\ SessionOf[row.of] \in Sessions /\ RunGrows(row.of) /\ row.seq \in Nat
    BY <1>2, SessionOfAssumption DEF EntryRowType, LedgerGrows
  <2>2. row.table = "entry"
    BY <1>2 DEF EntryRowType
  <2>3. runState'[row.of] # "none" /\ row.seq \in 1 .. highWater'[SessionOf[row.of]]
        /\ (row.kind = "answer" => runState'[row.of] = "succeeded")
    BY <1>0, <2>1, <2>2 DEF Backed, RunGrows, TerminalRunStates
  <2>4. ASSUME row.kind \in {"call", "result"}
        PROVE  /\ row.kind = "call" => IsCall(row.of, row.turn, row.call)'
               /\ row.kind = "result" => ToolSettled(row.of, row.turn, row.call)'
    <3>1. row.turn \in Turns /\ row.call \in Calls /\ OperationGrows(row.of, row.turn)
      BY <1>2, <2>1, <2>4 DEF EntryRowType, LedgerGrows
    <3>2. row.kind = "result" => ToolSettled(row.of, row.turn, row.call)'
      BY <2>2, <3>1 DEF Backed, ToolSettled, OperationGrows
    <3>3. ASSUME row.kind = "call" PROVE IsCall(row.of, row.turn, row.call)'
      <4>1. row.call <= Len(toolCalls[<<row.of, row.turn>>]) /\ row.call \in Nat /\ row.call >= 1
        BY <2>2, <3>1, <3>3 DEF Backed, IsCall, Calls
      <4>2. Len(toolCalls[<<row.of, row.turn>>]) \in Nat
        BY <2>1, <3>1, LenProperties DEF LedgerTypeOK
      <4>3. Len(toolCalls[<<row.of, row.turn>>]) # 0
        BY <4>1, <4>2
      <4> QED
        BY <3>1, <4>1, <4>3 DEF IsCall, OperationGrows
    <3> QED
      BY <3>2, <3>3
  <2> QED
    BY <2>2, <2>3, <2>4 DEF Backed
<1>3. ASSUME row \in ProviderRowType \cup ToolRowType PROVE Backed(row)'
  <2>1. row.of \in Runs /\ row.turn \in Turns /\ OperationGrows(row.of, row.turn)
    BY <1>3 DEF ProviderRowType, ToolRowType, LedgerGrows
  <2> QED
    BY <1>3, <2>1 DEF ProviderRowType, ToolRowType, Backed, OperationGrows
<1>4. ASSUME row \in CallRowType PROVE Backed(row)'
  <2>1. row.of \in Runs /\ row.turn \in Turns /\ OperationGrows(row.of, row.turn)
        /\ row.call \in Nat /\ row.call >= 1 /\ row.table = "call"
    BY <1>4 DEF CallRowType, LedgerGrows, Calls
  <2>2. row.call <= Len(toolCalls[<<row.of, row.turn>>])
    BY <2>1 DEF Backed, IsCall
  <2>3. Len(toolCalls[<<row.of, row.turn>>]) \in Nat
    BY <2>1, LenProperties DEF LedgerTypeOK
  <2>4. toolCalls'[<<row.of, row.turn>>] = toolCalls[<<row.of, row.turn>>]
    BY <2>1, <2>2, <2>3 DEF OperationGrows
  <2> QED
    BY <2>1, <2>4 DEF Backed, IsCall
<1>5. ASSUME row \in CommandRowType PROVE Backed(row)'
  <2>1. row.of \in Commands /\ SessionOf[row.of] \in Sessions /\ CommandGrows(row.of)
        /\ row.table = "command" /\ row.seq \in Nat
    BY <1>5, SessionOfAssumption DEF CommandRowType, LedgerGrows
  <2> QED
    BY <1>0, <2>1 DEF Backed, CommandGrows
<1> QED
  BY <1>1, <1>2, <1>3, <1>4, <1>5 DEF JournalRows

--------------------------------------------------------------------------------
(* New rows are clear of the rows that are there. *)

LEMMA RowFields ==
  ASSUME NEW o \in JournalRows
  PROVE  /\ o.table \in {"accepted", "entry", "state", "cancellation", "provider", "call",
                         "tool", "command"}
         /\ o.seq \in Nat
         /\ o.table # "command" => o.of \in Runs
         /\ o.table = "command" =>
              /\ o.of \in Commands
              /\ o.kind \in CommandKinds \cup TerminalCommandStates
              /\ o.kind \in CommandKinds => o.seq = 0
         /\ o.table \in {"provider", "call", "tool"} => o.turn \in Turns
         /\ o.table = "entry" /\ o.kind \in {"call", "result"} => o.turn \in Turns
         /\ o.table \in {"call", "tool"} => o.call \in Calls
         /\ o.table = "entry" /\ o.kind \in {"call", "result"} => o.call \in Calls
         /\ o.table = "state" => o.kind \in {"active"} \cup TerminalRunStates
<1>1. CASE o \in AcceptedRowType
  BY <1>1 DEF AcceptedRowType
<1>2. CASE o \in EntryRowType
  BY <1>2 DEF EntryRowType
<1>3. CASE o \in StateRowType
  BY <1>3 DEF StateRowType
<1>4. CASE o \in CancellationRowType
  BY <1>4 DEF CancellationRowType
<1>5. CASE o \in ProviderRowType
  BY <1>5 DEF ProviderRowType
<1>6. CASE o \in CallRowType
  BY <1>6 DEF CallRowType
<1>7. CASE o \in ToolRowType
  BY <1>7 DEF ToolRowType
<1>8. CASE o \in CommandRowType
  BY <1>8 DEF CommandRowType, CommandKinds, LiveCommandStates, TerminalCommandStates
<1> QED
  BY <1>1, <1>2, <1>3, <1>4, <1>5, <1>6, <1>7, <1>8 DEF JournalRows

\* A place behind the end of a transcript is free.
LEMMA PlaceIsFree ==
  ASSUME LedgerTypeOK, NEW s \in Sessions, NEW n \in Nat, n > highWater[s],
         NEW o \in JournalRows, Backed(o), InTranscript(o), SessionOf[o.of] = s
  PROVE  o.seq # n /\ o.seq < n
<1>1. highWater[s] \in Nat
  BY BoundAssumption DEF LedgerTypeOK
<1>2. o.seq \in 1 .. highWater[s]
  BY RowFields DEF Backed, InTranscript, CommandKinds, TerminalCommandStates
<1> QED
  BY <1>1, <1>2

LEMMA AcceptedIsClear ==
  ASSUME LedgerTypeOK, FactsShape, NEW r \in Runs, runState[r] = "none", NEW seq \in Nat
  PROVE  Clear(Row("accepted", r, 0, 0, "accepted", seq))
<1> DEFINE row == Row("accepted", r, 0, 0, "accepted", seq)
<1> SUFFICES ASSUME NEW o \in JournalRows, Backed(o)
             PROVE  /\ ~MustPrecede(row, o)
                    /\ ~Exclusive(row, o) /\ ~Exclusive(o, row)
                    /\ ~Conflicts(row, o) /\ ~Conflicts(o, row)
  BY DEF Clear
<1>1. /\ row.table = "accepted" /\ row.of = r /\ row.kind = "accepted"
      /\ ~InTranscript(row)
  BY DEF Row, InTranscript
<1> HIDE DEF row
<1>2. \A t \in Turns :
        /\ providerFacts[<<r, t>>] = {} /\ Len(toolCalls[<<r, t>>]) = 0
        /\ \A k \in Calls : toolFacts[<<r, t, k>>] = {}
  <2> TAKE t \in Turns
  <2>1. providerFacts[<<r, t>>] = {} /\ Len(toolCalls[<<r, t>>]) = 0
    BY DEF FactsShape, OperationShape, ToolShape
  <2>2. \A k \in Calls : ~IsCall(r, t, k)
    BY <2>1 DEF IsCall, Calls
  <2> QED
    BY <2>1, <2>2 DEF FactsShape, OperationShape, ToolShape
<1>3. o.of = r => o.table \notin {"accepted", "entry", "state", "provider", "tool"}
  BY <1>2, RowFields DEF Backed
<1>4. o.of = r => o.table # "call"
  BY <1>2, RowFields DEF Backed, IsCall, Calls
<1> QED
  BY <1>1, <1>3, <1>4 DEF MustPrecede, Exclusive, Conflicts

LEMMA StateIsClear ==
  ASSUME LedgerTypeOK, NEW r \in Runs, IsLive(r), NEW state,
         state \in TerminalRunStates \/ (state = "active" /\ runState[r] = "accepted")
  PROVE  Clear(Row("state", r, 0, 0, state, 0))
<1> DEFINE row == Row("state", r, 0, 0, state, 0)
<1> SUFFICES ASSUME NEW o \in JournalRows, Backed(o)
             PROVE  /\ ~MustPrecede(row, o)
                    /\ ~Exclusive(row, o) /\ ~Exclusive(o, row)
                    /\ ~Conflicts(row, o) /\ ~Conflicts(o, row)
  BY DEF Clear
<1>1. row.table = "state" /\ row.of = r /\ row.kind = state /\ ~InTranscript(row)
  BY DEF Row, InTranscript
<1> HIDE DEF row
<1>2. o.table = "state" /\ o.of = r => o.kind \notin TerminalRunStates
  BY DEF Backed, IsLive, LiveRunStates, TerminalRunStates
<1>3. o.table = "state" /\ o.of = r => o.kind = "active" /\ runState[r] # "accepted"
  BY <1>2, RowFields DEF Backed
<1>4. state = "active" => state \notin TerminalRunStates
  BY DEF TerminalRunStates
<1> QED
  BY <1>1, <1>2, <1>3, <1>4 DEF MustPrecede, Exclusive, Conflicts, SameOrBoth

LEMMA CancellationIsClear ==
  ASSUME NEW r \in Runs, NEW intent
  PROVE  Clear(Row("cancellation", r, 0, 0, intent, 0))
<1>1. /\ Row("cancellation", r, 0, 0, intent, 0).table = "cancellation"
      /\ ~InTranscript(Row("cancellation", r, 0, 0, intent, 0))
  BY DEF Row, InTranscript
<1> QED
  BY <1>1 DEF Clear, MustPrecede, Exclusive, Conflicts

LEMMA UserIsClear ==
  ASSUME LedgerTypeOK, NEW r \in Runs, runState[r] = "none",
         NEW n \in Nat, n > highWater[SessionOf[r]]
  PROVE  Clear(Row("entry", r, 0, 0, "user", n))
<1> DEFINE row == Row("entry", r, 0, 0, "user", n)
<1> SUFFICES ASSUME NEW o \in JournalRows, Backed(o)
             PROVE  /\ ~MustPrecede(row, o)
                    /\ ~Exclusive(row, o) /\ ~Exclusive(o, row)
                    /\ ~Conflicts(row, o) /\ ~Conflicts(o, row)
  BY DEF Clear
<1>1. row.table = "entry" /\ row.of = r /\ row.kind = "user" /\ row.seq = n
  BY DEF Row
<1> HIDE DEF row
<1>2. InTranscript(o) /\ SessionOf[o.of] = SessionOf[r] => o.seq # n
  BY PlaceIsFree, SessionOfAssumption
<1>3. o.of = r => o.table \notin {"accepted", "entry", "state"}
  BY DEF Backed
<1> QED
  BY <1>1, <1>2, <1>3 DEF MustPrecede, Exclusive, Conflicts

LEMMA EntryIsClear ==
  ASSUME LedgerTypeOK, NEW r \in Runs, IsLive(r), NEW t, NEW k,
         NEW kind \in {"commentary", "answer", "call", "result"},
         NEW n \in Nat, n > highWater[SessionOf[r]],
         kind = "call" => ~IsCall(r, t, k), kind = "result" => ~ToolSettled(r, t, k)
  PROVE  Clear(Row("entry", r, t, k, kind, n))
<1> DEFINE row == Row("entry", r, t, k, kind, n)
<1> SUFFICES ASSUME NEW o \in JournalRows, Backed(o)
             PROVE  /\ ~MustPrecede(row, o)
                    /\ ~Exclusive(row, o) /\ ~Exclusive(o, row)
                    /\ ~Conflicts(row, o) /\ ~Conflicts(o, row)
  BY DEF Clear
<1>1. /\ row.table = "entry" /\ row.of = r /\ row.kind = kind /\ row.seq = n
      /\ row.turn = t /\ row.call = k
  BY DEF Row
<1> HIDE DEF row
<1>2. InTranscript(o) /\ SessionOf[o.of] = SessionOf[r] => o.seq # n
  BY PlaceIsFree, SessionOfAssumption
<1>3. o.of = r /\ o.table = "state" => o.kind \notin TerminalRunStates
  BY DEF Backed, IsLive, LiveRunStates, TerminalRunStates
<1>4. o.of = r /\ o.table = "entry" /\ o.kind = "answer" => FALSE
  BY DEF Backed, IsLive, LiveRunStates
<1>5. o.of = r /\ o.table = "entry" /\ o.kind = kind /\ SameCall(o, row) => kind \notin {"call", "result"}
  BY <1>1 DEF Backed, SameCall
<1>6. ~MustPrecede(row, o) /\ ~Conflicts(row, o) /\ ~Conflicts(o, row)
  BY <1>1, <1>3 DEF MustPrecede, Conflicts
<1>7. SameCall(o, row) <=> SameCall(row, o)
  BY DEF SameCall
<1> QED
  BY <1>1, <1>2, <1>4, <1>5, <1>6, <1>7 DEF Exclusive

LEMMA ProviderIsClear ==
  ASSUME LedgerTypeOK, FactsShape, NEW r \in Runs, NEW t \in Turns, NEW fact, NEW source \in Nat,
         IsLive(r),
         \/ /\ fact = "prepared" /\ providerFacts[<<r, t>>] = {}
            /\ source = highWater[SessionOf[r]]
         \/ /\ fact = "dispatched" /\ ProviderPending(r, t)
            /\ "dispatched" \notin providerFacts[<<r, t>>]
         \/ fact \in TerminalProviderFacts /\ ProviderPending(r, t)
  PROVE  Clear(Row("provider", r, t, 0, fact, source))
<1> DEFINE row == Row("provider", r, t, 0, fact, source)
<1> SUFFICES ASSUME NEW o \in JournalRows, Backed(o)
             PROVE  /\ ~MustPrecede(row, o)
                    /\ ~Exclusive(row, o) /\ ~Exclusive(o, row)
                    /\ ~Conflicts(row, o) /\ ~Conflicts(o, row)
  BY DEF Clear
<1>1. /\ row.table = "provider" /\ row.of = r /\ row.kind = fact /\ row.seq = source
      /\ row.turn = t /\ ~InTranscript(row)
  BY DEF Row, InTranscript
<1> HIDE DEF row
<1>2. o.of = r /\ o.table = "state" => o.kind \notin TerminalRunStates
  BY DEF Backed, IsLive, LiveRunStates, TerminalRunStates
<1>3. o.of = r /\ o.table = "provider" /\ o.turn = t => o.kind \in providerFacts[<<r, t>>]
  BY DEF Backed
<1>4. o.of = r /\ o.table = "call" /\ o.turn = t => "completed" \in providerFacts[<<r, t>>]
  <2> SUFFICES ASSUME o.of = r, o.table = "call", o.turn = t
               PROVE  "completed" \in providerFacts[<<r, t>>]
    OBVIOUS
  <2>1. o.call <= Len(toolCalls[<<r, t>>]) /\ o.call \in Nat /\ o.call >= 1
    BY RowFields DEF Backed, IsCall, Calls
  <2> QED
    BY <2>1 DEF FactsShape, OperationShape, ToolShape
<1>5. fact = "completed" => fact \in TerminalProviderFacts
  BY DEF TerminalProviderFacts
<1>6. ~MustPrecede(row, o)
  <2>1. ~(o.of = r /\ o.table = "provider" /\ o.turn = t
          /\ (\/ fact = "prepared" /\ o.kind # "prepared"
              \/ fact = "dispatched" /\ o.kind \in TerminalProviderFacts))
    BY <1>3 DEF ProviderPending, TerminalProviderFacts
  <2>2. ~(o.of = r /\ o.table = "call" /\ o.turn = t /\ fact = "completed")
    BY <1>4, <1>5 DEF ProviderPending, TerminalProviderFacts
  <2> QED
    BY <1>1, <1>2, <2>1, <2>2 DEF MustPrecede
<1>7. ~(o.of = r /\ o.table = "provider" /\ o.turn = t
        /\ (o.kind = fact \/ (o.kind \in TerminalProviderFacts /\ fact \in TerminalProviderFacts)))
  BY <1>3 DEF ProviderPending, TerminalProviderFacts
<1>8. ~Exclusive(row, o) /\ ~Exclusive(o, row)
  BY <1>1, <1>7 DEF Exclusive, SameOrBoth
<1>9. o.of = r /\ o.table = "accepted" => o.seq <= highWater[SessionOf[r]]
  BY DEF Backed
<1>10. ~Conflicts(row, o) /\ ~Conflicts(o, row)
  <2>1. ASSUME o.of = r, o.table = "accepted", fact = "prepared", source < o.seq PROVE FALSE
    <3>1. source = highWater[SessionOf[r]] /\ o.seq \in Nat
      BY <2>1, RowFields DEF TerminalProviderFacts
    <3> QED
      BY <1>9, <2>1, <3>1
  <2> QED
    BY <1>1, <2>1 DEF Conflicts
<1> QED
  BY <1>6, <1>8, <1>10

LEMMA CallIsClear ==
  ASSUME LedgerTypeOK, FactsShape, NEW r \in Runs, NEW t \in Turns, NEW k \in Calls,
         ~IsCall(r, t, k), NEW kind
  PROVE  Clear(Row("call", r, t, k, kind, 0))
<1> DEFINE row == Row("call", r, t, k, kind, 0)
<1> SUFFICES ASSUME NEW o \in JournalRows, Backed(o)
             PROVE  /\ ~MustPrecede(row, o)
                    /\ ~Exclusive(row, o) /\ ~Exclusive(o, row)
                    /\ ~Conflicts(row, o) /\ ~Conflicts(o, row)
  BY DEF Clear
<1>1. /\ row.table = "call" /\ row.of = r /\ row.turn = t /\ row.call = k /\ ~InTranscript(row)
  BY DEF Row, InTranscript
<1> HIDE DEF row
<1>2. ~(o.of = r /\ o.turn = t /\ o.call = k
        /\ (o.table \in {"call", "tool"} \/ (o.table = "entry" /\ o.kind = "call")))
  <2>1. toolFacts[<<r, t, k>>] = {}
    BY DEF FactsShape, OperationShape, ToolShape
  <2> QED
    BY <2>1 DEF Backed
<1> QED
  BY <1>1, <1>2 DEF MustPrecede, Exclusive, Conflicts, SameCall

LEMMA ToolIsClear ==
  ASSUME NEW r \in Runs, NEW t \in Turns, NEW k \in Calls, NEW fact,
         \/ fact = "prepared" /\ toolFacts[<<r, t, k>>] = {}
         \/ /\ fact = "dispatched" /\ ~ToolSettled(r, t, k)
            /\ "dispatched" \notin toolFacts[<<r, t, k>>]
         \/ fact \in TerminalToolFacts /\ ~ToolSettled(r, t, k)
  PROVE  Clear(Row("tool", r, t, k, fact, 0))
<1> DEFINE row == Row("tool", r, t, k, fact, 0)
<1> SUFFICES ASSUME NEW o \in JournalRows, Backed(o)
             PROVE  /\ ~MustPrecede(row, o)
                    /\ ~Exclusive(row, o) /\ ~Exclusive(o, row)
                    /\ ~Conflicts(row, o) /\ ~Conflicts(o, row)
  BY DEF Clear
<1>1. /\ row.table = "tool" /\ row.of = r /\ row.turn = t /\ row.call = k
      /\ row.kind = fact /\ ~InTranscript(row)
  BY DEF Row, InTranscript
<1> HIDE DEF row
<1>2. o.of = r /\ SameCall(row, o) /\ o.table = "tool" => o.kind \in toolFacts[<<r, t, k>>]
  BY <1>1 DEF Backed, SameCall
<1>3. o.of = r /\ SameCall(row, o) /\ o.table = "entry" /\ o.kind = "result" => ToolSettled(r, t, k)
  BY <1>1 DEF Backed, SameCall
<1>4. ~(o.of = r /\ SameCall(row, o) /\ o.table = "tool"
        /\ (\/ fact = "prepared" /\ o.kind # "prepared"
            \/ fact = "dispatched" /\ o.kind \in TerminalToolFacts
            \/ o.kind = fact
            \/ o.kind \in TerminalToolFacts /\ fact \in TerminalToolFacts))
  BY <1>2 DEF ToolSettled, TerminalToolFacts
<1>5. ~(o.of = r /\ SameCall(row, o) /\ o.table = "entry" /\ o.kind = "result"
        /\ fact \in TerminalToolFacts)
  BY <1>3 DEF ToolSettled, TerminalToolFacts
<1>6. SameCall(o, row) <=> SameCall(row, o)
  BY DEF SameCall
<1> QED
  BY <1>1, <1>4, <1>5, <1>6 DEF MustPrecede, Exclusive, Conflicts, SameOrBoth

LEMMA CommandIsClear ==
  ASSUME LedgerTypeOK, NEW c \in Commands, commandState[c] \notin TerminalCommandStates,
         NEW kind, NEW seq \in Nat,
         \/ kind \in CommandKinds /\ seq = 0
         \/ kind \in TerminalCommandStates /\ seq > highWater[SessionOf[c]]
  PROVE  Clear(Row("command", c, 0, 0, kind, seq))
<1> DEFINE row == Row("command", c, 0, 0, kind, seq)
<1> SUFFICES ASSUME NEW o \in JournalRows, Backed(o)
             PROVE  /\ ~MustPrecede(row, o)
                    /\ ~Exclusive(row, o) /\ ~Exclusive(o, row)
                    /\ ~Conflicts(row, o) /\ ~Conflicts(o, row)
  BY DEF Clear
<1>1. row.table = "command" /\ row.of = c /\ row.kind = kind /\ row.seq = seq
  BY DEF Row
<1> HIDE DEF row
<1>2. o.of = c /\ o.table = "command" => o.kind \notin TerminalCommandStates
  BY DEF Backed
<1>3. InTranscript(row) => seq > highWater[SessionOf[c]]
  <2>1. SessionOf[c] \in Sessions
    BY SessionOfAssumption
  <2> QED
    BY <1>1, <2>1 DEF InTranscript
<1>4. ~(InTranscript(row) /\ InTranscript(o) /\ SessionOf[o.of] = SessionOf[c] /\ o.seq = seq)
  BY <1>3, PlaceIsFree, SessionOfAssumption
<1>5. ~(kind \in CommandKinds /\ kind \in TerminalCommandStates)
  BY DEF CommandKinds, LiveCommandStates, TerminalCommandStates
<1> QED
  BY <1>1, <1>2, <1>4 DEF MustPrecede, Exclusive, Conflicts

--------------------------------------------------------------------------------
(* What the ledger holds has rows after a transaction: the parts it leaves *)
(* alone, and those it adds to.                                            *)

LEMMA NewRow ==
  ASSUME NEW n, NEW writes, Grown(writes, n), NEW p \in DOMAIN journal', p \notin DOMAIN journal
  PROVE  \E i \in 1 .. n : p = Len(journal) + i /\ journal'[p] = writes[i].row
<1>1. PICK i \in 1 .. n : p = Len(journal) + i
  BY DEF Grown
<1>2. journal'[Len(journal) + i] = writes[i].row
  BY DEF Grown
<1> QED
  BY <1>1, <1>2

LEMMA WrittenKept ==
  ASSUME NEW n, NEW writes, Grown(writes, n), NEW table, NEW of, NEW t, NEW k, NEW kind,
         IsWritten(table, of, t, k, kind)
  PROVE  IsWritten(table, of, t, k, kind)'
BY DEF Grown, IsWritten

LEMMA NewIsWritten ==
  ASSUME NEW n, NEW writes, Grown(writes, n), NEW i \in 1 .. n,
         NEW table, NEW of, NEW t, NEW k, NEW kind, NEW seq,
         writes[i].row = Row(table, of, t, k, kind, seq)
  PROVE  IsWritten(table, of, t, k, kind)'
<1>1. Len(journal) + i \in DOMAIN journal' /\ journal'[Len(journal) + i] = writes[i].row
  BY DEF Grown
<1> QED
  BY <1>1 DEF IsWritten, Row

LEMMA RunsUnmoved ==
  ASSUME NEW n, NEW writes, Grown(writes, n), RunsAreWritten,
         UNCHANGED <<runState, cancelRequested>>
  PROVE  RunsAreWritten'
<1> SUFFICES ASSUME NEW r \in Runs, NEW state, state = runState[r]
             PROVE  RunIsWritten(r)'
  BY DEF RunsAreWritten
<1>1. state = runState'[r] /\ cancelRequested'[r] = cancelRequested[r]
  OBVIOUS
<1>2. RunIsWritten(r)
  BY DEF RunsAreWritten
<1>3. state # "none" => IsWritten("accepted", r, 0, 0, "accepted")' /\ IsWritten("entry", r, 0, 0, "user")'
  BY <1>2, WrittenKept DEF RunIsWritten
<1>4. state \notin {"none", "accepted"} => IsWritten("state", r, 0, 0, state)'
  BY <1>2, WrittenKept DEF RunIsWritten
<1>5. state = "succeeded" => \E t \in Turns : IsWritten("entry", r, t, 0, "answer")'
  BY <1>2, WrittenKept DEF RunIsWritten
<1>6. cancelRequested[r] => IsWritten("cancellation", r, 0, 0, "applied")'
  BY <1>2, WrittenKept DEF RunIsWritten
<1> QED
  BY <1>1, <1>3, <1>4, <1>5, <1>6 DEF RunIsWritten

\* A transition of run q has its row.
LEMMA RunMoved ==
  ASSUME LedgerTypeOK, NEW n, NEW writes, Grown(writes, n), RunsAreWritten, NEW q \in Runs,
         NEW state, state \notin {"none", "accepted"}, runState[q] # "none",
         runState' = [runState EXCEPT ![q] = state], UNCHANGED cancelRequested,
         IsWritten("state", q, 0, 0, state)',
         state = "succeeded" => \E t \in Turns : IsWritten("entry", q, t, 0, "answer")'
  PROVE  RunsAreWritten'
<1> SUFFICES ASSUME NEW r \in Runs, NEW now, now = runState'[r]
             PROVE  RunIsWritten(r)'
  BY DEF RunsAreWritten
<1>1. cancelRequested'[r] = cancelRequested[r]
  OBVIOUS
<1>2. RunIsWritten(r)
  BY DEF RunsAreWritten
<1>3. (r = q /\ now = state) \/ (r # q /\ now = runState[r])
  BY DEF LedgerTypeOK
<1>4. now # "none" => IsWritten("accepted", r, 0, 0, "accepted")' /\ IsWritten("entry", r, 0, 0, "user")'
  BY <1>2, <1>3, WrittenKept DEF RunIsWritten
<1>5. now \notin {"none", "accepted"} => IsWritten("state", r, 0, 0, now)'
  BY <1>2, <1>3, WrittenKept DEF RunIsWritten
<1>6. now = "succeeded" => \E t \in Turns : IsWritten("entry", r, t, 0, "answer")'
  BY <1>2, <1>3, WrittenKept DEF RunIsWritten
<1>7. cancelRequested[r] => IsWritten("cancellation", r, 0, 0, "applied")'
  BY <1>2, WrittenKept DEF RunIsWritten
<1> QED
  BY <1>1, <1>4, <1>5, <1>6, <1>7 DEF RunIsWritten

LEMMA OperationsUnmoved ==
  ASSUME NEW n, NEW writes, Grown(writes, n), OperationsAreWritten, UNCHANGED providerFacts
  PROVE  OperationsAreWritten'
BY WrittenKept DEF OperationsAreWritten

LEMMA OperationMoved ==
  ASSUME LedgerTypeOK, NEW n, NEW writes, Grown(writes, n), OperationsAreWritten,
         NEW q \in Runs, NEW u \in Turns, NEW fact,
         providerFacts' = [providerFacts EXCEPT ![<<q, u>>] = providerFacts[<<q, u>>] \cup {fact}],
         IsWritten("provider", q, u, 0, fact)'
  PROVE  OperationsAreWritten'
<1> SUFFICES ASSUME NEW r \in Runs, NEW t \in Turns, NEW f \in providerFacts'[<<r, t>>]
             PROVE  IsWritten("provider", r, t, 0, f)'
  BY DEF OperationsAreWritten
<1>1. (r = q /\ t = u /\ f = fact) \/ f \in providerFacts[<<r, t>>]
  BY DEF LedgerTypeOK
<1> QED
  BY <1>1, WrittenKept DEF OperationsAreWritten

LEMMA CallsUnmoved ==
  ASSUME NEW n, NEW writes, Grown(writes, n), CallsAreWritten, UNCHANGED toolCalls
  PROVE  CallsAreWritten'
<1> SUFFICES ASSUME NEW r \in Runs, NEW t \in Turns, NEW k \in Calls, IsCall(r, t, k)',
                    NEW kind, kind = toolCalls[<<r, t>>][k]
             PROVE  /\ IsWritten("call", r, t, k, kind)'
                    /\ IsWritten("entry", r, t, k, "call")'
  BY DEF CallsAreWritten
<1>1. IsCall(r, t, k)
  BY DEF IsCall
<1> QED
  BY <1>1, WrittenKept DEF CallsAreWritten

LEMMA ToolsUnmoved ==
  ASSUME NEW n, NEW writes, Grown(writes, n), ToolsAreWritten, UNCHANGED toolFacts
  PROVE  ToolsAreWritten'
BY WrittenKept DEF ToolsAreWritten, ToolSettled

LEMMA ToolMoved ==
  ASSUME LedgerTypeOK, NEW n, NEW writes, Grown(writes, n), ToolsAreWritten,
         NEW q \in Runs, NEW u \in Turns, NEW m \in Calls, NEW fact,
         toolFacts' = [toolFacts EXCEPT ![<<q, u, m>>] = toolFacts[<<q, u, m>>] \cup {fact}],
         IsWritten("tool", q, u, m, fact)',
         fact \in TerminalToolFacts => IsWritten("entry", q, u, m, "result")'
  PROVE  ToolsAreWritten'
<1> SUFFICES ASSUME NEW r \in Runs, NEW t \in Turns, NEW k \in Calls
             PROVE  /\ \A f \in toolFacts'[<<r, t, k>>] : IsWritten("tool", r, t, k, f)'
                    /\ ToolSettled(r, t, k)' => IsWritten("entry", r, t, k, "result")'
  BY DEF ToolsAreWritten
<1>1. \/ r = q /\ t = u /\ k = m /\ toolFacts'[<<r, t, k>>] = toolFacts[<<r, t, k>>] \cup {fact}
      \/ toolFacts'[<<r, t, k>>] = toolFacts[<<r, t, k>>]
  BY DEF LedgerTypeOK
<1>2. \A f \in toolFacts[<<r, t, k>>] : IsWritten("tool", r, t, k, f)'
  BY WrittenKept DEF ToolsAreWritten
<1>3. ToolSettled(r, t, k) => IsWritten("entry", r, t, k, "result")'
  BY WrittenKept DEF ToolsAreWritten
<1> QED
  BY <1>1, <1>2, <1>3 DEF ToolSettled

\* The n writes are not of the kinds that name a context or are counted.
Plain(writes, n) ==
  \A i \in 1 .. n :
    /\ writes[i].row.table # "call"
    /\ writes[i].row.table = "provider" => writes[i].row.kind \notin {"prepared", "completed"}

LEMMA PlaceKept ==
  ASSUME NEW n, NEW writes, Grown(writes, n), NEW i \in DOMAIN journal, NEW s, NEW place,
         IsPlace(i, s, place)
  PROVE  i \in DOMAIN journal' /\ IsPlace(i, s, place)' /\ journal'[i] = journal[i]
BY DEF Grown, IsPlace, InTranscript

LEMMA SourcesKept ==
  ASSUME NEW n, NEW writes, Grown(writes, n), PreparedHaveSource,
         \A i \in 1 .. n : ~(writes[i].row.table = "provider" /\ writes[i].row.kind = "prepared")
  PROVE  PreparedHaveSource'
<1> SUFFICES ASSUME NEW p \in DOMAIN journal', NEW row, row = journal'[p],
                    row.table = "provider", row.kind = "prepared"
             PROVE  \E i \in DOMAIN journal' :
                      i < p /\ journal'[i].table = "entry" /\ IsPlace(i, SessionOf[row.of], row.seq)'
  BY DEF PreparedHaveSource
<1>1. p \in DOMAIN journal /\ journal[p] = row
  <2>1. p \in DOMAIN journal
    BY NewRow
  <2> QED
    BY <2>1 DEF Grown
<1>2. PICK i \in DOMAIN journal :
        i < p /\ journal[i].table = "entry" /\ IsPlace(i, SessionOf[row.of], row.seq)
  BY <1>1 DEF PreparedHaveSource
<1> QED
  BY <1>2, PlaceKept

LEMMA TranscriptUnmoved ==
  ASSUME NEW n, NEW writes, Grown(writes, n), TranscriptIsWhole, UNCHANGED highWater
  PROVE  TranscriptIsWhole'
<1> SUFFICES ASSUME NEW s \in Sessions, NEW place \in 1 .. highWater'[s]
             PROVE  \E i \in DOMAIN journal' : IsPlace(i, s, place)'
  BY DEF TranscriptIsWhole
<1>1. PICK i \in DOMAIN journal : IsPlace(i, s, place)
  BY DEF TranscriptIsWhole
<1> QED
  BY <1>1, PlaceKept

LEMMA LiveRunsUnmoved ==
  ASSUME NEW n, NEW writes, Grown(writes, n), LiveRunReadsEntry, UNCHANGED highWater,
         \A r \in Runs : IsLive(r)' => IsLive(r)
  PROVE  LiveRunReadsEntry'
<1> SUFFICES ASSUME NEW r \in Runs, IsLive(r)', NEW place, place = highWater[SessionOf[r]]
             PROVE  \E i \in DOMAIN journal' :
                      journal'[i].table = "entry" /\ IsPlace(i, SessionOf[r], place)'
  BY DEF LiveRunReadsEntry
<1>1. PICK i \in DOMAIN journal :
        journal[i].table = "entry" /\ IsPlace(i, SessionOf[r], place)
  BY DEF LiveRunReadsEntry
<1> QED
  BY <1>1, PlaceKept

LEMMA SameRows ==
  ASSUME NEW n, NEW writes, Grown(writes, n), NEW table, NEW of, NEW kinds,
         \A i \in 1 .. n : ~(/\ writes[i].row.table = table /\ writes[i].row.of = of
                             /\ writes[i].row.kind \in kinds)
  PROVE  Rows(table, of, kinds)' = Rows(table, of, kinds)
<1>1. \A p \in DOMAIN journal' :
        journal'[p].table = table /\ journal'[p].of = of /\ journal'[p].kind \in kinds =>
          p \in DOMAIN journal
  BY NewRow
<1>2. \A p \in DOMAIN journal : p \in DOMAIN journal' /\ journal'[p] = journal[p]
  BY DEF Grown
<1> QED
  BY <1>1, <1>2 DEF Rows

LEMMA CountsKept ==
  ASSUME NEW n, NEW writes, Grown(writes, n), CountersAgree, NEW r \in Runs,
         counters'[r] = counters[r],
         \A i \in 1 .. n : writes[i].row.of = r =>
           /\ writes[i].row.table # "call"
           /\ ~(writes[i].row.table = "provider" /\ writes[i].row.kind = "completed")
  PROVE  RebuiltCounts(r)' = counters'[r]
<1>1. Rows("provider", r, {"completed"})' = Rows("provider", r, {"completed"})
  BY SameRows
<1>2. Rows("call", r, ToolKinds)' = Rows("call", r, ToolKinds)
  BY SameRows
<1>3. Rows("call", r, {"mutation"})' = Rows("call", r, {"mutation"})
  BY SameRows
<1>4. RebuiltCounts(r) = counters[r]
  BY DEF CountersAgree
<1> QED
  BY <1>1, <1>2, <1>3, <1>4 DEF RebuiltCounts

\* Plain writes beside an unchanged transcript leave these parts as they are.
LEMMA PlainWrites ==
  ASSUME RowsAreComplete, NEW n, NEW writes, Grown(writes, n), Plain(writes, n),
         UNCHANGED <<highWater, toolCalls, counters>>, \A r \in Runs : IsLive(r)' => IsLive(r)
  PROVE  /\ CallsAreWritten' /\ TranscriptIsWhole' /\ LiveRunReadsEntry' /\ PreparedHaveSource'
         /\ CountersAgree'
<1>1. CallsAreWritten' /\ TranscriptIsWhole' /\ LiveRunReadsEntry'
  BY CallsUnmoved, TranscriptUnmoved, LiveRunsUnmoved DEF RowsAreComplete
<1>2. PreparedHaveSource'
  BY SourcesKept DEF RowsAreComplete, Plain
<1>3. \A r \in Runs : RebuiltCounts(r)' = counters'[r]
  BY CountsKept DEF RowsAreComplete, Plain
<1> QED
  BY <1>1, <1>2, <1>3 DEF CountersAgree

--------------------------------------------------------------------------------
(* The shape of what a run has begun. *)

LEMMA OperationShapeKept ==
  ASSUME FactsShape, NEW r \in Runs, NEW t \in Turns, RunGrows(r), UNCHANGED toolCalls,
         \A v \in Turns : providerFacts'[<<r, v>>] = providerFacts[<<r, v>>]
  PROVE  OperationShape(r, t)'
<1>1. \A v \in 1 .. (t - 1) : v \in Turns
  BY BoundAssumption DEF Turns
<1>2. OperationShape(r, t)
  BY DEF FactsShape
<1> QED
  BY <1>1, <1>2 DEF OperationShape, RunGrows

LEMMA ToolShapeKept ==
  ASSUME FactsShape, NEW r \in Runs, NEW t \in Turns, NEW k \in Calls, RunGrows(r),
         toolCalls'[<<r, t>>] = toolCalls[<<r, t>>],
         toolFacts'[<<r, t, k>>] = toolFacts[<<r, t, k>>]
  PROVE  ToolShape(r, t, k)'
<1>1. ToolShape(r, t, k)
  BY DEF FactsShape
<1> QED
  BY <1>1 DEF ToolShape, RunGrows, IsCall, TerminalRunStates

LEMMA ShapeKept ==
  ASSUME FactsShape, \A r \in Runs : RunGrows(r),
         UNCHANGED <<providerFacts, toolCalls, toolFacts>>
  PROVE  FactsShape'
BY OperationShapeKept, ToolShapeKept DEF FactsShape

\* A fact of operation u of run q: the first of the next operation, or one more of a
\* prepared one.
LEMMA ShapeOfOperation ==
  ASSUME LedgerTypeOK, FactsShape, \A r \in Runs : RunGrows(r), NEW q \in Runs, NEW u \in Turns,
         NEW fact, UNCHANGED <<toolCalls, toolFacts>>,
         providerFacts' = [providerFacts EXCEPT ![<<q, u>>] = providerFacts[<<q, u>>] \cup {fact}],
         \/ "prepared" \in providerFacts[<<q, u>>]
         \/ fact = "prepared" /\ IsNextTurn(q, u) /\ runState[q] \notin {"none", "accepted"}
  PROVE  FactsShape'
<1> SUFFICES ASSUME NEW r \in Runs, NEW t \in Turns
             PROVE  OperationShape(r, t)' /\ \A k \in Calls : ToolShape(r, t, k)'
  BY DEF FactsShape
<1>0. \A v \in 1 .. (t - 1) : v \in Turns
  BY BoundAssumption DEF Turns
<1>1. \A v \in Turns : providerFacts[<<r, v>>] \subseteq providerFacts'[<<r, v>>]
  BY DEF LedgerTypeOK
<1>2. providerFacts'[<<q, u>>] = providerFacts[<<q, u>>] \cup {fact}
  BY DEF LedgerTypeOK
<1>3. OperationShape(r, t) /\ OperationShape(q, u) /\ RunGrows(r)
  BY DEF FactsShape
<1>4. <<r, t>> # <<q, u>> => providerFacts'[<<r, t>>] = providerFacts[<<r, t>>]
  BY DEF LedgerTypeOK
<1>5. runState'[r] \in {"none", "accepted"} => providerFacts'[<<r, t>>] = {}
  BY <1>3, <1>4 DEF RunGrows, OperationShape
<1>6. providerFacts'[<<r, t>>] # {} =>
        /\ "prepared" \in providerFacts'[<<r, t>>]
        /\ \A v \in 1 .. (t - 1) : providerFacts'[<<r, v>>] # {}
  <2>1. CASE r = q /\ t = u
    <3>1. \A v \in 1 .. (t - 1) : providerFacts[<<r, v>>] # {}
      BY <1>3, <2>1 DEF OperationShape, IsNextTurn
    <3> QED
      BY <1>0, <1>1, <1>2, <2>1, <3>1
  <2>2. CASE <<r, t>> # <<q, u>>
    BY <1>0, <1>1, <1>3, <1>4, <2>2 DEF OperationShape
  <2> QED
    BY <2>1, <2>2
<1>7. Len(toolCalls'[<<r, t>>]) # 0 => "completed" \in providerFacts'[<<r, t>>]
  BY <1>1, <1>3 DEF OperationShape
<1> QED
  BY <1>5, <1>6, <1>7, ToolShapeKept DEF OperationShape

\* A turn that carries calls: they come with its completion, and nothing is known of
\* them yet.
LEMMA ShapeOfTurn ==
  ASSUME LedgerTypeOK, FactsShape, \A r \in Runs : RunGrows(r), UNCHANGED toolFacts,
         NEW q \in Runs, NEW u \in Turns, NEW calls, runState'[q] \notin {"none", "accepted"},
         providerFacts' =
           [providerFacts EXCEPT ![<<q, u>>] = providerFacts[<<q, u>>] \cup {"completed"}],
         toolCalls' = [toolCalls EXCEPT ![<<q, u>>] = calls],
         "prepared" \in providerFacts[<<q, u>>], "completed" \notin providerFacts[<<q, u>>]
  PROVE  FactsShape'
<1> SUFFICES ASSUME NEW r \in Runs, NEW t \in Turns
             PROVE  OperationShape(r, t)' /\ \A k \in Calls : ToolShape(r, t, k)'
  BY DEF FactsShape
<1>0. \A v \in 1 .. (t - 1) : v \in Turns
  BY BoundAssumption DEF Turns
<1>1. \A v \in Turns : providerFacts[<<r, v>>] \subseteq providerFacts'[<<r, v>>]
  BY DEF LedgerTypeOK
<1>2. providerFacts'[<<q, u>>] = providerFacts[<<q, u>>] \cup {"completed"}
  BY DEF LedgerTypeOK
<1>3. OperationShape(r, t) /\ RunGrows(r)
  BY DEF FactsShape
<1>4. CASE <<r, t>> # <<q, u>>
  <2>1. /\ providerFacts'[<<r, t>>] = providerFacts[<<r, t>>]
        /\ toolCalls'[<<r, t>>] = toolCalls[<<r, t>>]
    BY <1>4 DEF LedgerTypeOK
  <2>2. OperationShape(r, t)'
    BY <1>0, <1>1, <1>3, <2>1 DEF OperationShape, RunGrows
  <2> QED
    BY <2>1, <2>2, ToolShapeKept
<1>5. CASE r = q /\ t = u
  <2>1. OperationShape(r, t)'
    BY <1>0, <1>1, <1>2, <1>3, <1>5 DEF OperationShape
  <2>2. \A k \in Calls : toolFacts'[<<r, t, k>>] = {}
    <3>1. Len(toolCalls[<<r, t>>]) = 0
      BY <1>3, <1>5 DEF OperationShape
    <3>2. \A k \in Calls : ~IsCall(r, t, k)
      BY <3>1 DEF IsCall, Calls
    <3> QED
      BY <3>2 DEF FactsShape, ToolShape
  <2> QED
    BY <2>1, <2>2 DEF ToolShape
<1> QED
  BY <1>4, <1>5

LEMMA ShapeOfTool ==
  ASSUME LedgerTypeOK, FactsShape, \A r \in Runs : RunGrows(r),
         NEW q \in Runs, NEW u \in Turns, NEW m \in Calls, NEW fact,
         UNCHANGED <<providerFacts, toolCalls>>, IsCall(q, u, m),
         toolFacts' = [toolFacts EXCEPT ![<<q, u, m>>] = toolFacts[<<q, u, m>>] \cup {fact}],
         fact = "prepared" \/ "prepared" \in toolFacts[<<q, u, m>>],
         fact = "uncertain" => toolCalls[<<q, u>>][m] = "web" \/ runState'[q] = "uncertain"
  PROVE  FactsShape'
<1> SUFFICES ASSUME NEW r \in Runs, NEW t \in Turns
             PROVE  OperationShape(r, t)' /\ \A k \in Calls : ToolShape(r, t, k)'
  BY DEF FactsShape
<1>1. OperationShape(r, t)'
  BY OperationShapeKept
<1>2. ASSUME NEW k \in Calls PROVE ToolShape(r, t, k)'
  <2>1. CASE <<r, t, k>> = <<q, u, m>>
    <3>1. toolFacts'[<<r, t, k>>] = toolFacts[<<r, t, k>>] \cup {fact}
      BY <2>1 DEF LedgerTypeOK
    <3>2. ToolShape(r, t, k) /\ RunGrows(r)
      BY DEF FactsShape
    <3> QED
      BY <2>1, <3>1, <3>2 DEF ToolShape, RunGrows, IsCall, TerminalRunStates
  <2>2. CASE <<r, t, k>> # <<q, u, m>>
    <3>1. toolFacts'[<<r, t, k>>] = toolFacts[<<r, t, k>>]
      BY <2>2 DEF LedgerTypeOK
    <3> QED
      BY <3>1, ToolShapeKept
  <2> QED
    BY <2>1, <2>2
<1> QED
  BY <1>1, <1>2

--------------------------------------------------------------------------------
(* The rows of a transaction. *)

LEMMA StateWrite ==
  ASSUME NEW r \in Runs, NEW state \in {"active"} \cup TerminalRunStates
  PROVE  \E w : /\ TransitionRows(r, state) = <<w>> /\ IsWrite(w)
                /\ w.row = Row("state", r, 0, 0, state, 0)
<1> DEFINE row == Row("state", r, 0, 0, state, 0)
           w == [row |-> row, audit |-> StateAudit(state), event |-> state, request |-> "none"]
<1>1. TransitionRows(r, state) = <<w>>
  BY DEF TransitionRows, Put
<1>2. row \in StateRowType
  BY DEF Row, StateRowType
<1>3. row.table = "state" /\ row.kind = state
  BY DEF Row
<1> HIDE DEF row
<1>4. IsWrite(w)
  BY <1>2, <1>3 DEF IsWrite, JournalRows, AuditKind, RebuiltEvent, RequestKind
<1> QED
  BY <1>1, <1>4 DEF row

LEMMA ProviderWrite ==
  ASSUME NEW r \in Runs, NEW t \in Turns, NEW fact \in ProviderFacts, NEW source \in Nat
  PROVE  \E w : /\ ProviderRows(r, t, fact, source) = <<w>> /\ IsWrite(w)
                /\ w.row = Row("provider", r, t, 0, fact, source)
<1> DEFINE row == Row("provider", r, t, 0, fact, source)
           w == [row |-> row, audit |-> ProviderAudit(fact), event |-> "none", request |-> "none"]
<1>1. ProviderRows(r, t, fact, source) = <<w>>
  BY DEF ProviderRows, Put
<1>2. row \in ProviderRowType
  BY DEF Row, ProviderRowType
<1>3. row.table = "provider" /\ row.kind = fact
  BY DEF Row
<1> HIDE DEF row
<1>4. IsWrite(w)
  BY <1>2, <1>3 DEF IsWrite, JournalRows, AuditKind, RebuiltEvent, RequestKind
<1> QED
  BY <1>1, <1>4 DEF row

LEMMA EntryWrite ==
  ASSUME LedgerTypeOK, NEW r \in Runs, NEW t, NEW k, NEW kind, NEW n \in Nat,
         NEW seq, seq = highWater[SessionOf[r]] + n,
         \/ kind = "user" /\ t = 0 /\ k = 0
         \/ kind \in {"commentary", "answer"} /\ t \in Turns /\ k = 0
         \/ kind \in {"call", "result"} /\ t \in Turns /\ k \in Calls
  PROVE  \E w : /\ EntryRow(r, t, k, kind, n) = <<w>> /\ IsWrite(w)
                /\ w.row = Row("entry", r, t, k, kind, seq)
<1> DEFINE row == Row("entry", r, t, k, kind, seq)
           w == [row |-> row, audit |-> "none", event |-> EntryEvent(kind), request |-> "none"]
<1>1. EntryRow(r, t, k, kind, n) = <<w>>
  BY DEF EntryRow, Put
<1>2. row \in EntryRowType
  <2>1. SessionOf[r] \in Sessions
    BY SessionOfAssumption
  <2>2. highWater[SessionOf[r]] \in Nat
    BY <2>1, BoundAssumption DEF LedgerTypeOK
  <2>3. seq \in Nat
    BY <2>2
  <2> QED
    BY <2>3 DEF Row, EntryRowType
<1>3. row.table = "entry" /\ row.kind = kind
  BY DEF Row
<1> HIDE DEF row
<1>4. IsWrite(w)
  BY <1>2, <1>3 DEF IsWrite, JournalRows, AuditKind, RebuiltEvent, RequestKind
<1> QED
  BY <1>1, <1>4 DEF row

LEMMA AcceptedWrite ==
  ASSUME NEW r \in Runs, NEW seq \in Nat
  PROVE  \E w : /\ Put(Row("accepted", r, 0, 0, "accepted", seq), "accepted", "run_accepted",
                       "input") = <<w>>
                /\ IsWrite(w)
                /\ w.row = Row("accepted", r, 0, 0, "accepted", seq)
<1> DEFINE row == Row("accepted", r, 0, 0, "accepted", seq)
           w == [row |-> row, audit |-> "accepted", event |-> "run_accepted", request |-> "input"]
<1>1. Put(Row("accepted", r, 0, 0, "accepted", seq), "accepted", "run_accepted", "input") = <<w>>
  BY DEF Put
<1>2. row \in AcceptedRowType
  BY DEF Row, AcceptedRowType
<1>3. row.table = "accepted" /\ row.kind = "accepted"
  BY DEF Row
<1> HIDE DEF row
<1>4. IsWrite(w)
  BY <1>2, <1>3 DEF IsWrite, JournalRows, AuditKind, RebuiltEvent, RequestKind
<1> QED
  BY <1>1, <1>4 DEF row

LEMMA CancellationWrite ==
  ASSUME NEW r \in Runs, NEW intent \in {"applied", "ignored"}
  PROVE  \E w : /\ CancellationRows(r, intent) = <<w>> /\ IsWrite(w)
                /\ w.row = Row("cancellation", r, 0, 0, intent, 0)
<1> DEFINE row == Row("cancellation", r, 0, 0, intent, 0)
           w == [row |-> row, audit |-> intent,
                 event |-> IF intent = "applied" THEN "cancellation" ELSE "none",
                 request |-> "cancel"]
<1>1. CancellationRows(r, intent) = <<w>>
  BY DEF CancellationRows, Put
<1>2. row \in CancellationRowType
  BY DEF Row, CancellationRowType
<1>3. row.table = "cancellation" /\ row.kind = intent
  BY DEF Row
<1> HIDE DEF row
<1>4. IsWrite(w)
  BY <1>2, <1>3 DEF IsWrite, JournalRows, AuditKind, RebuiltEvent, RequestKind
<1> QED
  BY <1>1, <1>4 DEF row

LEMMA ToolWrite ==
  ASSUME NEW r \in Runs, NEW t \in Turns, NEW k \in Calls, NEW fact \in ToolFacts
  PROVE  \E w : /\ ToolRows(r, t, k, fact) = <<w>> /\ IsWrite(w)
                /\ w.row = Row("tool", r, t, k, fact, 0)
<1> DEFINE row == Row("tool", r, t, k, fact, 0)
           w == [row |-> row, audit |-> ToolAudit(fact),
                 event |-> IF fact = "uncertain" THEN "workspace" ELSE "none",
                 request |-> "none"]
<1>1. ToolRows(r, t, k, fact) = <<w>>
  BY DEF ToolRows, Put
<1>2. row \in ToolRowType
  BY DEF Row, ToolRowType
<1>3. row.table = "tool" /\ row.kind = fact
  BY DEF Row
<1> HIDE DEF row
<1>4. IsWrite(w)
  BY <1>2, <1>3 DEF IsWrite, JournalRows, AuditKind, RebuiltEvent, RequestKind
<1> QED
  BY <1>1, <1>4 DEF row

\* The event and the request that a row of a command goes with.
CommandBeside(kind) ==
  CASE kind = "accepted" -> <<"command_accepted", "command">>
    [] kind = "active" -> <<"none", "none">>
    [] kind = "cancelled" -> <<"none", "command_cancel">>
    [] OTHER -> <<"command_completed", "none">>

LEMMA CommandWrite ==
  ASSUME NEW c \in Commands, NEW kind, NEW seq \in Nat, NEW event, NEW request,
         (kind \in CommandKinds /\ seq = 0) \/ kind \in TerminalCommandStates,
         CommandBeside(kind) = <<event, request>>
  PROVE  \E w : /\ CommandRow(c, kind, seq, event, request) = <<w>> /\ IsWrite(w)
                /\ w.row = Row("command", c, 0, 0, kind, seq)
<1> DEFINE row == Row("command", c, 0, 0, kind, seq)
           w == [row |-> row, audit |-> kind, event |-> event, request |-> request]
<1>1. CommandRow(c, kind, seq, event, request) = <<w>>
  BY DEF CommandRow, Put
<1>2. row \in CommandRowType
  BY DEF Row, CommandRowType
<1>3. row.table = "command" /\ row.kind = kind
  BY DEF Row
<1> HIDE DEF row
<1>4. kind \in {"accepted", "active", "cancelled"} \/ kind \in TerminalCommandStates
  BY DEF CommandKinds, LiveCommandStates
<1>5. /\ event = RebuiltEvent(row) /\ request = RequestKind(row)
  BY <1>3, <1>4 DEF RebuiltEvent, RequestKind, CommandBeside, TerminalCommandStates
<1>6. IsWrite(w)
  BY <1>2, <1>3, <1>5 DEF IsWrite, JournalRows, AuditKind
<1> QED
  BY <1>1, <1>6 DEF row

LEMMA Joined ==
  ASSUME NEW x, NEW y
  PROVE  /\ DOMAIN <<x>> = 1 .. 1 /\ <<x>>[1] = x
         /\ <<x>> \o <<>> = <<x>> /\ <<>> \o <<x>> = <<x>>
         /\ DOMAIN (<<x>> \o <<y>>) = 1 .. 2
         /\ (<<x>> \o <<y>>)[1] = x /\ (<<x>> \o <<y>>)[2] = y
<1>1. <<x>> \in Seq({x, y}) /\ <<y>> \in Seq({x, y})
  OBVIOUS
<1>2. /\ <<x>> \o <<y>> \in Seq({x, y})
      /\ Len(<<x>> \o <<y>>) = 2
      /\ (<<x>> \o <<y>>)[1] = x /\ (<<x>> \o <<y>>)[2] = y
  BY <1>1, ConcatProperties
<1>3. DOMAIN (<<x>> \o <<y>>) = 1 .. 2
  BY <1>2, LenProperties
<1>4. <<x>> \o <<>> = <<x>> /\ <<>> \o <<x>> = <<x>>
  BY <1>1, ConcatEmptySeq
<1> QED
  BY <1>2, <1>3, <1>4

LEMMA JoinedNothing ==
  ASSUME NEW x, NEW y
  PROVE  <<x>> \o <<y>> \o <<>> = <<x>> \o <<y>>
<1>1. <<x>> \in Seq({x, y}) /\ <<y>> \in Seq({x, y})
  OBVIOUS
<1>2. PICK xy : xy = <<x>> \o <<y>>
  OBVIOUS
<1>3. xy \in Seq({x, y})
  BY <1>1, <1>2, ConcatProperties
<1>4. xy \o <<>> = xy
  BY <1>3, ConcatEmptySeq
<1> QED
  BY <1>2, <1>4

Triple(x, y, z) == <<x>> \o <<y>> \o <<z>>

LEMMA JoinedThree ==
  ASSUME NEW x, NEW y, NEW z
  PROVE  /\ DOMAIN Triple(x, y, z) = 1 .. 3
         /\ Triple(x, y, z)[1] = x /\ Triple(x, y, z)[2] = y /\ Triple(x, y, z)[3] = z
<1> DEFINE S == {x, y, z}
<1>1. PICK xy : xy = <<x>> \o <<y>>
  OBVIOUS
<1>2. PICK one : one = <<z>>
  OBVIOUS
<1>3. xy \in Seq(S) /\ Len(xy) = 2 /\ xy[1] = x /\ xy[2] = y
  <2>1. <<x>> \in Seq(S) /\ <<y>> \in Seq(S)
    OBVIOUS
  <2> QED
    BY <1>1, <2>1, ConcatProperties
<1>4. one \in Seq(S) /\ Len(one) = 1 /\ one[1] = z
  BY <1>2
<1> HIDE DEF S
<1>5. /\ xy \o one \in Seq(S) /\ Len(xy \o one) = Len(xy) + Len(one)
      /\ \A i \in 1 .. Len(xy) + Len(one) :
           (xy \o one)[i] = IF i <= Len(xy) THEN xy[i] ELSE one[i - Len(xy)]
  BY <1>3, <1>4, ConcatProperties
<1>6. Triple(x, y, z) = xy \o one
  BY <1>1, <1>2 DEF Triple
<1>7. PICK all : all = xy \o one
  OBVIOUS
<1>8. all \in Seq(S) /\ Len(all) = 3
  BY <1>3, <1>4, <1>5, <1>7
<1>9. all[1] = x /\ all[2] = y /\ all[3] = z
  <2>1. \A i \in 1 .. 3 : all[i] = IF i <= 2 THEN xy[i] ELSE one[i - 2]
    BY <1>3, <1>4, <1>5, <1>7
  <2> QED
    BY <1>3, <1>4, <2>1
<1>10. DOMAIN all = 1 .. 3
  BY <1>8, LenProperties
<1> QED
  BY <1>6, <1>7, <1>9, <1>10

LEMMA JoinedBehind ==
  ASSUME NEW x, NEW y, NEW z
  PROVE  <<x>> \o (<<y>> \o <<z>>) = Triple(x, y, z)
BY DEF Triple

LEMMA NothingBeforeItself ==
  ASSUME NEW a PROVE ~MustPrecede(a, a) /\ ~Conflicts(a, a)
BY DEF MustPrecede, Conflicts, CommandKinds, LiveCommandStates, TerminalCommandStates,
   TerminalRunStates, TerminalProviderFacts, TerminalToolFacts

\* What is known when a transaction begins, and of the ledger at its end.
StepContext ==
  LedgerInv /\ LedgerInv' /\ RowsInv /\ FactsShape /\ RowsAreComplete /\ LedgerGrows /\ FactsKeep

\* A row that may be written: it is clear of the others and about a fact that is there.
Ready(w) == IsWrite(w) /\ Clear(w.row) /\ Backed(w.row)'

\* Row b may follow row a in one transaction.
Follows(b, a) ==
  /\ ~MustPrecede(b, a) /\ ~Exclusive(a, b) /\ ~Exclusive(b, a)
  /\ ~Conflicts(a, b) /\ ~Conflicts(b, a)

LEMMA NoRow ==
  ASSUME StepContext, Write(<<>> \o <<>>), counters' \in [Runs -> CounterType]
  PROVE  RowsInv' /\ \E writes : Grown(writes, 0)
<1>1. PICK writes : writes = <<>> \o <<>>
  OBVIOUS
<1>2. <<>> \o <<>> = <<>>
  BY EmptySeq, ConcatEmptySeq
<1>3. DOMAIN writes = 1 .. 0
  BY <1>1, <1>2
<1>4. Fitting(writes, 0)
  BY DEF Fitting, Coherent
<1>5. Write(writes) /\ \A i \in 1 .. 0 : Backed(writes[i].row)'
  BY <1>1
<1>6. RowsInv' /\ Grown(writes, 0)
  BY <1>3, <1>4, <1>5, RowsStayValid DEF StepContext
<1> QED
  BY <1>6

LEMMA OneRow ==
  ASSUME StepContext, NEW w, Write(<<w>>), Ready(w), counters' \in [Runs -> CounterType]
  PROVE  RowsInv' /\ \E writes : Grown(writes, 1) /\ writes[1] = w
<1>1. DOMAIN <<w>> = 1 .. 1 /\ <<w>>[1] = w
  BY Joined
<1>2. \A i \in 1 .. 1 : i = 1
  OBVIOUS
<1>3. PICK writes : writes = <<w>>
  OBVIOUS
<1>4. Fitting(writes, 1)
  BY <1>1, <1>2, <1>3, NothingBeforeItself DEF Fitting, Coherent, Ready
<1>5. \A i \in 1 .. 1 : Backed(writes[i].row)'
  <2> TAKE i \in 1 .. 1
  <2>1. PICK row : row = w.row
    OBVIOUS
  <2>2. writes[i].row = row /\ Backed(row)'
    BY <1>1, <1>2, <1>3, <2>1 DEF Ready
  <2> QED
    BY <2>2
<1>6. DOMAIN writes = 1 .. 1 /\ Write(writes)
  BY <1>1, <1>3
<1>7. RowsInv' /\ Grown(writes, 1)
  BY <1>4, <1>5, <1>6, RowsStayValid DEF StepContext
<1> QED
  BY <1>1, <1>3, <1>7

LEMMA TwoRows ==
  ASSUME StepContext, NEW w1, NEW w2, Write(<<w1>> \o <<w2>>), Ready(w1), Ready(w2),
         Follows(w2.row, w1.row), counters' \in [Runs -> CounterType]
  PROVE  RowsInv' /\ \E writes : Grown(writes, 2) /\ writes[1] = w1 /\ writes[2] = w2
<1>1. PICK writes : writes = <<w1>> \o <<w2>>
  OBVIOUS
<1>2. DOMAIN writes = 1 .. 2 /\ writes[1] = w1 /\ writes[2] = w2
  BY <1>1, Joined
<1>3. \A i \in 1 .. 2 : i = 1 \/ i = 2
  OBVIOUS
<1>4. Fitting(writes, 2)
  BY <1>2, <1>3, NothingBeforeItself DEF Fitting, Coherent, Ready, Follows
<1>5. \A i \in 1 .. 2 : Backed(writes[i].row)'
  BY <1>2, <1>3 DEF Ready
<1>6. Write(writes)
  BY <1>1
<1>7. RowsInv' /\ Grown(writes, 2)
  BY <1>2, <1>4, <1>5, <1>6, RowsStayValid DEF StepContext
<1> QED
  BY <1>2, <1>7

LEMMA ThreeRows ==
  ASSUME StepContext, NEW w1, NEW w2, NEW w3, Write(Triple(w1, w2, w3)),
         Ready(w1), Ready(w2), Ready(w3),
         Follows(w2.row, w1.row), Follows(w3.row, w1.row), Follows(w3.row, w2.row),
         counters' \in [Runs -> CounterType]
  PROVE  RowsInv' /\ \E writes : Grown(writes, 3) /\ writes[1] = w1 /\ writes[2] = w2 /\ writes[3] = w3
<1>1. PICK writes : writes = Triple(w1, w2, w3)
  OBVIOUS
<1>2. DOMAIN writes = 1 .. 3 /\ writes[1] = w1 /\ writes[2] = w2 /\ writes[3] = w3
  BY <1>1, JoinedThree
<1>3. \A i \in 1 .. 3 : i = 1 \/ i = 2 \/ i = 3
  OBVIOUS
<1>4. Fitting(writes, 3)
  BY <1>2, <1>3, NothingBeforeItself DEF Fitting, Coherent, Ready, Follows
<1>5. \A i \in 1 .. 3 : Backed(writes[i].row)'
  BY <1>2, <1>3 DEF Ready
<1>6. Write(writes)
  BY <1>1
<1>7. RowsInv' /\ Grown(writes, 3)
  BY <1>2, <1>4, <1>5, <1>6, RowsStayValid DEF StepContext
<1> QED
  BY <1>2, <1>7

--------------------------------------------------------------------------------
(* Rows that are ready to be written. *)

LEMMA StateReady ==
  ASSUME StepContext, NEW r \in Runs, IsLive(r), NEW state \in {"active"} \cup TerminalRunStates,
         state = "active" => runState[r] = "accepted",
         runState'[r] \notin {"none", "accepted"},
         state \in TerminalRunStates => runState'[r] = state
  PROVE  \E w : /\ TransitionRows(r, state) = <<w>> /\ Ready(w)
                /\ w.row = Row("state", r, 0, 0, state, 0)
<1>1. PICK w : TransitionRows(r, state) = <<w>> /\ IsWrite(w) /\ w.row = Row("state", r, 0, 0, state, 0)
  BY StateWrite
<1>2. Clear(Row("state", r, 0, 0, state, 0))
  BY StateIsClear DEF StepContext, LedgerInv
<1>3. Backed(Row("state", r, 0, 0, state, 0))'
  BY DEF Backed, Row
<1> QED
  BY <1>1, <1>2, <1>3 DEF Ready

LEMMA ProviderReady ==
  ASSUME StepContext, NEW r \in Runs, NEW t \in Turns, NEW fact \in ProviderFacts, NEW source \in Nat,
         IsLive(r),
         \/ /\ fact = "prepared" /\ providerFacts[<<r, t>>] = {}
            /\ source = highWater[SessionOf[r]]
         \/ /\ fact = "dispatched" /\ ProviderPending(r, t)
            /\ "dispatched" \notin providerFacts[<<r, t>>]
         \/ fact \in TerminalProviderFacts /\ ProviderPending(r, t),
         fact \in providerFacts'[<<r, t>>]
  PROVE  \E w : /\ ProviderRows(r, t, fact, source) = <<w>> /\ Ready(w)
                /\ w.row = Row("provider", r, t, 0, fact, source)
<1>1. PICK w : /\ ProviderRows(r, t, fact, source) = <<w>> /\ IsWrite(w)
               /\ w.row = Row("provider", r, t, 0, fact, source)
  BY ProviderWrite
<1>2. Clear(Row("provider", r, t, 0, fact, source))
  BY ProviderIsClear DEF StepContext, LedgerInv
<1>3. Backed(Row("provider", r, t, 0, fact, source))'
  BY DEF Backed, Row
<1> QED
  BY <1>1, <1>2, <1>3 DEF Ready

LEMMA EntryReady ==
  ASSUME StepContext, NEW r \in Runs, IsLive(r), NEW t \in Turns, NEW k, NEW n \in Nat, n >= 1,
         NEW kind, NEW seq \in Nat, seq = highWater[SessionOf[r]] + n,
         seq <= highWater'[SessionOf[r]],
         \/ kind \in {"commentary", "answer"} /\ k = 0
         \/ kind \in {"call", "result"} /\ k \in Calls,
         kind = "call" => ~IsCall(r, t, k) /\ IsCall(r, t, k)',
         kind = "result" => ~ToolSettled(r, t, k) /\ ToolSettled(r, t, k)',
         kind = "answer" => runState'[r] = "succeeded"
  PROVE  \E w : /\ EntryRow(r, t, k, kind, n) = <<w>> /\ Ready(w)
                /\ w.row = Row("entry", r, t, k, kind, seq)
<1>0. LedgerTypeOK /\ LedgerTypeOK' /\ SessionOf[r] \in Sessions
  BY SessionOfAssumption DEF StepContext, LedgerInv
<1>1. PICK w : /\ EntryRow(r, t, k, kind, n) = <<w>> /\ IsWrite(w)
               /\ w.row = Row("entry", r, t, k, kind, seq)
  BY <1>0, EntryWrite
<1>2. highWater[SessionOf[r]] \in Nat /\ highWater'[SessionOf[r]] \in Nat
  BY <1>0, BoundAssumption DEF LedgerTypeOK
<1>3. seq > highWater[SessionOf[r]] /\ seq \in 1 .. highWater'[SessionOf[r]]
  BY <1>2
<1>4. kind \in {"commentary", "answer", "call", "result"}
  OBVIOUS
<1>5. Clear(Row("entry", r, t, k, kind, seq))
  BY <1>0, <1>3, <1>4, EntryIsClear
<1>6. runState'[r] # "none"
  BY DEF StepContext, LedgerGrows, RunGrows, IsLive, LiveRunStates
<1>7. Backed(Row("entry", r, t, k, kind, seq))'
  BY <1>3, <1>6 DEF Backed, Row
<1> QED
  BY <1>1, <1>5, <1>7 DEF Ready

LEMMA ToolReady ==
  ASSUME NEW r \in Runs, NEW t \in Turns, NEW k \in Calls, NEW fact \in ToolFacts,
         \/ fact = "prepared" /\ toolFacts[<<r, t, k>>] = {}
         \/ /\ fact = "dispatched" /\ ~ToolSettled(r, t, k)
            /\ "dispatched" \notin toolFacts[<<r, t, k>>]
         \/ fact \in TerminalToolFacts /\ ~ToolSettled(r, t, k),
         fact \in toolFacts'[<<r, t, k>>]
  PROVE  \E w : /\ ToolRows(r, t, k, fact) = <<w>> /\ Ready(w)
                /\ w.row = Row("tool", r, t, k, fact, 0)
<1>1. PICK w : /\ ToolRows(r, t, k, fact) = <<w>> /\ IsWrite(w)
               /\ w.row = Row("tool", r, t, k, fact, 0)
  BY ToolWrite
<1>2. Clear(Row("tool", r, t, k, fact, 0))
  BY ToolIsClear
<1>3. Backed(Row("tool", r, t, k, fact, 0))'
  BY DEF Backed, Row
<1> QED
  BY <1>1, <1>2, <1>3 DEF Ready

--------------------------------------------------------------------------------
(* Each transaction keeps the invariant. *)

\* A transition of run r ends it or leaves it live.
LEMMA TransitionOfRun ==
  ASSUME StepContext, NEW r \in Runs, IsLive(r), NEW state \in {"active"} \cup TerminalRunStates,
         AppendRunTransition(r, state)
  PROVE  /\ runState' = [runState EXCEPT ![r] = state] /\ UNCHANGED cancelRequested
         /\ runState'[r] = state /\ state \notin {"none", "accepted"} /\ runState[r] # "none"
         /\ \A q \in Runs : IsLive(q)' => IsLive(q)
<1>1. runState' = [runState EXCEPT ![r] = state] /\ UNCHANGED cancelRequested
  BY DEF AppendRunTransition
<1>2. state \notin {"none", "accepted"}
  BY DEF TerminalRunStates
<1>3. runState'[r] = state /\ runState[r] # "none"
  BY <1>1 DEF StepContext, LedgerInv, LedgerTypeOK, IsLive, LiveRunStates
<1>4. \A q \in Runs : q = r \/ runState'[q] = runState[q]
  BY <1>1 DEF StepContext, LedgerInv, LedgerTypeOK
<1> QED
  BY <1>1, <1>2, <1>3, <1>4 DEF IsLive

\* A transaction with plain rows only.
LEMMA PlainKeeps ==
  ASSUME StepContext, RowsInv', NEW n, NEW writes, Grown(writes, n), Plain(writes, n),
         UNCHANGED <<highWater, toolCalls, counters>>, \A r \in Runs : IsLive(r)' => IsLive(r),
         FactsShape', RunsAreWritten', OperationsAreWritten', ToolsAreWritten'
  PROVE  FactsInv'
BY PlainWrites DEF StepContext, FactsInv, RowsAreComplete

LEMMA CountersTyped ==
  ASSUME StepContext, KeepCounters PROVE counters' \in [Runs -> CounterType]
BY DEF StepContext, RowsInv, JournalTypeOK, KeepCounters

LEMMA CancellationKeeps ==
  ASSUME StepContext, NEW r \in Runs, WriteCancellation(r)
  PROVE  FactsInv'
<1>1. PICK w : /\ CancellationRows(r, "applied") = <<w>> /\ IsWrite(w)
               /\ w.row = Row("cancellation", r, 0, 0, "applied", 0)
  BY CancellationWrite
<1>2. /\ IsLive(r) /\ cancelRequested' = [cancelRequested EXCEPT ![r] = TRUE]
      /\ UNCHANGED <<runState, highWater, providerFacts, toolCalls, toolFacts, counters>>
  BY DEF WriteCancellation, CancelRun, KeepCounters, providerVars, toolVars
<1>3. cancelRequested'[r] = TRUE /\ \A q \in Runs : q = r \/ cancelRequested'[q] = cancelRequested[q]
  BY <1>2 DEF StepContext, LedgerInv, LedgerTypeOK
<1>4. Backed(Row("cancellation", r, 0, 0, "applied", 0))'
  BY <1>2, <1>3 DEF Backed, Row, IsLive, LiveRunStates
<1>5. Ready(w)
  BY <1>1, <1>4, CancellationIsClear DEF Ready
<1>6. Write(<<w>>) /\ counters' \in [Runs -> CounterType]
  BY <1>1, CountersTyped DEF WriteCancellation
<1>7. RowsInv' /\ \E writes : Grown(writes, 1) /\ writes[1] = w
  BY <1>5, <1>6, OneRow
<1>8. PICK writes : Grown(writes, 1) /\ writes[1] = w
  BY <1>7
<1>9. Plain(writes, 1)
  BY <1>1, <1>8 DEF Plain, Row
<1>10. IsWritten("cancellation", r, 0, 0, "applied")'
  BY <1>1, <1>8, NewIsWritten
<1>11. RunsAreWritten'
  <2> SUFFICES ASSUME NEW q \in Runs, NEW state, state = runState[q] PROVE RunIsWritten(q)'
    BY DEF RunsAreWritten
  <2>1. RunIsWritten(q)
    BY DEF StepContext, RowsAreComplete, RunsAreWritten
  <2>2. state = runState'[q]
    BY <1>2
  <2>3. state # "none" =>
          IsWritten("accepted", q, 0, 0, "accepted")' /\ IsWritten("entry", q, 0, 0, "user")'
    BY <1>8, <2>1, WrittenKept DEF RunIsWritten
  <2>4. state \notin {"none", "accepted"} => IsWritten("state", q, 0, 0, state)'
    BY <1>8, <2>1, WrittenKept DEF RunIsWritten
  <2>5. state = "succeeded" => \E t \in Turns : IsWritten("entry", q, t, 0, "answer")'
    BY <1>8, <2>1, WrittenKept DEF RunIsWritten
  <2>6. cancelRequested'[q] => IsWritten("cancellation", q, 0, 0, "applied")'
    BY <1>3, <1>8, <1>10, <2>1, WrittenKept DEF RunIsWritten
  <2> QED
    BY <2>2, <2>3, <2>4, <2>5, <2>6 DEF RunIsWritten
<1>12. OperationsAreWritten' /\ ToolsAreWritten'
  BY <1>2, <1>8, OperationsUnmoved, ToolsUnmoved DEF StepContext, RowsAreComplete
<1>13. FactsShape'
  BY <1>2, ShapeKept DEF StepContext, LedgerGrows
<1>14. \A q \in Runs : IsLive(q)' => IsLive(q)
  BY <1>2 DEF IsLive
<1> QED
  BY <1>2, <1>7, <1>8, <1>9, <1>11, <1>12, <1>13, <1>14, PlainKeeps

\* What a transaction leaves alone that moves neither a run nor an operation.
LEMMA AsideKeeps ==
  ASSUME StepContext, RowsInv', NEW n, NEW writes, Grown(writes, n), Plain(writes, n),
         UNCHANGED <<runState, cancelRequested, highWater, providerFacts, toolCalls, toolFacts,
                     counters>>
  PROVE  FactsInv'
<1>1. RunsAreWritten' /\ OperationsAreWritten' /\ ToolsAreWritten'
  BY RunsUnmoved, OperationsUnmoved, ToolsUnmoved DEF StepContext, RowsAreComplete
<1>2. FactsShape'
  BY ShapeKept DEF StepContext, LedgerGrows
<1>3. \A q \in Runs : IsLive(q)' => IsLive(q)
  BY DEF IsLive
<1> QED
  BY <1>1, <1>2, <1>3, PlainKeeps

LEMMA ReceiptKeeps ==
  ASSUME StepContext, NEW r \in Runs, WriteReceipt(r)
  PROVE  FactsInv'
<1>1. PICK w : /\ CancellationRows(r, "ignored") = <<w>> /\ IsWrite(w)
               /\ w.row = Row("cancellation", r, 0, 0, "ignored", 0)
  BY CancellationWrite
<1>2. UNCHANGED <<runState, cancelRequested, highWater, providerFacts, toolCalls, toolFacts, counters>>
  BY DEF WriteReceipt, ledgerVars, runVars, providerVars, toolVars
<1>3. runState[r] # "none"
  BY DEF WriteReceipt, ResultStates
<1>4. Backed(Row("cancellation", r, 0, 0, "ignored", 0))'
  BY <1>2, <1>3 DEF Backed, Row
<1>5. Ready(w)
  BY <1>1, <1>4, CancellationIsClear DEF Ready
<1>6. Write(<<w>>) /\ counters' \in [Runs -> CounterType]
  BY <1>1, <1>2, CountersTyped DEF WriteReceipt, KeepCounters
<1>7. RowsInv' /\ \E writes : Grown(writes, 1) /\ writes[1] = w
  BY <1>5, <1>6, OneRow
<1>8. PICK writes : Grown(writes, 1) /\ writes[1] = w
  BY <1>7
<1>9. Plain(writes, 1)
  BY <1>1, <1>8 DEF Plain, Row
<1> QED
  BY <1>2, <1>7, <1>8, <1>9, AsideKeeps

\* A transaction that moves run r and writes the state, without an entry.
LEMMA TransitionKeeps ==
  ASSUME StepContext, RowsInv', NEW n \in Nat, NEW writes, Grown(writes, n), Plain(writes, n),
         NEW r \in Runs, IsLive(r), NEW state \in {"active"} \cup TerminalRunStates,
         state # "succeeded", AppendRunTransition(r, state),
         IsWritten("state", r, 0, 0, state)',
         UNCHANGED <<highWater, toolCalls, toolFacts, counters>>, FactsShape', OperationsAreWritten'
  PROVE  FactsInv'
<1>1. /\ runState' = [runState EXCEPT ![r] = state] /\ UNCHANGED cancelRequested
      /\ runState'[r] = state /\ state \notin {"none", "accepted"} /\ runState[r] # "none"
      /\ \A q \in Runs : IsLive(q)' => IsLive(q)
  BY TransitionOfRun
<1>2. RunsAreWritten'
  BY <1>1, RunMoved DEF StepContext, LedgerInv, RowsAreComplete
<1>3. ToolsAreWritten'
  BY ToolsUnmoved DEF StepContext, RowsAreComplete
<1> QED
  BY <1>1, <1>2, <1>3, PlainKeeps

LEMMA ActivationKeeps ==
  ASSUME StepContext, NEW r \in Runs, WriteActivation(r)
  PROVE  FactsInv'
<1>1. PICK state : state = IF cancelRequested[r] THEN "cancelled" ELSE "active"
  OBVIOUS
<1>2. /\ IsLive(r) /\ AppendRunTransition(r, state)
      /\ UNCHANGED <<highWater, providerFacts, toolCalls, toolFacts, counters>>
  BY <1>1 DEF WriteActivation, ActivateRun, KeepCounters, providerVars, toolVars
<1>3. state \in {"active"} \cup TerminalRunStates /\ state # "succeeded" /\ "active" \notin TerminalRunStates
  BY <1>1 DEF TerminalRunStates
<1>4. runState'[r] = state /\ state \notin {"none", "accepted"}
  BY <1>2, <1>3, TransitionOfRun
<1>5. counters' \in [Runs -> CounterType]
  BY CountersTyped DEF WriteActivation
<1>6. FactsShape'
  BY <1>2, ShapeKept DEF StepContext, LedgerGrows
<1>7. ASSUME RowsInv', NEW n \in Nat, NEW writes, Grown(writes, n), Plain(writes, n),
             IsWritten("state", r, 0, 0, state)'
      PROVE  FactsInv'
  <2>1. OperationsAreWritten'
    BY <1>2, <1>7, OperationsUnmoved DEF StepContext, RowsAreComplete
  <2> QED
    BY <1>2, <1>3, <1>6, <1>7, <2>1, TransitionKeeps
<1>8. runState[r] = "accepted" \/ runState[r] = "active"
  BY <1>2 DEF IsLive, LiveRunStates
<1>9. CASE runState[r] = "accepted" /\ cancelRequested[r]
  <2>1. PICK w1 : /\ TransitionRows(r, "active") = <<w1>> /\ Ready(w1)
                  /\ w1.row = Row("state", r, 0, 0, "active", 0)
    BY <1>2, <1>3, <1>4, <1>9, StateReady
  <2>2. PICK w2 : /\ TransitionRows(r, "cancelled") = <<w2>> /\ Ready(w2)
                  /\ w2.row = Row("state", r, 0, 0, "cancelled", 0)
    BY <1>1, <1>2, <1>3, <1>4, <1>9, StateReady
  <2>3. Write(<<w1>> \o <<w2>>)
    BY <1>9, <2>1, <2>2 DEF WriteActivation
  <2>4. Follows(w2.row, w1.row)
    BY <1>3, <2>1, <2>2 DEF Follows, Row, MustPrecede, Exclusive, Conflicts, InTranscript, SameOrBoth
  <2>5. RowsInv' /\ \E writes : Grown(writes, 2) /\ writes[1] = w1 /\ writes[2] = w2
    BY <1>5, <2>1, <2>2, <2>3, <2>4, TwoRows
  <2>6. PICK writes : Grown(writes, 2) /\ writes[1] = w1 /\ writes[2] = w2
    BY <2>5
  <2>7. Plain(writes, 2)
    BY <2>1, <2>2, <2>6 DEF Plain, Row
  <2>8. IsWritten("state", r, 0, 0, "cancelled")'
    BY <2>2, <2>6, NewIsWritten
  <2> QED
    BY <1>1, <1>7, <1>9, <2>5, <2>6, <2>7, <2>8
<1>10. CASE (runState[r] = "accepted" /\ ~cancelRequested[r])
            \/ (runState[r] = "active" /\ cancelRequested[r])
  <2>1. PICK w : /\ TransitionRows(r, state) = <<w>> /\ Ready(w)
                 /\ w.row = Row("state", r, 0, 0, state, 0)
    BY <1>1, <1>2, <1>3, <1>4, <1>10, StateReady
  <2>2. Write(<<w>> \o <<>>) \/ Write(<<>> \o <<w>>)
    BY <1>1, <1>10, <2>1 DEF WriteActivation
  <2>3. Write(<<w>>)
    BY <2>2, Joined
  <2>4. RowsInv' /\ \E writes : Grown(writes, 1) /\ writes[1] = w
    BY <1>5, <2>1, <2>3, OneRow
  <2>5. PICK writes : Grown(writes, 1) /\ writes[1] = w
    BY <2>4
  <2>6. Plain(writes, 1)
    BY <2>1, <2>5 DEF Plain, Row
  <2>7. IsWritten("state", r, 0, 0, state)'
    BY <2>1, <2>5, NewIsWritten
  <2> QED
    BY <1>7, <2>4, <2>5, <2>6, <2>7
<1>11. CASE runState[r] = "active" /\ ~cancelRequested[r]
  <2>1. Write(<<>> \o <<>>)
    BY <1>11 DEF WriteActivation
  <2>2. RowsInv' /\ \E writes : Grown(writes, 0)
    BY <1>5, <2>1, NoRow
  <2>3. PICK writes : Grown(writes, 0)
    BY <2>2
  <2>4. Plain(writes, 0)
    BY DEF Plain
  <2>5. IsWritten("state", r, 0, 0, "active")
    BY <1>11 DEF StepContext, RowsAreComplete, RunsAreWritten, RunIsWritten
  <2>6. IsWritten("state", r, 0, 0, "active")'
    BY <2>3, <2>5, WrittenKept
  <2> QED
    BY <1>1, <1>7, <1>11, <2>2, <2>3, <2>4, <2>6
<1> QED
  BY <1>8, <1>9, <1>10, <1>11

\* The state a finished run is left in.
FinishState(r, kind) ==
  IF kind # "stopped" THEN "failed" ELSE IF cancelRequested[r] THEN "cancelled" ELSE "interrupted"

LEMMA FinishKeeps ==
  ASSUME StepContext, NEW r \in Runs, NEW kind \in {"stopped", "failed"}, WriteFinish(r, 0, kind)
  PROVE  FactsInv'
<1>1. PICK state : state = FinishState(r, kind)
  OBVIOUS
<1>2. /\ IsLive(r) /\ AppendRunTransition(r, state)
      /\ UNCHANGED <<highWater, providerFacts, toolCalls, toolFacts, counters>>
  BY <1>1 DEF WriteFinish, FinishRun, FinishState, KeepCounters, providerVars, toolVars
<1>3. state \in TerminalRunStates /\ state \notin {"succeeded", "active"}
  BY <1>1 DEF TerminalRunStates, FinishState
<1>4. runState'[r] = state /\ state \notin {"none", "accepted"}
  BY <1>2, <1>3, TransitionOfRun
<1>5. counters' \in [Runs -> CounterType]
  BY CountersTyped DEF WriteFinish
<1>6. FactsShape'
  BY <1>2, ShapeKept DEF StepContext, LedgerGrows
<1>7. PICK w : /\ TransitionRows(r, state) = <<w>> /\ Ready(w)
               /\ w.row = Row("state", r, 0, 0, state, 0)
  BY <1>2, <1>3, <1>4, StateReady
<1>8. Write(<<>> \o <<w>>)
  BY <1>1, <1>7 DEF WriteFinish, FinishState
<1>9. RowsInv' /\ \E writes : Grown(writes, 1) /\ writes[1] = w
  BY <1>5, <1>7, <1>8, Joined, OneRow
<1>10. PICK writes : Grown(writes, 1) /\ writes[1] = w
  BY <1>9
<1>11. Plain(writes, 1)
  BY <1>7, <1>10 DEF Plain, Row
<1>12. IsWritten("state", r, 0, 0, state)'
  BY <1>7, <1>10, NewIsWritten
<1>13. OperationsAreWritten'
  BY <1>2, <1>10, OperationsUnmoved DEF StepContext, RowsAreComplete
<1> QED
  BY <1>2, <1>3, <1>6, <1>9, <1>10, <1>11, <1>12, <1>13, TransitionKeeps

\* An operation's outcome and the end of its run: what FinishRun and the cancellation
\* of a prepared operation have in common.
LEMMA OutcomeAndEnd ==
  ASSUME StepContext, NEW r \in Runs, NEW t \in Turns, NEW fact \in {"failed", "uncertain", "abandoned"},
         NEW state \in TerminalRunStates \ {"succeeded"},
         IsLive(r), ProviderPending(r, t), AddProviderFact(r, t, fact), AppendRunTransition(r, state),
         UNCHANGED <<highWater, toolCalls, toolFacts>>, KeepCounters,
         Write(ProviderRows(r, t, fact, 0) \o TransitionRows(r, state))
  PROVE  FactsInv'
<1>1. providerFacts' = [providerFacts EXCEPT ![<<r, t>>] = providerFacts[<<r, t>>] \cup {fact}]
  BY DEF AddProviderFact
<1>2. fact \in providerFacts'[<<r, t>>]
  BY <1>1 DEF StepContext, LedgerInv, LedgerTypeOK
<1>3. state # "active" /\ fact \in TerminalProviderFacts /\ fact \in ProviderFacts
  BY DEF TerminalRunStates, TerminalProviderFacts, ProviderFacts
<1>4. runState'[r] = state /\ state \notin {"none", "accepted"}
  BY <1>3, TransitionOfRun
<1>5. PICK w1 : /\ ProviderRows(r, t, fact, 0) = <<w1>> /\ Ready(w1)
                /\ w1.row = Row("provider", r, t, 0, fact, 0)
  BY <1>2, <1>3, ProviderReady
<1>6. PICK w2 : /\ TransitionRows(r, state) = <<w2>> /\ Ready(w2)
                /\ w2.row = Row("state", r, 0, 0, state, 0)
  BY <1>3, <1>4, StateReady
<1>7. Write(<<w1>> \o <<w2>>)
  BY <1>5, <1>6
<1>8. Follows(w2.row, w1.row)
  BY <1>5, <1>6 DEF Follows, Row, MustPrecede, Exclusive, Conflicts, InTranscript
<1>9. RowsInv' /\ \E writes : Grown(writes, 2) /\ writes[1] = w1 /\ writes[2] = w2
  BY <1>5, <1>6, <1>7, <1>8, CountersTyped, TwoRows
<1>10. PICK writes : Grown(writes, 2) /\ writes[1] = w1 /\ writes[2] = w2
  BY <1>9
<1>11. Plain(writes, 2)
  BY <1>5, <1>6, <1>10 DEF Plain, Row
<1>12. IsWritten("state", r, 0, 0, state)'
  BY <1>6, <1>10, NewIsWritten
<1>13. IsWritten("provider", r, t, 0, fact)'
  BY <1>5, <1>10, NewIsWritten
<1>14. OperationsAreWritten'
  BY <1>1, <1>10, <1>13, OperationMoved DEF StepContext, LedgerInv, RowsAreComplete
<1>15. FactsShape'
  BY <1>1, ShapeOfOperation DEF StepContext, LedgerInv, LedgerGrows, ProviderPending
<1> QED
  BY <1>9, <1>10, <1>11, <1>12, <1>14, <1>15, TransitionKeeps DEF KeepCounters

LEMMA FinishOperationKeeps ==
  ASSUME StepContext, NEW r \in Runs, NEW t \in Turns, NEW kind \in {"stopped", "failed", "uncertain"},
         WriteFinish(r, t, kind)
  PROVE  FactsInv'
<1>1. PICK state : state = FinishState(r, kind)
  OBVIOUS
<1>2. PICK fact : fact = IF kind = "stopped" THEN StoppedFact(r, t) ELSE kind
  OBVIOUS
<1>3. t # 0
  BY BoundAssumption DEF Turns
<1>4. /\ IsLive(r) /\ ProviderPending(r, t) /\ AddProviderFact(r, t, fact)
      /\ AppendRunTransition(r, state)
      /\ UNCHANGED <<highWater, toolCalls, toolFacts>> /\ KeepCounters
  BY <1>1, <1>2, <1>3 DEF WriteFinish, FinishRun, FinishState, toolVars
<1>5. Write(ProviderRows(r, t, fact, 0) \o TransitionRows(r, state))
  BY <1>1, <1>2, <1>3 DEF WriteFinish, FinishState
<1>6. fact \in {"failed", "uncertain", "abandoned"} /\ state \in TerminalRunStates \ {"succeeded"}
  BY <1>1, <1>2 DEF FinishState, StoppedFact, TerminalRunStates
<1> QED
  BY <1>4, <1>5, <1>6, OutcomeAndEnd

\* One more fact of an operation, beside nothing else.
LEMMA OneProviderFact ==
  ASSUME StepContext, NEW r \in Runs, NEW t \in Turns, NEW fact \in ProviderFacts \ {"prepared", "completed"},
         IsLive(r), ProviderPending(r, t), fact = "dispatched" => fact \notin providerFacts[<<r, t>>],
         AddProviderFact(r, t, fact), KeepCounters, Write(ProviderRows(r, t, fact, 0)),
         UNCHANGED <<runState, cancelRequested, highWater, toolCalls, toolFacts>>
  PROVE  FactsInv'
<1>1. providerFacts' = [providerFacts EXCEPT ![<<r, t>>] = providerFacts[<<r, t>>] \cup {fact}]
  BY DEF AddProviderFact
<1>2. fact \in providerFacts'[<<r, t>>]
  BY <1>1 DEF StepContext, LedgerInv, LedgerTypeOK
<1>3. fact = "dispatched" \/ fact \in TerminalProviderFacts
  BY DEF ProviderFacts
<1>4. PICK w : /\ ProviderRows(r, t, fact, 0) = <<w>> /\ Ready(w)
               /\ w.row = Row("provider", r, t, 0, fact, 0)
  BY <1>2, <1>3, ProviderReady
<1>5. RowsInv' /\ \E writes : Grown(writes, 1) /\ writes[1] = w
  BY <1>4, CountersTyped, OneRow
<1>6. PICK writes : Grown(writes, 1) /\ writes[1] = w
  BY <1>5
<1>7. Plain(writes, 1)
  BY <1>4, <1>6 DEF Plain, Row
<1>8. IsWritten("provider", r, t, 0, fact)'
  BY <1>4, <1>6, NewIsWritten
<1>9. OperationsAreWritten'
  BY <1>1, <1>6, <1>8, OperationMoved DEF StepContext, LedgerInv, RowsAreComplete
<1>10. FactsShape'
  BY <1>1, ShapeOfOperation DEF StepContext, LedgerInv, LedgerGrows, ProviderPending
<1>11. RunsAreWritten' /\ ToolsAreWritten'
  BY <1>6, RunsUnmoved, ToolsUnmoved DEF StepContext, RowsAreComplete
<1>12. \A q \in Runs : IsLive(q)' => IsLive(q)
  BY DEF IsLive
<1> QED
  BY <1>5, <1>6, <1>7, <1>9, <1>10, <1>11, <1>12, PlainKeeps DEF KeepCounters

LEMMA DispatchedKeeps ==
  ASSUME StepContext, NEW r \in Runs, NEW t \in Turns, WriteDispatched(r, t)
  PROVE  FactsInv'
<1>1. /\ IsLive(r) /\ ProviderPending(r, t) /\ "dispatched" \notin providerFacts[<<r, t>>]
      /\ UNCHANGED <<highWater, toolCalls, toolFacts>> /\ KeepCounters
  BY DEF WriteDispatched, MarkProviderDispatched, toolVars
<1>2. CASE cancelRequested[r]
  <2>1. /\ AddProviderFact(r, t, "abandoned") /\ AppendRunTransition(r, "cancelled")
        /\ Write(ProviderRows(r, t, "abandoned", 0) \o TransitionRows(r, "cancelled"))
    BY <1>2 DEF WriteDispatched, MarkProviderDispatched
  <2>2. "cancelled" \in TerminalRunStates \ {"succeeded"}
    BY DEF TerminalRunStates
  <2> QED
    BY <1>1, <2>1, <2>2, OutcomeAndEnd
<1>3. CASE ~cancelRequested[r]
  <2>1. /\ AddProviderFact(r, t, "dispatched") /\ Write(ProviderRows(r, t, "dispatched", 0))
        /\ UNCHANGED <<runState, cancelRequested>>
    BY <1>3 DEF WriteDispatched, MarkProviderDispatched, runVars
  <2>2. "dispatched" \in ProviderFacts \ {"prepared", "completed"}
    BY DEF ProviderFacts
  <2> QED
    BY <1>1, <2>1, <2>2, OneProviderFact
<1> QED
  BY <1>2, <1>3

LEMMA RejectionKeeps ==
  ASSUME StepContext, NEW r \in Runs, NEW t \in Turns, WriteRejection(r, t)
  PROVE  FactsInv'
<1>1. /\ IsLive(r) /\ ProviderPending(r, t) /\ AddProviderFact(r, t, "failed")
      /\ UNCHANGED <<runState, cancelRequested, highWater, toolCalls, toolFacts>> /\ KeepCounters
      /\ Write(ProviderRows(r, t, "failed", 0))
  BY DEF WriteRejection, SettleContextRejection, ProviderInFlight, IsLive, LiveRunStates, runVars,
     toolVars
<1>2. "failed" \in ProviderFacts \ {"prepared", "completed"}
  BY DEF ProviderFacts, TerminalProviderFacts
<1> QED
  BY <1>1, <1>2, OneProviderFact

LEMMA PreparedRowsKeep ==
  ASSUME StepContext, NEW r \in Runs, NEW t \in Turns, WritePrepared(r, t)
  PROVE  FactsInv'
<1>1. PICK source : source = highWater[SessionOf[r]]
  OBVIOUS
<1>2. source \in Nat
  BY <1>1, SessionOfAssumption, BoundAssumption DEF StepContext, LedgerInv, LedgerTypeOK
<1>3. IsLive(r) /\ UNCHANGED <<highWater, toolCalls, toolFacts>> /\ KeepCounters
  BY DEF WritePrepared, PrepareProviderOperation, toolVars
<1>4. CASE cancelRequested[r]
  <2>1. /\ AppendRunTransition(r, "cancelled") /\ UNCHANGED providerFacts
        /\ Write(TransitionRows(r, "cancelled"))
    BY <1>4 DEF WritePrepared, PrepareProviderOperation, providerVars
  <2>2. "cancelled" \in TerminalRunStates
    BY DEF TerminalRunStates
  <2>3. runState'[r] = "cancelled"
    BY <1>3, <2>1, <2>2, TransitionOfRun
  <2>4. PICK w : /\ TransitionRows(r, "cancelled") = <<w>> /\ Ready(w)
                 /\ w.row = Row("state", r, 0, 0, "cancelled", 0)
    BY <1>3, <2>2, <2>3, StateReady
  <2>5. RowsInv' /\ \E writes : Grown(writes, 1) /\ writes[1] = w
    BY <1>3, <2>1, <2>4, CountersTyped, OneRow
  <2>6. PICK writes : Grown(writes, 1) /\ writes[1] = w
    BY <2>5
  <2>7. Plain(writes, 1)
    BY <2>4, <2>6 DEF Plain, Row
  <2>8. IsWritten("state", r, 0, 0, "cancelled")'
    BY <2>4, <2>6, NewIsWritten
  <2>9. OperationsAreWritten'
    BY <2>1, <2>6, OperationsUnmoved DEF StepContext, RowsAreComplete
  <2>10. FactsShape'
    BY <1>3, <2>1, ShapeKept DEF StepContext, LedgerGrows
  <2> QED
    BY <1>3, <2>1, <2>2, <2>5, <2>6, <2>7, <2>8, <2>9, <2>10, TransitionKeeps DEF KeepCounters
<1>5. CASE ~cancelRequested[r]
  <2>1. /\ runState[r] = "active" /\ IsNextTurn(r, t)
        /\ providerFacts' = [providerFacts EXCEPT ![<<r, t>>] = {"prepared"}]
        /\ UNCHANGED <<runState, cancelRequested>>
        /\ Write(ProviderRows(r, t, "prepared", source))
    BY <1>1, <1>5 DEF WritePrepared, PrepareProviderOperation, CanPrepareProvider, runVars
  <2>2. providerFacts[<<r, t>>] = {}
    BY <2>1 DEF IsNextTurn
  <2>3. providerFacts' = [providerFacts EXCEPT ![<<r, t>>] = providerFacts[<<r, t>>] \cup {"prepared"}]
    BY <2>1, <2>2
  <2>4. "prepared" \in providerFacts'[<<r, t>>] /\ "prepared" \in ProviderFacts
    BY <2>1 DEF StepContext, LedgerInv, LedgerTypeOK, ProviderFacts
  <2>5. PICK w : /\ ProviderRows(r, t, "prepared", source) = <<w>> /\ Ready(w)
                 /\ w.row = Row("provider", r, t, 0, "prepared", source)
    BY <1>1, <1>2, <1>3, <2>2, <2>4, ProviderReady
  <2>6. RowsInv' /\ \E writes : Grown(writes, 1) /\ writes[1] = w
    BY <1>3, <2>1, <2>5, CountersTyped, OneRow
  <2>7. PICK writes : Grown(writes, 1) /\ writes[1] = w
    BY <2>6
  <2>8. FactsShape'
    <3>1. runState[r] \notin {"none", "accepted"} /\ IsNextTurn(r, t)
      BY <2>1
    <3>2. LedgerTypeOK /\ FactsShape /\ \A q \in Runs : RunGrows(q)
      BY DEF StepContext, LedgerInv, LedgerGrows
    <3> QED
      BY <1>3, <2>3, <3>1, <3>2, ShapeOfOperation
  <2>9. IsWritten("provider", r, t, 0, "prepared")'
    BY <2>5, <2>7, NewIsWritten
  <2>10. OperationsAreWritten'
    BY <2>3, <2>7, <2>9, OperationMoved DEF StepContext, LedgerInv, RowsAreComplete
  <2>11. RunsAreWritten' /\ ToolsAreWritten' /\ CallsAreWritten' /\ TranscriptIsWhole'
    BY <1>3, <2>1, <2>7, RunsUnmoved, ToolsUnmoved, CallsUnmoved, TranscriptUnmoved
    DEF StepContext, RowsAreComplete
  <2>12. LiveRunReadsEntry'
    <3>1. \A q \in Runs : IsLive(q)' => IsLive(q)
      BY <2>1 DEF IsLive
    <3> QED
      BY <1>3, <2>7, <3>1, LiveRunsUnmoved DEF StepContext, RowsAreComplete
  <2>13. PreparedHaveSource'
    <3> SUFFICES ASSUME NEW p \in DOMAIN journal', NEW row, row = journal'[p],
                        row.table = "provider", row.kind = "prepared"
                 PROVE  \E i \in DOMAIN journal' :
                          /\ i < p /\ journal'[i].table = "entry"
                          /\ IsPlace(i, SessionOf[row.of], row.seq)'
      BY DEF PreparedHaveSource
    <3>1. CASE p \in DOMAIN journal
      <4>1. journal[p] = row
        BY <2>7, <3>1 DEF Grown
      <4>2. PICK i \in DOMAIN journal :
              i < p /\ journal[i].table = "entry" /\ IsPlace(i, SessionOf[row.of], row.seq)
        BY <3>1, <4>1 DEF StepContext, RowsAreComplete, PreparedHaveSource
      <4> QED
        BY <2>7, <4>2, PlaceKept
    <3>2. CASE p \notin DOMAIN journal
      <4>1. PICK j \in 1 .. 1 : p = Len(journal) + j /\ journal'[p] = writes[j].row
        BY <2>7, <3>2, NewRow
      <4>2. row.of = r /\ row.seq = source /\ p = Len(journal) + 1
        BY <2>5, <2>7, <4>1 DEF Row
      <4>3. PICK i \in DOMAIN journal :
              journal[i].table = "entry" /\ IsPlace(i, SessionOf[r], source)
        BY <1>1, <1>3 DEF StepContext, RowsAreComplete, LiveRunReadsEntry
      <4>4. i < p
        BY <2>7, <4>2 DEF Grown
      <4> QED
        BY <2>7, <4>2, <4>3, <4>4, PlaceKept
    <3> QED
      BY <3>1, <3>2
  <2>14. CountersAgree'
    <3>1. \A q \in Runs : RebuiltCounts(q)' = counters'[q]
      <4>1. UNCHANGED counters
        BY <1>3 DEF KeepCounters
      <4>2. \A i \in 1 .. 1 : /\ writes[i].row.table # "call"
                              /\ writes[i].row.kind # "completed"
        BY <2>5, <2>7 DEF Row
      <4> QED
        BY <2>7, <4>1, <4>2, CountsKept DEF StepContext, RowsAreComplete
    <3> QED
      BY <3>1 DEF CountersAgree
  <2> QED
    BY <2>6, <2>8, <2>10, <2>11, <2>12, <2>13, <2>14 DEF StepContext, FactsInv, RowsAreComplete
<1> QED
  BY <1>4, <1>5

\* A fact of a tool call that does not end it.
LEMMA OneToolFact ==
  ASSUME StepContext, NEW r \in Runs, NEW t \in Turns, NEW k \in Calls,
         NEW fact \in {"prepared", "dispatched"}, IsCall(r, t, k),
         \/ fact = "prepared" /\ toolFacts[<<r, t, k>>] = {}
         \/ fact = "dispatched" /\ ToolPending(r, t, k) /\ fact \notin toolFacts[<<r, t, k>>],
         AddToolFact(r, t, k, fact), Write(ToolRows(r, t, k, fact)), KeepCounters,
         UNCHANGED <<runState, cancelRequested, highWater, providerFacts>>
  PROVE  FactsInv'
<1>1. /\ toolFacts' = [toolFacts EXCEPT ![<<r, t, k>>] = toolFacts[<<r, t, k>>] \cup {fact}]
      /\ UNCHANGED toolCalls
  BY DEF AddToolFact
<1>2. fact \in toolFacts'[<<r, t, k>>]
  BY <1>1 DEF StepContext, LedgerInv, LedgerTypeOK
<1>3. fact \in ToolFacts /\ fact \notin TerminalToolFacts /\ fact # "uncertain"
  BY DEF ToolFacts, TerminalToolFacts
<1>4. PICK w : /\ ToolRows(r, t, k, fact) = <<w>> /\ Ready(w)
               /\ w.row = Row("tool", r, t, k, fact, 0)
  BY <1>2, <1>3, ToolReady DEF ToolPending
<1>5. RowsInv' /\ \E writes : Grown(writes, 1) /\ writes[1] = w
  BY <1>4, CountersTyped, OneRow
<1>6. PICK writes : Grown(writes, 1) /\ writes[1] = w
  BY <1>5
<1>7. Plain(writes, 1)
  BY <1>4, <1>6 DEF Plain, Row
<1>8. IsWritten("tool", r, t, k, fact)'
  BY <1>4, <1>6, NewIsWritten
<1>9. ToolsAreWritten'
  BY <1>1, <1>3, <1>6, <1>8, ToolMoved DEF StepContext, LedgerInv, RowsAreComplete
<1>10. FactsShape'
  BY <1>1, <1>3, ShapeOfTool DEF StepContext, LedgerInv, LedgerGrows, ToolPending
<1>11. RunsAreWritten' /\ OperationsAreWritten'
  BY <1>6, RunsUnmoved, OperationsUnmoved DEF StepContext, RowsAreComplete
<1>12. \A q \in Runs : IsLive(q)' => IsLive(q)
  BY DEF IsLive
<1> QED
  BY <1>1, <1>5, <1>6, <1>7, <1>9, <1>10, <1>11, <1>12, PlainKeeps DEF KeepCounters

LEMMA ToolPreparedRowsKeep ==
  ASSUME StepContext, NEW r \in Runs, NEW t \in Turns, NEW k \in Calls, WriteToolPrepared(r, t, k)
  PROVE  FactsInv'
BY OneToolFact DEF WriteToolPrepared, PrepareToolOperation, CanPrepareTool, runVars, providerVars

LEMMA ToolDispatchedKeeps ==
  ASSUME StepContext, NEW r \in Runs, NEW t \in Turns, NEW k \in Calls, WriteToolDispatched(r, t, k)
  PROVE  FactsInv'
<1>1. ToolPending(r, t, k) /\ "dispatched" \notin toolFacts[<<r, t, k>>]
  BY DEF WriteToolDispatched, MarkToolDispatched, CanMarkToolDispatched
<1>2. IsCall(r, t, k)
  BY <1>1 DEF StepContext, FactsShape, ToolShape, ToolPending
<1>3. /\ AddToolFact(r, t, k, "dispatched") /\ Write(ToolRows(r, t, k, "dispatched")) /\ KeepCounters
      /\ UNCHANGED <<runState, cancelRequested, highWater, providerFacts>>
  BY DEF WriteToolDispatched, MarkToolDispatched, runVars, providerVars
<1> QED
  BY <1>1, <1>2, <1>3, OneToolFact

\* A row of a command that is not its end.
LEMMA OneCommandRow ==
  ASSUME StepContext, NEW c \in Commands, NEW kind \in CommandKinds, NEW event, NEW request,
         CommandBeside(kind) = <<event, request>>, commandState[c] \notin TerminalCommandStates,
         commandState'[c] # "none", Write(CommandRow(c, kind, 0, event, request)), KeepCounters,
         UNCHANGED <<runState, cancelRequested, highWater, providerFacts, toolCalls, toolFacts>>
  PROVE  FactsInv'
<1>1. kind \notin TerminalCommandStates
  BY DEF CommandKinds, LiveCommandStates, TerminalCommandStates
<1>2. PICK w : /\ CommandRow(c, kind, 0, event, request) = <<w>> /\ IsWrite(w)
               /\ w.row = Row("command", c, 0, 0, kind, 0)
  BY CommandWrite
<1>3. Clear(Row("command", c, 0, 0, kind, 0))
  BY CommandIsClear DEF StepContext, LedgerInv
<1>4. Backed(Row("command", c, 0, 0, kind, 0))'
  BY <1>1 DEF Backed, Row
<1>5. Ready(w)
  BY <1>2, <1>3, <1>4 DEF Ready
<1>6. RowsInv' /\ \E writes : Grown(writes, 1) /\ writes[1] = w
  BY <1>2, <1>5, CountersTyped, OneRow
<1>7. PICK writes : Grown(writes, 1) /\ writes[1] = w
  BY <1>6
<1>8. Plain(writes, 1)
  BY <1>2, <1>7 DEF Plain, Row
<1> QED
  BY <1>6, <1>7, <1>8, AsideKeeps DEF KeepCounters

LEMMA CommandKeeps ==
  ASSUME StepContext, NEW c \in Commands,
         WriteCommand(c) \/ WriteCommandActive(c) \/ WriteCommandCancel(c)
  PROVE  FactsInv'
<1>1. {"accepted", "active", "cancelled"} \subseteq CommandKinds
  BY DEF CommandKinds, LiveCommandStates
<1>2. CASE WriteCommand(c)
  <2>1. /\ commandState[c] = "none" /\ commandState' = [commandState EXCEPT ![c] = "accepted"]
        /\ Write(CommandRow(c, "accepted", 0, "command_accepted", "command")) /\ KeepCounters
        /\ UNCHANGED <<runState, cancelRequested, highWater, providerFacts, toolCalls, toolFacts>>
    BY <1>2 DEF WriteCommand, AcceptLocalCommand, CanAcceptCommand, runVars, providerVars, toolVars
  <2>2. commandState'[c] # "none" /\ commandState[c] \notin TerminalCommandStates
    BY <2>1 DEF StepContext, LedgerInv, LedgerTypeOK, TerminalCommandStates
  <2> QED
    BY <1>1, <2>1, <2>2, OneCommandRow DEF CommandBeside
<1>3. CASE WriteCommandActive(c)
  <2>1. /\ commandState[c] = "accepted" /\ commandState' = [commandState EXCEPT ![c] = "active"]
        /\ Write(CommandRow(c, "active", 0, "none", "none")) /\ KeepCounters
        /\ UNCHANGED <<runState, cancelRequested, highWater, providerFacts, toolCalls, toolFacts>>
    BY <1>3 DEF WriteCommandActive, ActivateLocalCommand, runVars, providerVars, toolVars
  <2>2. commandState'[c] # "none" /\ commandState[c] \notin TerminalCommandStates
    BY <2>1 DEF StepContext, LedgerInv, LedgerTypeOK, TerminalCommandStates
  <2> QED
    BY <1>1, <2>1, <2>2, OneCommandRow DEF CommandBeside
<1>4. CASE WriteCommandCancel(c)
  <2>1. /\ commandState[c] \in LiveCommandStates /\ commandState' = commandState
        /\ Write(CommandRow(c, "cancelled", 0, "none", "command_cancel")) /\ KeepCounters
        /\ UNCHANGED <<runState, cancelRequested, highWater, providerFacts, toolCalls, toolFacts>>
    BY <1>4 DEF WriteCommandCancel, CancelLocalCommand, runVars, providerVars, toolVars
  <2>2. commandState'[c] # "none" /\ commandState[c] \notin TerminalCommandStates
    BY <2>1 DEF LiveCommandStates, TerminalCommandStates
  <2> QED
    BY <1>1, <2>1, <2>2, OneCommandRow DEF CommandBeside
<1> QED
  BY <1>2, <1>3, <1>4

--------------------------------------------------------------------------------
(* Transactions that append to the transcript. *)

LEMMA NewPlace ==
  ASSUME NEW n, NEW writes, Grown(writes, n), NEW i \in 1 .. n, NEW s, NEW place,
         InTranscript(writes[i].row), SessionOf[writes[i].row.of] = s, writes[i].row.seq = place
  PROVE  \E p \in DOMAIN journal' : IsPlace(p, s, place)' /\ journal'[p] = writes[i].row
<1>1. PICK p : p = Len(journal) + i
  OBVIOUS
<1>2. p \in DOMAIN journal' /\ journal'[p] = writes[i].row
  BY <1>1 DEF Grown
<1>3. IsPlace(p, s, place)'
  BY <1>2 DEF IsPlace, InTranscript
<1> QED
  BY <1>2, <1>3

\* The transcript of session z, of last entries, gets m more.
Extends(z, last, m) == highWater' = [highWater EXCEPT ![z] = last + m]

\* n writes take the m places after last in the transcript of session z.
PlacesTaken(writes, n, z, last, m) ==
  \A j \in 1 .. m : \E i \in 1 .. n :
    /\ InTranscript(writes[i].row) /\ SessionOf[writes[i].row.of] = z
    /\ writes[i].row.seq = last + j

LEMMA TranscriptExtended ==
  ASSUME LedgerTypeOK, TranscriptIsWhole, NEW n, NEW writes, Grown(writes, n), NEW z \in Sessions,
         NEW m \in Nat, NEW last \in Nat, last = highWater[z], Extends(z, last, m),
         PlacesTaken(writes, n, z, last, m)
  PROVE  TranscriptIsWhole'
<1> SUFFICES ASSUME NEW s \in Sessions, NEW place \in 1 .. highWater'[s]
             PROVE  \E p \in DOMAIN journal' : IsPlace(p, s, place)'
  BY DEF TranscriptIsWhole
<1>1. highWater[s] \in Nat
  BY BoundAssumption DEF LedgerTypeOK
<1>2. highWater'[s] = IF s = z THEN last + m ELSE highWater[s]
  BY DEF LedgerTypeOK, Extends
<1>3. CASE place <= highWater[s]
  <2>1. PICK i \in DOMAIN journal : IsPlace(i, s, place)
    <3>1. place \in 1 .. highWater[s]
      BY <1>1, <1>2, <1>3
    <3> QED
      BY <3>1 DEF TranscriptIsWhole
  <2> QED
    BY <2>1, PlaceKept
<1>4. CASE ~(place <= highWater[s])
  <2>1. s = z /\ place - last \in 1 .. m /\ place = last + (place - last)
    BY <1>1, <1>2, <1>4
  <2>2. PICK i \in 1 .. n :
          /\ InTranscript(writes[i].row) /\ SessionOf[writes[i].row.of] = z
          /\ writes[i].row.seq = place
    BY <2>1 DEF PlacesTaken
  <2> QED
    BY <2>1, <2>2, NewPlace
<1> QED
  BY <1>3, <1>4

LEMMA LiveRunsRead ==
  ASSUME LedgerTypeOK, LiveRunReadsEntry, NEW n, NEW writes, Grown(writes, n), NEW z \in Sessions,
         NEW last, NEW m, Extends(z, last, m),
         \A r \in Runs : SessionOf[r] # z /\ IsLive(r)' => IsLive(r),
         \/ \A r \in Runs : SessionOf[r] = z => ~IsLive(r)'
         \/ \E i \in 1 .. n :
              /\ writes[i].row.table = "entry" /\ InTranscript(writes[i].row)
              /\ SessionOf[writes[i].row.of] = z /\ writes[i].row.seq = last + m
  PROVE  LiveRunReadsEntry'
<1> SUFFICES ASSUME NEW r \in Runs, IsLive(r)', NEW place, place = highWater'[SessionOf[r]]
             PROVE  \E p \in DOMAIN journal' :
                      journal'[p].table = "entry" /\ IsPlace(p, SessionOf[r], place)'
  BY DEF LiveRunReadsEntry
<1>1. SessionOf[r] \in Sessions
  BY SessionOfAssumption
<1>2. place = IF SessionOf[r] = z THEN last + m ELSE highWater[SessionOf[r]]
  BY <1>1 DEF LedgerTypeOK, Extends
<1>3. CASE SessionOf[r] = z
  <2>1. PICK i \in 1 .. n :
          /\ writes[i].row.table = "entry" /\ InTranscript(writes[i].row)
          /\ SessionOf[writes[i].row.of] = z /\ writes[i].row.seq = last + m
    BY <1>3
  <2> QED
    BY <1>2, <1>3, <2>1, NewPlace
<1>4. CASE SessionOf[r] # z
  <2>1. PICK i \in DOMAIN journal :
          journal[i].table = "entry" /\ IsPlace(i, SessionOf[r], place)
    BY <1>2, <1>4 DEF LiveRunReadsEntry
  <2> QED
    BY <2>1, PlaceKept
<1> QED
  BY <1>3, <1>4

\* A transaction that appends one entry to the transcript of session z, as its row e,
\* and has no other rows that are counted.
LEMMA EntryKeeps ==
  ASSUME StepContext, RowsInv', NEW n, NEW writes, Grown(writes, n), Plain(writes, n),
         NEW z \in Sessions, NEW last \in Nat, last = highWater[z], AppendEntries(z, 1),
         NEW e \in 1 .. n, InTranscript(writes[e].row), SessionOf[writes[e].row.of] = z,
         writes[e].row.seq = last + 1,
         \A r \in Runs : SessionOf[r] # z /\ IsLive(r)' => IsLive(r),
         writes[e].row.table = "entry" \/ \A r \in Runs : SessionOf[r] = z => ~IsLive(r)',
         UNCHANGED <<toolCalls, counters>>,
         FactsShape', RunsAreWritten', OperationsAreWritten', ToolsAreWritten'
  PROVE  FactsInv'
<1>1. Extends(z, last, 1)
  BY DEF AppendEntries, Extends
<1>2. TranscriptIsWhole'
  <2>1. PlacesTaken(writes, n, z, last, 1)
    BY DEF PlacesTaken
  <2> QED
    BY <1>1, <2>1, TranscriptExtended DEF StepContext, LedgerInv, RowsAreComplete
<1>3. LiveRunReadsEntry'
  BY <1>1, LiveRunsRead DEF StepContext, LedgerInv, RowsAreComplete
<1>4. CallsAreWritten'
  BY CallsUnmoved DEF StepContext, RowsAreComplete
<1>5. PreparedHaveSource'
  BY SourcesKept DEF StepContext, RowsAreComplete, Plain
<1>6. \A r \in Runs : RebuiltCounts(r)' = counters'[r]
  BY CountsKept DEF StepContext, RowsAreComplete, Plain
<1> QED
  BY <1>2, <1>3, <1>4, <1>5, <1>6 DEF StepContext, FactsInv, RowsAreComplete, CountersAgree

LEMMA InputKeeps ==
  ASSUME StepContext, NEW r \in Runs, WriteInput(r)
  PROVE  FactsInv'
<1>0. LedgerTypeOK /\ LedgerTypeOK' /\ SessionOf[r] \in Sessions
  BY SessionOfAssumption DEF StepContext, LedgerInv
<1>1. PICK last : last = highWater[SessionOf[r]]
  OBVIOUS
<1>2. last \in Nat /\ last + 1 \in Nat
  BY <1>0, <1>1, BoundAssumption DEF LedgerTypeOK
<1>3. /\ runState[r] = "none" /\ runState' = [runState EXCEPT ![r] = "accepted"]
      /\ AppendEntries(SessionOf[r], 1) /\ KeepCounters
      /\ UNCHANGED <<cancelRequested, providerFacts, toolCalls, toolFacts>>
  BY DEF WriteInput, AcceptSessionInput, CanAcceptInput, providerVars, toolVars
<1>4. highWater'[SessionOf[r]] = last + 1
  BY <1>0, <1>1, <1>3 DEF LedgerTypeOK, AppendEntries
<1>5. runState'[r] = "accepted" /\ \A q \in Runs : q = r \/ runState'[q] = runState[q]
  BY <1>0, <1>3 DEF LedgerTypeOK
<1>6. PICK w1 : /\ EntryRow(r, 0, 0, "user", 1) = <<w1>> /\ IsWrite(w1)
                /\ w1.row = Row("entry", r, 0, 0, "user", last + 1)
  BY <1>0, <1>1, EntryWrite
<1>7. PICK w2 : /\ Put(Row("accepted", r, 0, 0, "accepted", last + 1), "accepted", "run_accepted",
                       "input") = <<w2>>
                /\ IsWrite(w2)
                /\ w2.row = Row("accepted", r, 0, 0, "accepted", last + 1)
  BY <1>2, AcceptedWrite
<1>8. Ready(w1)
  <2>1. Clear(Row("entry", r, 0, 0, "user", last + 1))
    BY <1>0, <1>1, <1>2, <1>3, UserIsClear
  <2>2. Backed(Row("entry", r, 0, 0, "user", last + 1))'
    BY <1>2, <1>4, <1>5 DEF Backed, Row
  <2> QED
    BY <1>6, <2>1, <2>2 DEF Ready
<1>9. Ready(w2)
  <2>1. Clear(Row("accepted", r, 0, 0, "accepted", last + 1))
    BY <1>0, <1>2, <1>3, AcceptedIsClear DEF StepContext
  <2>2. Backed(Row("accepted", r, 0, 0, "accepted", last + 1))'
    BY <1>2, <1>4, <1>5 DEF Backed, Row
  <2> QED
    BY <1>7, <2>1, <2>2 DEF Ready
<1>10. Write(<<w1>> \o <<w2>>)
  BY <1>1, <1>6, <1>7 DEF WriteInput
<1>11. Follows(w2.row, w1.row)
  BY <1>6, <1>7 DEF Follows, Row, MustPrecede, Exclusive, Conflicts, InTranscript
<1>12. RowsInv' /\ \E writes : Grown(writes, 2) /\ writes[1] = w1 /\ writes[2] = w2
  BY <1>3, <1>8, <1>9, <1>10, <1>11, CountersTyped, TwoRows
<1>13. PICK writes : Grown(writes, 2) /\ writes[1] = w1 /\ writes[2] = w2
  BY <1>12
<1>14. Plain(writes, 2)
  BY <1>6, <1>7, <1>13 DEF Plain, Row
<1>15. IsWritten("entry", r, 0, 0, "user")' /\ IsWritten("accepted", r, 0, 0, "accepted")'
  BY <1>6, <1>7, <1>13, NewIsWritten
<1>16. RunsAreWritten'
  <2> SUFFICES ASSUME NEW q \in Runs, NEW state, state = runState'[q] PROVE RunIsWritten(q)'
    BY DEF RunsAreWritten
  <2>1. RunIsWritten(q)
    BY DEF StepContext, RowsAreComplete, RunsAreWritten
  <2>2. (q = r /\ state = "accepted") \/ state = runState[q]
    BY <1>5
  <2>3. state # "none" =>
          IsWritten("accepted", q, 0, 0, "accepted")' /\ IsWritten("entry", q, 0, 0, "user")'
    BY <1>13, <1>15, <2>1, <2>2, WrittenKept DEF RunIsWritten
  <2>4. state \notin {"none", "accepted"} => IsWritten("state", q, 0, 0, state)'
    BY <1>13, <2>1, <2>2, WrittenKept DEF RunIsWritten
  <2>5. state = "succeeded" => \E t \in Turns : IsWritten("entry", q, t, 0, "answer")'
    BY <1>13, <2>1, <2>2, WrittenKept DEF RunIsWritten
  <2>6. cancelRequested'[q] => IsWritten("cancellation", q, 0, 0, "applied")'
    BY <1>3, <1>13, <2>1, WrittenKept DEF RunIsWritten
  <2> QED
    BY <2>3, <2>4, <2>5, <2>6 DEF RunIsWritten
<1>17. OperationsAreWritten' /\ ToolsAreWritten'
  BY <1>3, <1>13, OperationsUnmoved, ToolsUnmoved DEF StepContext, RowsAreComplete
<1>18. FactsShape'
  BY <1>3, ShapeKept DEF StepContext, LedgerGrows
<1>19. /\ writes[1].row.table = "entry" /\ SessionOf[writes[1].row.of] = SessionOf[r]
       /\ writes[1].row.seq = last + 1 /\ InTranscript(writes[1].row)
  BY <1>2, <1>6, <1>13 DEF Row, InTranscript
<1>20. \A q \in Runs : SessionOf[q] # SessionOf[r] /\ IsLive(q)' => IsLive(q)
  BY <1>5 DEF IsLive
<1>21. PICK z \in Sessions : z = SessionOf[r]
  BY <1>0
<1> QED
  BY <1>1, <1>2, <1>3, <1>12, <1>13, <1>14, <1>16, <1>17, <1>18, <1>19, <1>20, <1>21, EntryKeeps
  DEF KeepCounters

LEMMA CommandResultKeeps ==
  ASSUME StepContext, NEW c \in Commands, NEW state \in TerminalCommandStates,
         WriteCommandResult(c, state)
  PROVE  FactsInv'
<1>0. LedgerTypeOK /\ LedgerTypeOK' /\ SessionOf[c] \in Sessions
  BY SessionOfAssumption DEF StepContext, LedgerInv
<1>1. PICK last : last = highWater[SessionOf[c]]
  OBVIOUS
<1>2. last \in Nat /\ last + 1 \in Nat /\ last + 1 > last
  BY <1>0, <1>1, BoundAssumption DEF LedgerTypeOK
<1>3. /\ commandState[c] \in LiveCommandStates
      /\ commandState' = [commandState EXCEPT ![c] = state]
      /\ AppendEntries(SessionOf[c], 1) /\ KeepCounters
      /\ UNCHANGED <<runState, cancelRequested, providerFacts, toolCalls, toolFacts>>
  BY DEF WriteCommandResult, CompleteLocalCommand, CanCompleteCommand, runVars, providerVars,
     toolVars
<1>4. highWater'[SessionOf[c]] = last + 1 /\ commandState'[c] = state
  BY <1>0, <1>1, <1>3 DEF LedgerTypeOK, AppendEntries
<1>5. PICK w : /\ CommandRow(c, state, last + 1, "command_completed", "none") = <<w>> /\ IsWrite(w)
               /\ w.row = Row("command", c, 0, 0, state, last + 1)
  <2>1. CommandBeside(state) = <<"command_completed", "none">>
    BY DEF CommandBeside, TerminalCommandStates
  <2> QED
    BY <1>2, <2>1, CommandWrite
<1>6. Clear(Row("command", c, 0, 0, state, last + 1))
  <2>1. commandState[c] \notin TerminalCommandStates
    BY <1>3 DEF LiveCommandStates, TerminalCommandStates
  <2> QED
    BY <1>0, <1>1, <1>2, <2>1, CommandIsClear
<1>7. Backed(Row("command", c, 0, 0, state, last + 1))'
  BY <1>2, <1>4 DEF Backed, Row, TerminalCommandStates
<1>8. Ready(w)
  BY <1>5, <1>6, <1>7 DEF Ready
<1>9. Write(<<w>>)
  BY <1>1, <1>5 DEF WriteCommandResult
<1>10. RowsInv' /\ \E writes : Grown(writes, 1) /\ writes[1] = w
  BY <1>3, <1>8, <1>9, CountersTyped, OneRow
<1>11. PICK writes : Grown(writes, 1) /\ writes[1] = w
  BY <1>10
<1>12. Plain(writes, 1)
  BY <1>5, <1>11 DEF Plain, Row
<1>13. RunsAreWritten' /\ OperationsAreWritten' /\ ToolsAreWritten'
  BY <1>3, <1>11, RunsUnmoved, OperationsUnmoved, ToolsUnmoved DEF StepContext, RowsAreComplete
<1>14. FactsShape'
  BY <1>3, ShapeKept DEF StepContext, LedgerGrows
<1>15. /\ SessionOf[writes[1].row.of] = SessionOf[c]
       /\ writes[1].row.seq = last + 1 /\ InTranscript(writes[1].row)
  BY <1>2, <1>5, <1>11 DEF Row, InTranscript
<1>16. \A q \in Runs : IsLive(q)' => IsLive(q)
  BY <1>3 DEF IsLive
<1>17. \A q \in Runs : SessionOf[q] = SessionOf[c] => ~IsLive(q)'
  BY <1>3, <1>16 DEF StepContext, LedgerInv, SessionIsExclusive
<1>18. PICK z \in Sessions : z = SessionOf[c]
  BY <1>0
<1> QED
  BY <1>1, <1>2, <1>3, <1>10, <1>11, <1>12, <1>13, <1>14, <1>15, <1>16, <1>17, <1>18, EntryKeeps
  DEF KeepCounters

--------------------------------------------------------------------------------
(* Counting rows. *)

LEMMA SameSize ==
  ASSUME NEW S, NEW T, IsFiniteSet(S), NEW f \in [S -> T],
         \A x, y \in S : f[x] = f[y] => x = y,
         \A z \in T : \E x \in S : f[x] = z
  PROVE  IsFiniteSet(T) /\ Cardinality(T) = Cardinality(S)
<1>1. f \in Bijection(S, T)
  BY DEF Bijection, Injection, Surjection, IsInjective
<1> QED
  BY <1>1, FS_Bijection DEF ExistsBijection

LEMMA RowsAreFinite ==
  ASSUME NEW len \in Nat, DOMAIN journal = 1 .. len, NEW table, NEW of, NEW kinds
  PROVE  IsFiniteSet(Rows(table, of, kinds)) /\ Cardinality(Rows(table, of, kinds)) \in Nat
<1>1. Rows(table, of, kinds) \in SUBSET (1 .. len)
  BY DEF Rows
<1>2. IsFiniteSet(1 .. len)
  BY FS_Interval
<1> QED
  BY <1>1, <1>2, FS_Subset, FS_CardinalityType

\* The rows of one kind after n writes: those before, and those of the writes in I.
LEMMA MoreRows ==
  ASSUME NEW n \in Nat, NEW writes, Grown(writes, n), NEW table, NEW of, NEW kinds,
         NEW I \in SUBSET (1 .. n),
         \A i \in 1 .. n : i \in I <=> /\ writes[i].row.table = table /\ writes[i].row.of = of
                                       /\ writes[i].row.kind \in kinds
  PROVE  /\ Cardinality(Rows(table, of, kinds))' = Cardinality(Rows(table, of, kinds)) + Cardinality(I)
         /\ Cardinality(Rows(table, of, kinds)) \in Nat /\ Cardinality(I) \in Nat
<1>1. PICK len \in Nat : len = Len(journal) /\ DOMAIN journal = 1 .. len
  BY DEF Grown
<1>2. PICK old : old = Rows(table, of, kinds)
  OBVIOUS
<1> DEFINE f == [i \in I |-> len + i]
           new == {len + i : i \in I}
<1>3. old \subseteq 1 .. len /\ IsFiniteSet(old) /\ Cardinality(old) \in Nat
  <2>1. old \subseteq 1 .. len
    BY <1>1, <1>2 DEF Rows
  <2>2. IsFiniteSet(old) /\ Cardinality(old) \in Nat
    BY <1>1, <1>2, RowsAreFinite
  <2> QED
    BY <2>1, <2>2
<1>4. IsFiniteSet(I) /\ Cardinality(I) \in Nat
  <2>1. IsFiniteSet(1 .. n)
    BY FS_Interval
  <2> QED
    BY <2>1, FS_Subset, FS_CardinalityType
<1>5. IsFiniteSet(new) /\ Cardinality(new) = Cardinality(I)
  <2>1. f \in [I -> new]
    OBVIOUS
  <2>2. \A x, y \in I : f[x] = f[y] => x = y
    OBVIOUS
  <2>3. \A z \in new : \E x \in I : f[x] = z
    OBVIOUS
  <2> HIDE DEF f, new
  <2> QED
    BY <1>4, <2>1, <2>2, <2>3, SameSize
<1>6. old \cap new = {}
  BY <1>3
<1>7. Rows(table, of, kinds)' = old \cup new
  <2>1. \A p \in old : p \in Rows(table, of, kinds)'
    BY <1>2 DEF Rows, Grown
  <2>2. \A p \in new : p \in Rows(table, of, kinds)'
    <3> SUFFICES ASSUME NEW i \in I PROVE len + i \in Rows(table, of, kinds)'
      OBVIOUS
    <3>1. len + i \in DOMAIN journal' /\ journal'[len + i] = writes[i].row
      BY <1>1 DEF Grown
    <3> QED
      BY <3>1 DEF Rows
  <2>3. ASSUME NEW p \in Rows(table, of, kinds)' PROVE p \in old \cup new
    <3>1. CASE p \in DOMAIN journal
      BY <1>2, <2>3, <3>1 DEF Rows, Grown
    <3>2. CASE p \notin DOMAIN journal
      <4>1. p \in DOMAIN journal'
        BY <2>3 DEF Rows
      <4>2. PICK i \in 1 .. n : p = Len(journal) + i /\ journal'[p] = writes[i].row
        BY <3>2, <4>1, NewRow
      <4>3. i \in I
        BY <2>3, <4>2 DEF Rows
      <4> QED
        BY <1>1, <4>2, <4>3
    <3> QED
      BY <3>1, <3>2
  <2> HIDE DEF new
  <2> QED
    BY <2>1, <2>2, <2>3
<1> HIDE DEF f, new
<1>8. Cardinality(old \cup new) = Cardinality(old) + Cardinality(I)
  <2>1. Cardinality(old \cup new) = Cardinality(old) + Cardinality(new) - Cardinality(old \cap new)
    BY <1>3, <1>5, FS_Union
  <2>2. Cardinality(old \cap new) = 0
    BY <1>6, FS_EmptySet
  <2> QED
    BY <1>3, <1>4, <1>5, <2>1, <2>2
<1> QED
  BY <1>2, <1>3, <1>4, <1>7, <1>8

LEMMA CompletionCounted ==
  ASSUME NEW n \in Nat, NEW writes, Grown(writes, n), NEW r, n >= 1,
         \A i \in 1 .. n : i = 1 <=> /\ writes[i].row.table = "provider" /\ writes[i].row.of = r
                                    /\ writes[i].row.kind = "completed"
  PROVE  Cardinality(Rows("provider", r, {"completed"}))'
           = Cardinality(Rows("provider", r, {"completed"})) + 1
<1>1. PICK one : one = {1}
  OBVIOUS
<1>2. one \in SUBSET (1 .. n)
  BY <1>1
<1>3. Cardinality(one) = 1
  BY <1>1, FS_Singleton
<1>4. \A i \in 1 .. n : i \in one <=> /\ writes[i].row.table = "provider" /\ writes[i].row.of = r
                                      /\ writes[i].row.kind \in {"completed"}
  BY <1>1
<1>5. Cardinality(Rows("provider", r, {"completed"}))'
        = Cardinality(Rows("provider", r, {"completed"})) + Cardinality(one)
  BY <1>2, <1>4, MoreRows
<1> QED
  BY <1>3, <1>5

\* The counters of a run whose turn with some calls completed.
LEMMA TurnCounted ==
  ASSUME JournalTypeOK, NEW r \in Runs, NEW calls, NEW len \in Nat, len = Len(calls),
         NEW mutations \in Nat,
         mutations = Cardinality({k \in DOMAIN calls : calls[k] = "mutation"}),
         CountTurn(r, calls)
  PROVE  /\ counters' \in [Runs -> CounterType]
         /\ counters'[r] = [turns |-> counters[r].turns + 1, calls |-> counters[r].calls + len,
                            mutations |-> counters[r].mutations + mutations]
         /\ \A q \in Runs : q # r => counters'[q] = counters[q]
<1>1. counters \in [Runs -> CounterType] /\ counters[r] \in CounterType
  BY DEF JournalTypeOK
<1>2. counters' = [counters EXCEPT ![r].turns = @ + 1, ![r].calls = @ + len,
                                    ![r].mutations = @ + mutations]
  BY DEF CountTurn
<1>3. counters'[r] = [turns |-> counters[r].turns + 1, calls |-> counters[r].calls + len,
                      mutations |-> counters[r].mutations + mutations]
  BY <1>1, <1>2 DEF CounterType
<1>4. \A q \in Runs : q # r => counters'[q] = counters[q]
  BY <1>1, <1>2
<1>5. counters'[r] \in CounterType
  BY <1>1, <1>3 DEF CounterType
<1>6. DOMAIN counters' = Runs /\ counters' = [q \in Runs |-> counters'[q]]
  BY <1>1, <1>2
<1> QED
  BY <1>1, <1>3, <1>4, <1>5, <1>6

\* Of n writes the first completes an operation, those in I are calls and those in J
\* are calls with effects.
TurnTally(writes, n, I, J) ==
  \A i \in 1 .. n :
    /\ writes[i].row.table = "provider" /\ writes[i].row.kind = "completed" <=> i = 1
    /\ i \in I <=> writes[i].row.table = "call" /\ writes[i].row.kind \in ToolKinds
    /\ i \in J <=> writes[i].row.table = "call" /\ writes[i].row.kind = "mutation"

\* The counters agree after a turn whose writes have one completed operation and the
\* calls of the turn.
LEMMA TurnAgrees ==
  ASSUME StepContext, NEW n \in Nat, NEW writes, Grown(writes, n), NEW r \in Runs,
         NEW calls, NEW len \in Nat, len = Len(calls), NEW mutations \in Nat,
         mutations = Cardinality({k \in DOMAIN calls : calls[k] = "mutation"}),
         CountTurn(r, calls), \A i \in 1 .. n : writes[i].row.of = r,
         NEW I \in SUBSET (1 .. n), NEW J \in SUBSET (1 .. n),
         Cardinality(I) = len, Cardinality(J) = mutations,
         TurnTally(writes, n, I, J), n >= 1
  PROVE  CountersAgree'
<1>a. \A i \in 1 .. n :
        /\ writes[i].row.table = "provider" /\ writes[i].row.kind = "completed" <=> i = 1
        /\ i \in I <=> writes[i].row.table = "call" /\ writes[i].row.kind \in ToolKinds
        /\ i \in J <=> writes[i].row.table = "call" /\ writes[i].row.kind = "mutation"
  BY DEF TurnTally
<1>1. /\ counters'[r] = [turns |-> counters[r].turns + 1, calls |-> counters[r].calls + len,
                         mutations |-> counters[r].mutations + mutations]
      /\ \A q \in Runs : q # r => counters'[q] = counters[q]
  BY TurnCounted DEF StepContext, RowsInv
<1>2. ASSUME NEW q \in Runs PROVE RebuiltCounts(q)' = counters'[q]
  <2>1. CASE q # r
    BY <1>1, <2>1, CountsKept DEF StepContext, RowsAreComplete
  <2>2. CASE q = r
    <3>1. RebuiltCounts(r) = counters[r]
      BY DEF StepContext, RowsAreComplete, CountersAgree
    <3>2. Cardinality(Rows("provider", r, {"completed"}))'
            = Cardinality(Rows("provider", r, {"completed"})) + 1
      <4>1. \A i \in 1 .. n : i = 1 <=> /\ writes[i].row.table = "provider"
                                        /\ writes[i].row.of = r
                                        /\ writes[i].row.kind = "completed"
        BY <1>a
      <4> QED
        BY <4>1, CompletionCounted
    <3>3. Cardinality(Rows("call", r, ToolKinds))'
            = Cardinality(Rows("call", r, ToolKinds)) + len
      <4>1. \A i \in 1 .. n : i \in I <=> /\ writes[i].row.table = "call"
                                          /\ writes[i].row.of = r
                                          /\ writes[i].row.kind \in ToolKinds
        BY <1>a
      <4> QED
        BY <4>1, MoreRows
    <3>4. Cardinality(Rows("call", r, {"mutation"}))'
            = Cardinality(Rows("call", r, {"mutation"})) + mutations
      <4>1. \A i \in 1 .. n : i \in J <=> /\ writes[i].row.table = "call"
                                          /\ writes[i].row.of = r
                                          /\ writes[i].row.kind \in {"mutation"}
        BY <1>a
      <4> QED
        BY <4>1, MoreRows
    <3> QED
      <4>1. /\ counters[r].turns = Cardinality(Rows("provider", r, {"completed"}))
            /\ counters[r].calls = Cardinality(Rows("call", r, ToolKinds))
            /\ counters[r].mutations = Cardinality(Rows("call", r, {"mutation"}))
        BY <3>1 DEF RebuiltCounts
      <4>2. counters'[r] = [turns |-> Cardinality(Rows("provider", r, {"completed"}))',
                            calls |-> Cardinality(Rows("call", r, ToolKinds))',
                            mutations |-> Cardinality(Rows("call", r, {"mutation"}))']
        BY <1>1, <3>2, <3>3, <3>4, <4>1
      <4>3. RebuiltCounts(r)' = [turns |-> Cardinality(Rows("provider", r, {"completed"}))',
                                 calls |-> Cardinality(Rows("call", r, ToolKinds))',
                                 mutations |-> Cardinality(Rows("call", r, {"mutation"}))']
        BY DEF RebuiltCounts
      <4> QED
        BY <2>2, <4>2, <4>3
  <2> QED
    BY <2>1, <2>2
<1> QED
  BY <1>2 DEF CountersAgree

--------------------------------------------------------------------------------
(* The ends of calls and of turns. *)

LEMMA ToolResultKeeps ==
  ASSUME StepContext, NEW r \in Runs, NEW t \in Turns, NEW k \in Calls, NEW result \in ToolResults,
         WriteToolResult(r, t, k, result)
  PROVE  FactsInv'
<1>0. LedgerTypeOK /\ LedgerTypeOK' /\ SessionOf[r] \in Sessions
  BY SessionOfAssumption DEF StepContext, LedgerInv
<1>1. PICK last : last = highWater[SessionOf[r]]
  OBVIOUS
<1>2. last \in Nat /\ last + 1 \in Nat
  BY <1>0, <1>1, BoundAssumption DEF LedgerTypeOK
<1>3. PICK fact : fact = ClassifyResult(result, "dispatched" \in toolFacts[<<r, t, k>>])
  OBVIOUS
<1>4. /\ runState[r] = "active" /\ ToolPending(r, t, k) /\ AddToolFact(r, t, k, fact)
      /\ AppendEntries(SessionOf[r], 1) /\ KeepCounters /\ UNCHANGED providerFacts
      /\ IF result = "uncertain" THEN AppendRunTransition(r, "uncertain")
         ELSE UNCHANGED <<runState, cancelRequested>>
  BY <1>3 DEF WriteToolResult, CompleteToolResult, CanCompleteTool, StopsRun, providerVars, runVars
<1>5. Write(ToolRows(r, t, k, fact) \o EntryRow(r, t, k, "result", 1)
            \o (IF result = "uncertain" THEN TransitionRows(r, "uncertain") ELSE <<>>))
  BY <1>3 DEF WriteToolResult, StopsRun
<1>6. fact \in TerminalToolFacts /\ fact \in ToolFacts
  BY <1>3 DEF ClassifyResult, TerminalToolFacts, ToolFacts
<1>7. fact = "uncertain" => result = "uncertain" \/ toolCalls[<<r, t>>][k] = "web"
  BY <1>3 DEF WriteToolResult, ClassifyResult
<1>8. /\ toolFacts' = [toolFacts EXCEPT ![<<r, t, k>>] = toolFacts[<<r, t, k>>] \cup {fact}]
      /\ UNCHANGED toolCalls
  BY <1>4 DEF AddToolFact
<1>9. fact \in toolFacts'[<<r, t, k>>]
  BY <1>0, <1>8 DEF LedgerTypeOK
<1>10. highWater'[SessionOf[r]] = last + 1
  BY <1>0, <1>1, <1>4 DEF LedgerTypeOK, AppendEntries
<1>11. IsLive(r)
  BY <1>4 DEF IsLive, LiveRunStates
<1>12. ~ToolSettled(r, t, k) /\ ToolSettled(r, t, k)' /\ "prepared" \in toolFacts[<<r, t, k>>]
  BY <1>4, <1>6, <1>9 DEF ToolPending, ToolSettled
<1>13. IsCall(r, t, k)
  BY <1>12 DEF StepContext, FactsShape, ToolShape
<1>14. PICK w1 : /\ ToolRows(r, t, k, fact) = <<w1>> /\ Ready(w1)
                 /\ w1.row = Row("tool", r, t, k, fact, 0)
  BY <1>6, <1>9, <1>12, ToolReady
<1>15. PICK w2 : /\ EntryRow(r, t, k, "result", 1) = <<w2>> /\ Ready(w2)
                 /\ w2.row = Row("entry", r, t, k, "result", last + 1)
  <2>1. 1 \in Nat /\ 1 >= 1 /\ last + 1 <= highWater'[SessionOf[r]]
    BY <1>2, <1>10
  <2> QED
    BY <1>1, <1>2, <1>11, <1>12, <2>1, EntryReady
<1>16. Follows(w2.row, w1.row)
  BY <1>14, <1>15 DEF Follows, Row, MustPrecede, Exclusive, Conflicts, InTranscript
<1>17. ASSUME RowsInv', NEW n \in 2 .. 3, NEW writes, Grown(writes, n), Plain(writes, n),
              writes[1] = w1, writes[2] = w2, RunsAreWritten', FactsShape',
              \A q \in Runs : IsLive(q)' => IsLive(q)
       PROVE  FactsInv'
  <2>1. 1 \in 1 .. n /\ 2 \in 1 .. n
    OBVIOUS
  <2>2. IsWritten("tool", r, t, k, fact)' /\ IsWritten("entry", r, t, k, "result")'
    BY <1>14, <1>15, <1>17, <2>1, NewIsWritten
  <2>3. ToolsAreWritten'
    BY <1>0, <1>8, <1>17, <2>2, ToolMoved DEF StepContext, RowsAreComplete
  <2>4. OperationsAreWritten'
    BY <1>4, <1>17, OperationsUnmoved DEF StepContext, RowsAreComplete
  <2>5. /\ writes[2].row.table = "entry" /\ SessionOf[writes[2].row.of] = SessionOf[r]
        /\ writes[2].row.seq = last + 1 /\ InTranscript(writes[2].row)
    BY <1>2, <1>15, <1>17 DEF Row, InTranscript
  <2>6. PICK z \in Sessions : z = SessionOf[r]
    BY <1>0
  <2> QED
    BY <1>1, <1>2, <1>4, <1>8, <1>17, <2>1, <2>3, <2>4, <2>5, <2>6, EntryKeeps DEF KeepCounters
<1>18. counters' \in [Runs -> CounterType]
  BY <1>4, CountersTyped
<1>19. CASE result # "uncertain"
  <2>1. Write(<<w1>> \o <<w2>>)
    BY <1>5, <1>14, <1>15, <1>19, JoinedNothing
  <2>2. RowsInv' /\ \E writes : Grown(writes, 2) /\ writes[1] = w1 /\ writes[2] = w2
    BY <1>14, <1>15, <1>16, <1>18, <2>1, TwoRows
  <2>3. PICK writes : Grown(writes, 2) /\ writes[1] = w1 /\ writes[2] = w2
    BY <2>2
  <2>4. Plain(writes, 2)
    BY <1>14, <1>15, <2>3 DEF Plain, Row
  <2>5. UNCHANGED <<runState, cancelRequested>>
    BY <1>4, <1>19
  <2>6. RunsAreWritten' /\ \A q \in Runs : IsLive(q)' => IsLive(q)
    BY <2>3, <2>5, RunsUnmoved DEF StepContext, RowsAreComplete, IsLive
  <2>7. FactsShape'
    BY <1>4, <1>7, <1>8, <1>12, <1>13, <1>19, ShapeOfTool DEF StepContext, LedgerInv, LedgerGrows
  <2> QED
    BY <1>17, <2>2, <2>3, <2>4, <2>6, <2>7
<1>20. CASE result = "uncertain"
  <2>1. "uncertain" \in TerminalRunStates /\ AppendRunTransition(r, "uncertain")
    BY <1>4, <1>20 DEF TerminalRunStates
  <2>2. /\ runState' = [runState EXCEPT ![r] = "uncertain"] /\ UNCHANGED cancelRequested
        /\ runState'[r] = "uncertain" /\ runState[r] # "none"
        /\ \A q \in Runs : IsLive(q)' => IsLive(q)
    BY <1>11, <2>1, TransitionOfRun
  <2>3. PICK w3 : /\ TransitionRows(r, "uncertain") = <<w3>> /\ Ready(w3)
                  /\ w3.row = Row("state", r, 0, 0, "uncertain", 0)
    BY <1>11, <2>1, <2>2, StateReady
  <2>4. Write(Triple(w1, w2, w3))
    BY <1>5, <1>14, <1>15, <1>20, <2>3 DEF Triple
  <2>5. Follows(w3.row, w1.row) /\ Follows(w3.row, w2.row)
    BY <1>14, <1>15, <2>3 DEF Follows, Row, MustPrecede, Exclusive, Conflicts, InTranscript
  <2>6. RowsInv' /\ \E writes : Grown(writes, 3) /\ writes[1] = w1 /\ writes[2] = w2 /\ writes[3] = w3
    BY <1>14, <1>15, <1>16, <1>18, <2>3, <2>4, <2>5, ThreeRows
  <2>7. PICK writes : Grown(writes, 3) /\ writes[1] = w1 /\ writes[2] = w2 /\ writes[3] = w3
    BY <2>6
  <2>8. Plain(writes, 3)
    BY <1>14, <1>15, <2>3, <2>7 DEF Plain, Row
  <2>9. IsWritten("state", r, 0, 0, "uncertain")'
    BY <2>3, <2>7, NewIsWritten
  <2>10. RunsAreWritten'
    BY <1>0, <2>2, <2>7, <2>9, RunMoved DEF StepContext, RowsAreComplete
  <2>11. FactsShape'
    BY <1>4, <1>8, <1>12, <1>13, <2>2, ShapeOfTool DEF StepContext, LedgerInv, LedgerGrows
  <2> QED
    BY <1>17, <2>2, <2>6, <2>7, <2>8, <2>10, <2>11
<1> QED
  BY <1>19, <1>20

LEMMA NoCallsCounted ==
  ASSUME StepContext, NEW n \in Nat, NEW writes, Grown(writes, n), NEW r \in Runs,
         CountTurn(r, <<>>), n >= 1, \A i \in 1 .. n : writes[i].row.of = r,
         \A i \in 1 .. n :
           /\ writes[i].row.table = "provider" /\ writes[i].row.kind = "completed" <=> i = 1
           /\ writes[i].row.table # "call"
  PROVE  CountersAgree'
<1>1. PICK calls : calls = <<>>
  OBVIOUS
<1>2. Len(calls) = 0 /\ {k \in DOMAIN calls : calls[k] = "mutation"} = {}
  BY <1>1
<1>3. Cardinality({k \in DOMAIN calls : calls[k] = "mutation"}) = 0
  BY <1>2, FS_EmptySet
<1>4. PICK none : none = {}
  OBVIOUS
<1>5. none \in SUBSET (1 .. n) /\ \A i : i \notin none
  BY <1>4
<1>6. Cardinality(none) = 0
  BY <1>4, FS_EmptySet
<1>7. CountTurn(r, calls)
  BY <1>1
<1>8. TurnTally(writes, n, none, none)
  BY <1>5 DEF TurnTally
<1> QED
  BY <1>2, <1>3, <1>5, <1>6, <1>7, <1>8, TurnAgrees

LEMMA NoCallsTyped ==
  ASSUME JournalTypeOK, NEW r \in Runs, CountTurn(r, <<>>)
  PROVE  counters' \in [Runs -> CounterType]
<1>1. PICK calls : calls = <<>>
  OBVIOUS
<1>2. Len(calls) = 0 /\ {k \in DOMAIN calls : calls[k] = "mutation"} = {}
  BY <1>1
<1>3. Cardinality({k \in DOMAIN calls : calls[k] = "mutation"}) = 0
  BY <1>2, FS_EmptySet
<1>4. CountTurn(r, calls)
  BY <1>1
<1> QED
  BY <1>2, <1>3, <1>4, TurnCounted

LEMMA AnswerKeeps ==
  ASSUME StepContext, NEW r \in Runs, NEW t \in Turns, WriteAnswer(r, t)
  PROVE  FactsInv'
<1>0. LedgerTypeOK /\ LedgerTypeOK' /\ SessionOf[r] \in Sessions
  BY SessionOfAssumption DEF StepContext, LedgerInv
<1>1. PICK last : last = highWater[SessionOf[r]]
  OBVIOUS
<1>2. last \in Nat /\ last + 1 \in Nat
  BY <1>0, <1>1, BoundAssumption DEF LedgerTypeOK
<1>3. PICK state : state = IF cancelRequested[r] THEN "cancelled" ELSE "succeeded"
  OBVIOUS
<1>4. /\ runState[r] = "active" /\ ProviderPending(r, t) /\ AddProviderFact(r, t, "completed")
      /\ AppendRunTransition(r, state) /\ UNCHANGED <<toolCalls, toolFacts>> /\ CountTurn(r, <<>>)
  BY <1>3 DEF WriteAnswer, CompleteRunSuccess, ProviderInFlight, toolVars
<1>5. state \in TerminalRunStates /\ state # "active"
  BY <1>3 DEF TerminalRunStates
<1>6. IsLive(r)
  BY <1>4 DEF IsLive, LiveRunStates
<1>7. /\ runState' = [runState EXCEPT ![r] = state] /\ UNCHANGED cancelRequested
      /\ runState'[r] = state /\ state \notin {"none", "accepted"} /\ runState[r] # "none"
      /\ \A q \in Runs : IsLive(q)' => IsLive(q)
  BY <1>4, <1>5, <1>6, TransitionOfRun
<1>8. providerFacts' = [providerFacts EXCEPT ![<<r, t>>] = providerFacts[<<r, t>>] \cup {"completed"}]
  BY <1>4 DEF AddProviderFact
<1>9. "completed" \in providerFacts'[<<r, t>>] /\ "prepared" \in providerFacts[<<r, t>>]
  BY <1>0, <1>4, <1>8 DEF LedgerTypeOK, ProviderPending
<1>10. "completed" \in TerminalProviderFacts /\ "completed" \in ProviderFacts
  BY DEF TerminalProviderFacts, ProviderFacts
<1>11. PICK w1 : /\ ProviderRows(r, t, "completed", 0) = <<w1>> /\ Ready(w1)
                 /\ w1.row = Row("provider", r, t, 0, "completed", 0)
  BY <1>4, <1>6, <1>9, <1>10, ProviderReady
<1>12. PICK w2 : /\ TransitionRows(r, state) = <<w2>> /\ Ready(w2)
                 /\ w2.row = Row("state", r, 0, 0, state, 0)
  BY <1>5, <1>6, <1>7, StateReady
<1>13. counters' \in [Runs -> CounterType]
  BY <1>4, NoCallsTyped DEF StepContext, RowsInv
<1>14. FactsShape'
  BY <1>4, <1>8, <1>9, ShapeOfOperation DEF StepContext, LedgerInv, LedgerGrows
<1>15. Follows(w2.row, w1.row)
  BY <1>11, <1>12 DEF Follows, Row, MustPrecede, Exclusive, Conflicts, InTranscript
<1>16. ASSUME RowsInv', NEW n \in 2 .. 3, NEW writes, Grown(writes, n), writes[1] = w1,
              writes[n] = w2, \A i \in 2 .. n : writes[i].row.of = r
                                /\ writes[i].row.table \in {"entry", "state"},
              state = "succeeded" => \E u \in Turns : IsWritten("entry", r, u, 0, "answer")',
              TranscriptIsWhole', LiveRunReadsEntry'
       PROVE  FactsInv'
  <2>1. n \in Nat /\ 1 \in 1 .. n /\ n \in 1 .. n /\ n >= 1 /\ \A i \in 1 .. n : i = 1 \/ i \in 2 .. n
    OBVIOUS
  <2>2. \A i \in 1 .. n :
          /\ writes[i].row.of = r
          /\ writes[i].row.table = "provider" /\ writes[i].row.kind = "completed" <=> i = 1
          /\ writes[i].row.table # "call"
          /\ ~(writes[i].row.table = "provider" /\ writes[i].row.kind = "prepared")
    BY <1>11, <1>16, <2>1 DEF Row
  <2>3. CountersAgree'
    BY <1>4, <1>16, <2>1, <2>2, NoCallsCounted
  <2>4. PreparedHaveSource'
    BY <1>16, <2>2, SourcesKept DEF StepContext, RowsAreComplete
  <2>5. CallsAreWritten' /\ ToolsAreWritten'
    BY <1>4, <1>16, CallsUnmoved, ToolsUnmoved DEF StepContext, RowsAreComplete
  <2>6. IsWritten("provider", r, t, 0, "completed")'
    BY <1>11, <1>16, <2>1, NewIsWritten
  <2>7. IsWritten("state", r, 0, 0, state)'
    BY <1>12, <1>16, <2>1, NewIsWritten
  <2>8. OperationsAreWritten'
    BY <1>0, <1>8, <1>16, <2>6, OperationMoved DEF StepContext, RowsAreComplete
  <2>9. RunsAreWritten'
    BY <1>0, <1>7, <1>16, <2>7, RunMoved DEF StepContext, RowsAreComplete
  <2> QED
    BY <1>14, <1>16, <2>3, <2>4, <2>5, <2>8, <2>9 DEF StepContext, FactsInv, RowsAreComplete
<1>17. CASE cancelRequested[r]
  <2>1. state = "cancelled" /\ UNCHANGED highWater
        /\ Write(ProviderRows(r, t, "completed", 0) \o TransitionRows(r, "cancelled"))
    BY <1>3, <1>17 DEF WriteAnswer, CompleteRunSuccess
  <2>2. Write(<<w1>> \o <<w2>>)
    BY <1>11, <1>12, <2>1
  <2>3. RowsInv' /\ \E writes : Grown(writes, 2) /\ writes[1] = w1 /\ writes[2] = w2
    BY <1>11, <1>12, <1>13, <1>15, <2>2, TwoRows
  <2>4. PICK writes : Grown(writes, 2) /\ writes[1] = w1 /\ writes[2] = w2
    BY <2>3
  <2>5. \A i \in 2 .. 2 : writes[i].row.of = r /\ writes[i].row.table \in {"entry", "state"}
    BY <1>12, <2>4 DEF Row
  <2>6. TranscriptIsWhole' /\ LiveRunReadsEntry'
    BY <1>7, <2>1, <2>4, TranscriptUnmoved, LiveRunsUnmoved DEF StepContext, RowsAreComplete
  <2> QED
    BY <1>16, <2>1, <2>3, <2>4, <2>5, <2>6
<1>18. CASE ~cancelRequested[r]
  <2>1. state = "succeeded" /\ AppendEntries(SessionOf[r], 1)
        /\ Write(ProviderRows(r, t, "completed", 0)
                 \o (EntryRow(r, t, 0, "answer", 1) \o TransitionRows(r, "succeeded")))
    BY <1>3, <1>18 DEF WriteAnswer, CompleteRunSuccess
  <2>2. highWater'[SessionOf[r]] = last + 1
    BY <1>0, <1>1, <2>1 DEF LedgerTypeOK, AppendEntries
  <2>3. PICK w : /\ EntryRow(r, t, 0, "answer", 1) = <<w>> /\ Ready(w)
                 /\ w.row = Row("entry", r, t, 0, "answer", last + 1)
    <3>1. 1 \in Nat /\ 1 >= 1 /\ last + 1 <= highWater'[SessionOf[r]]
      BY <1>2, <2>2
    <3>2. runState'[r] = "succeeded"
      BY <1>7, <2>1
    <3>3. PICK kind : kind = "answer"
      OBVIOUS
    <3>4. PICK k : k = 0
      OBVIOUS
    <3>5. kind \notin {"call", "result"} /\ kind \in {"commentary", "answer"}
      BY <3>3
    <3>6. PICK seq : seq = last + 1
      OBVIOUS
    <3>7. seq \in Nat /\ seq = highWater[SessionOf[r]] + 1 /\ seq <= highWater'[SessionOf[r]]
      BY <1>1, <1>2, <2>2, <3>6
    <3>8. \E w : /\ EntryRow(r, t, k, kind, 1) = <<w>> /\ Ready(w)
                 /\ w.row = Row("entry", r, t, k, kind, seq)
      BY <1>6, <3>1, <3>2, <3>4, <3>5, <3>7, EntryReady
    <3> QED
      BY <3>3, <3>4, <3>6, <3>8
  <2>4. <<w1>> \o (<<w>> \o <<w2>>) = Triple(w1, w, w2)
    BY JoinedBehind
  <2>5. Write(Triple(w1, w, w2))
    BY <1>11, <1>12, <2>1, <2>3, <2>4
  <2>6. Follows(w.row, w1.row) /\ Follows(w2.row, w.row)
    BY <1>5, <1>11, <1>12, <2>3 DEF Follows, Row, MustPrecede, Exclusive, Conflicts, InTranscript
  <2>7. RowsInv' /\ \E writes : Grown(writes, 3) /\ writes[1] = w1 /\ writes[2] = w /\ writes[3] = w2
    BY <1>11, <1>12, <1>13, <1>15, <2>3, <2>5, <2>6, ThreeRows
  <2>8. PICK writes : Grown(writes, 3) /\ writes[1] = w1 /\ writes[2] = w /\ writes[3] = w2
    BY <2>7
  <2>9. \A i \in 2 .. 3 : writes[i].row.of = r /\ writes[i].row.table \in {"entry", "state"}
    BY <1>12, <2>3, <2>8 DEF Row
  <2>10. IsWritten("entry", r, t, 0, "answer")'
    BY <2>3, <2>8, NewIsWritten
  <2>11. /\ writes[2].row.table = "entry" /\ SessionOf[writes[2].row.of] = SessionOf[r]
         /\ writes[2].row.seq = last + 1 /\ InTranscript(writes[2].row)
    BY <1>2, <2>3, <2>8 DEF Row, InTranscript
  <2>12. PICK z \in Sessions : z = SessionOf[r]
    BY <1>0
  <2>13. Extends(z, last, 1)
    BY <1>1, <2>1, <2>12 DEF AppendEntries, Extends
  <2>14. TranscriptIsWhole'
    <3>1. PlacesTaken(writes, 3, z, last, 1)
      BY <2>11, <2>12 DEF PlacesTaken
    <3> QED
      BY <1>0, <1>1, <1>2, <2>8, <2>12, <2>13, <3>1, TranscriptExtended DEF StepContext, RowsAreComplete
  <2>15. LiveRunReadsEntry'
    BY <1>0, <1>7, <2>8, <2>11, <2>12, <2>13, LiveRunsRead DEF StepContext, RowsAreComplete
  <2> QED
    BY <1>16, <2>7, <2>8, <2>9, <2>10, <2>14, <2>15
<1> QED
  BY <1>17, <1>18

\* The rows of a turn with calls: its completion, its commentary, and for each call
\* the call and its entry.
TurnRows(writes, r, t, calls, len, commentary, last) ==
  /\ DOMAIN writes = 1 .. 1 + commentary + 2 * len
  /\ writes[1].row = Row("provider", r, t, 0, "completed", 0)
  /\ commentary = 1 => writes[2].row = Row("entry", r, t, 0, "commentary", last + 1)
  /\ \A k \in 1 .. len :
       /\ writes[commentary + 2 * k].row = Row("call", r, t, k, calls[k], 0)
       /\ writes[1 + commentary + 2 * k].row
            = Row("entry", r, t, k, "call", last + commentary + k)

\* Where each row of such a turn is.
LEMMA TurnPositions ==
  ASSUME NEW len \in Nat, NEW commentary \in {0, 1}, NEW i \in 1 .. 1 + commentary + 2 * len
  PROVE  \/ i = 1
         \/ i = 2 /\ commentary = 1
         \/ \E k \in 1 .. len : i = commentary + 2 * k
         \/ \E k \in 1 .. len : i = 1 + commentary + 2 * k
<1>1. CASE i <= 1 + commentary
  BY <1>1
<1>2. CASE ~(i <= 1 + commentary)
  <2>1. PICK d \in Nat : i = 1 + commentary + d /\ d >= 1 /\ d <= 2 * len
    <3>1. i - 1 - commentary \in Nat /\ i = 1 + commentary + (i - 1 - commentary)
          /\ i - 1 - commentary >= 1 /\ i - 1 - commentary <= 2 * len
      BY <1>2
    <3> QED
      BY <3>1
  <2>2. PICK k \in Nat : d = 2 * k \/ d = 2 * k - 1
    <3>1. (d + 1) \div 2 \in Nat /\ (d = 2 * ((d + 1) \div 2) \/ d = 2 * ((d + 1) \div 2) - 1)
      OBVIOUS
    <3> QED
      BY <3>1
  <2>3. k \in 1 .. len
    BY <2>1, <2>2
  <2>4. i = 1 + commentary + 2 * k \/ i = commentary + 2 * k
    BY <2>1, <2>2
  <2> QED
    BY <2>3, <2>4
<1> QED
  BY <1>1, <1>2

LEMMA TurnIsCoherent ==
  ASSUME NEW len \in Nat, NEW commentary \in {0, 1}, NEW last \in Nat, NEW writes, NEW r, NEW t,
         NEW calls, TurnRows(writes, r, t, calls, len, commentary, last),
         NEW n, n = 1 + commentary + 2 * len
  PROVE  Coherent(writes, n)
<1> SUFFICES ASSUME NEW i \in 1 .. n, NEW j \in 1 .. n, NEW a, NEW b, a = writes[i].row,
                    b = writes[j].row
             PROVE  /\ MustPrecede(a, b) => i < j
                    /\ Exclusive(a, b) => i = j
                    /\ ~Conflicts(a, b)
  BY DEF Coherent
<1> DEFINE First(p, x) == p = 1 /\ x.table = "provider" /\ x.kind = "completed" /\ x.turn = t
           Comment(p, x) == /\ p = 2 /\ x.table = "entry" /\ x.kind = "commentary"
                            /\ x.seq = last + 1 /\ commentary = 1
           CallAt(p, x, k) == p = commentary + 2 * k /\ x.table = "call" /\ x.call = k
           EntryAt(p, x, k) == /\ p = 1 + commentary + 2 * k /\ x.table = "entry" /\ x.kind = "call"
                               /\ x.call = k /\ x.seq = last + commentary + k
<1>1. ASSUME NEW p \in 1 .. n, NEW x, x = writes[p].row
      PROVE  \/ First(p, x) \/ Comment(p, x)
             \/ \E k \in 1 .. len : CallAt(p, x, k)
             \/ \E k \in 1 .. len : EntryAt(p, x, k)
  <2>1. CASE p = 1
    BY <1>1, <2>1 DEF TurnRows, Row
  <2>2. CASE p = 2 /\ commentary = 1
    BY <1>1, <2>2 DEF TurnRows, Row
  <2>3. ASSUME NEW k \in 1 .. len, p = commentary + 2 * k PROVE CallAt(p, x, k)
    <3>1. x = Row("call", r, t, k, calls[k], 0)
      BY <1>1, <2>3 DEF TurnRows
    <3> QED
      BY <2>3, <3>1 DEF Row
  <2>4. ASSUME NEW k \in 1 .. len, p = 1 + commentary + 2 * k PROVE EntryAt(p, x, k)
    <3>1. x = Row("entry", r, t, k, "call", last + commentary + k)
      BY <1>1, <2>4 DEF TurnRows
    <3> QED
      BY <2>4, <3>1 DEF Row
  <2> HIDE DEF First, Comment, CallAt, EntryAt
  <2> QED
    BY <2>1, <2>2, <2>3, <2>4, TurnPositions
<1>2. b.table \in {"provider", "entry", "call"} /\ a.table \in {"provider", "entry", "call"}
      /\ (a.table = "entry" => a.kind \in {"call", "commentary"})
      /\ (b.table = "entry" => b.kind \in {"call", "commentary"})
      /\ (a.table = "provider" => a.kind = "completed")
      /\ (b.table = "provider" => b.kind = "completed")
  BY <1>1
<1>3. ~Conflicts(a, b)
  BY <1>2 DEF Conflicts
<1>4. MustPrecede(a, b) => \/ a.table = "provider" /\ b.table = "call"
                           \/ a.table = "call" /\ b.table = "entry" /\ b.kind = "call" /\ a.call = b.call
  BY <1>2 DEF MustPrecede, SameCall, TerminalProviderFacts
<1>5. Exclusive(a, b) => \/ a.table = "entry" /\ b.table = "entry" /\ a.seq = b.seq
                         \/ a.table = "provider" /\ b.table = "provider"
                         \/ a.table = "entry" /\ b.table = "entry" /\ a.kind = "call" /\ b.kind = "call"
                            /\ a.call = b.call
                         \/ a.table = "call" /\ b.table = "call" /\ a.call = b.call
  BY <1>2 DEF Exclusive, InTranscript, SameCall
<1>6. MustPrecede(a, b) => i < j
  <2>1. ASSUME a.table = "provider", b.table = "call" PROVE i < j
    <3>1. First(i, a)
      BY <1>1, <2>1
    <3>2. PICK k \in 1 .. len : CallAt(j, b, k)
      BY <1>1, <2>1
    <3> QED
      BY <3>1, <3>2
  <2>2. ASSUME a.table = "call", b.table = "entry", b.kind = "call", a.call = b.call PROVE i < j
    <3>1. PICK k \in 1 .. len : CallAt(i, a, k)
      BY <1>1, <2>2
    <3>2. PICK m \in 1 .. len : EntryAt(j, b, m)
      BY <1>1, <2>2
    <3>3. k = m
      BY <2>2, <3>1, <3>2
    <3> QED
      BY <3>1, <3>2, <3>3
  <2> QED
    BY <1>4, <2>1, <2>2
<1>7. Exclusive(a, b) => i = j
  <2>1. ASSUME a.table = "provider", b.table = "provider" PROVE i = j
    BY <1>1, <2>1
  <2>2. ASSUME a.table = "call", b.table = "call", a.call = b.call PROVE i = j
    <3>1. PICK k \in 1 .. len : CallAt(i, a, k)
      BY <1>1, <2>2
    <3>2. PICK m \in 1 .. len : CallAt(j, b, m)
      BY <1>1, <2>2
    <3> QED
      BY <2>2, <3>1, <3>2
  <2>3. ASSUME a.table = "entry", b.table = "entry", a.kind = "call", b.kind = "call",
               a.call = b.call \/ a.seq = b.seq
        PROVE  i = j
    <3>1. PICK k \in 1 .. len : EntryAt(i, a, k)
      BY <1>1, <2>3
    <3>2. PICK m \in 1 .. len : EntryAt(j, b, m)
      BY <1>1, <2>3
    <3> QED
      BY <2>3, <3>1, <3>2
  <2>4. ASSUME a.table = "entry", b.table = "entry", a.seq = b.seq,
               a.kind = "commentary" \/ b.kind = "commentary"
        PROVE  i = j
    <3>1. Comment(i, a) \/ \E k \in 1 .. len : EntryAt(i, a, k)
      BY <1>1, <2>4
    <3>2. Comment(j, b) \/ \E k \in 1 .. len : EntryAt(j, b, k)
      BY <1>1, <2>4
    <3> QED
      BY <2>4, <3>1, <3>2
  <2> QED
    BY <1>2, <1>5, <2>1, <2>2, <2>3, <2>4
<1> QED
  BY <1>3, <1>6, <1>7

LEMMA ReadyRows ==
  ASSUME StepContext, NEW n \in Nat, NEW writes, DOMAIN writes = 1 .. n, Write(writes),
         \A i \in 1 .. n : Ready(writes[i]), Coherent(writes, n),
         counters' \in [Runs -> CounterType]
  PROVE  RowsInv' /\ Grown(writes, n)
<1>1. Fitting(writes, n)
  BY DEF Fitting, Ready
<1>2. \A i \in 1 .. n : Backed(writes[i].row)'
  <2> TAKE i \in 1 .. n
  <2> QED
    BY DEF Ready
<1> QED
  BY <1>1, <1>2, RowsStayValid DEF StepContext

LEMMA CallReady ==
  ASSUME StepContext, NEW r \in Runs, NEW t \in Turns, NEW k \in Calls, NEW kind \in ToolKinds,
         ~IsCall(r, t, k), IsCall(r, t, k)', toolCalls'[<<r, t>>][k] = kind
  PROVE  \E w : /\ Put(Row("call", r, t, k, kind, 0), "call", "none", "none") = <<w>> /\ Ready(w)
                /\ w.row = Row("call", r, t, k, kind, 0)
<1> DEFINE row == Row("call", r, t, k, kind, 0)
           w == [row |-> row, audit |-> "call", event |-> "none", request |-> "none"]
<1>1. Put(Row("call", r, t, k, kind, 0), "call", "none", "none") = <<w>>
  BY DEF Put
<1>2. row \in CallRowType
  BY DEF Row, CallRowType
<1>3. row.table = "call"
  BY DEF Row
<1>4. Clear(row)
  BY CallIsClear DEF StepContext, LedgerInv
<1>5. Backed(row)'
  BY DEF Backed, Row
<1> HIDE DEF row
<1>6. IsWrite(w)
  BY <1>2, <1>3 DEF IsWrite, JournalRows, AuditKind, RebuiltEvent, RequestKind
<1>7. Ready(w)
  BY <1>4, <1>5, <1>6 DEF Ready
<1> QED
  BY <1>1, <1>7 DEF row

\* The two rows of a call.
LEMMA RowsOfCall ==
  ASSUME StepContext, NEW r \in Runs, IsLive(r), NEW t \in Turns, NEW k \in Calls,
         NEW kind \in ToolKinds, ~IsCall(r, t, k), IsCall(r, t, k)', toolCalls'[<<r, t>>][k] = kind,
         NEW n \in Nat, n >= 1, NEW seq \in Nat, seq = highWater[SessionOf[r]] + n,
         seq <= highWater'[SessionOf[r]], NEW rows, rows = CallRows(r, t, k, kind, n)
  PROVE  /\ Ready(rows[1]) /\ rows[1].row = Row("call", r, t, k, kind, 0)
         /\ Ready(rows[2]) /\ rows[2].row = Row("entry", r, t, k, "call", seq)
<1>1. PICK c : /\ Put(Row("call", r, t, k, kind, 0), "call", "none", "none") = <<c>> /\ Ready(c)
               /\ c.row = Row("call", r, t, k, kind, 0)
  BY CallReady
<1>2. PICK what : what = "call"
  OBVIOUS
<1>3. PICK e : /\ EntryRow(r, t, k, what, n) = <<e>> /\ Ready(e)
               /\ e.row = Row("entry", r, t, k, what, seq)
  BY <1>2, EntryReady
<1>4. rows = <<c>> \o <<e>>
  BY <1>1, <1>2, <1>3 DEF CallRows
<1>5. rows[1] = c /\ rows[2] = e
  BY <1>4, Joined
<1> QED
  BY <1>1, <1>2, <1>3, <1>5

\* The rows of the calls of a turn, two by two.
TwoByTwo(batch, r, t, calls, len, commentary) ==
  /\ \E B : batch \in Seq(B)
  /\ Len(batch) = 2 * len
  /\ \A k \in 1 .. len :
       /\ batch[2 * k - 1] = CallRows(r, t, k, calls[k], commentary + k)[1]
       /\ batch[2 * k] = CallRows(r, t, k, calls[k], commentary + k)[2]

LEMMA BatchOfCalls ==
  ASSUME NEW r, NEW t, NEW calls, NEW commentary, NEW len \in Nat, len = Len(calls),
         NEW batch, batch = CallBatchRows(r, t, calls, commentary)
  PROVE  TwoByTwo(batch, r, t, calls, len, commentary)
<1> DEFINE rows(k) == CallRows(r, t, k, calls[k], commentary + k)
           at(i) == rows((i + 1) \div 2)[IF i % 2 = 1 THEN 1 ELSE 2]
           S == {batch[i] : i \in 1 .. 2 * len}
<1>1. batch = [i \in 1 .. 2 * len |-> at(i)]
  BY DEF CallBatchRows
<1> HIDE DEF at
<1>2. 2 * len \in Nat /\ batch \in [1 .. 2 * len -> S]
  BY <1>1
<1> HIDE DEF S
<1>3. batch \in Seq(S)
  BY <1>2, SeqDef
<1>4. Len(batch) = 2 * len
  BY <1>2, <1>3, LenProperties
<1>5. ASSUME NEW k \in 1 .. len
      PROVE  batch[2 * k - 1] = rows(k)[1] /\ batch[2 * k] = rows(k)[2]
  <2>1. 2 * k - 1 \in 1 .. 2 * len /\ 2 * k \in 1 .. 2 * len
    OBVIOUS
  <2>2. batch[2 * k - 1] = at(2 * k - 1) /\ batch[2 * k] = at(2 * k)
    BY <1>1, <2>1
  <2>3. PICK odd \in Nat : odd = 2 * k - 1
    OBVIOUS
  <2>4. PICK even \in Nat : even = 2 * k
    OBVIOUS
  <2>5. (odd + 1) \div 2 = k /\ odd % 2 = 1
    BY <2>3
  <2>6. (even + 1) \div 2 = k /\ even % 2 = 0
    BY <2>4
  <2>7. at(odd) = rows(k)[1] /\ at(even) = rows(k)[2]
    BY <2>5, <2>6 DEF at
  <2> HIDE DEF rows
  <2> QED
    BY <2>2, <2>3, <2>4, <2>7
<1> HIDE DEF rows
<1>6. \A k \in 1 .. len : batch[2 * k - 1] = rows(k)[1] /\ batch[2 * k] = rows(k)[2]
  BY <1>5
<1> QED
  BY <1>3, <1>4, <1>6 DEF S, rows, TwoByTwo

IsJoined(all, head, m, tail, q) ==
  /\ DOMAIN all = 1 .. m + q
  /\ \A i \in 1 .. m : all[i] = head[i]
  /\ \A i \in 1 .. q : all[m + i] = tail[i]

LEMMA JoinedSequences ==
  ASSUME NEW A, NEW B, NEW head \in Seq(A), NEW tail \in Seq(B), NEW m \in Nat, NEW q \in Nat,
         Len(head) = m, Len(tail) = q, NEW all, all = head \o tail
  PROVE  IsJoined(all, head, m, tail, q)
<1> DEFINE S == A \cup B
<1>1. head \in Seq(S) /\ tail \in Seq(S)
  <2>1. head \in [1 .. m -> A] /\ tail \in [1 .. q -> B]
    BY LenProperties
  <2>2. head \in [1 .. m -> S] /\ tail \in [1 .. q -> S]
    BY <2>1
  <2> QED
    BY <2>2, SeqDef
<1> HIDE DEF S
<1>2. /\ head \o tail \in Seq(S) /\ Len(head \o tail) = Len(head) + Len(tail)
      /\ \A i \in 1 .. Len(head) + Len(tail) :
           (head \o tail)[i] = IF i <= Len(head) THEN head[i] ELSE tail[i - Len(head)]
  BY <1>1, ConcatProperties
<1>3. /\ all \in Seq(S) /\ Len(all) = m + q
      /\ \A i \in 1 .. m + q : all[i] = IF i <= m THEN head[i] ELSE tail[i - m]
  BY <1>2
<1>4. DOMAIN all = 1 .. m + q
  BY <1>3, LenProperties
<1>5. \A i \in 1 .. m : all[i] = head[i]
  BY <1>3
<1>6. \A i \in 1 .. q : all[m + i] = tail[i]
  <2> TAKE i \in 1 .. q
  <2>1. m + i \in 1 .. m + q /\ ~(m + i <= m) /\ m + i - m = i
    OBVIOUS
  <2> QED
    BY <1>3, <2>1
<1> QED
  BY <1>4, <1>5, <1>6 DEF IsJoined

\* What a completed turn commits: size more places in the transcript, the completion
\* and the calls.
TurnFacts(r, t, calls, len, commentary, size, last) ==
  /\ len \in Nat /\ len >= 1 /\ DOMAIN calls = 1 .. len /\ \A k \in 1 .. len : k \in Calls
  /\ \A k \in 1 .. len : calls[k] \in ToolKinds
  /\ last \in Nat /\ size \in Nat /\ size = len + commentary
  /\ highWater'[SessionOf[r]] = last + size
  /\ Extends(SessionOf[r], last, size)
  /\ toolCalls' = [toolCalls EXCEPT ![<<r, t>>] = calls]
  /\ providerFacts' = [providerFacts EXCEPT ![<<r, t>>] = providerFacts[<<r, t>>] \cup {"completed"}]
  /\ "completed" \in providerFacts'[<<r, t>>] /\ "completed" \notin providerFacts[<<r, t>>]
  /\ "prepared" \in providerFacts[<<r, t>>]
  /\ ProviderPending(r, t) /\ IsLive(r) /\ runState[r] = "active"
  /\ UNCHANGED <<runState, cancelRequested, toolFacts>>
  /\ \A k \in 1 .. len : ~IsCall(r, t, k) /\ IsCall(r, t, k)' /\ toolCalls'[<<r, t>>][k] = calls[k]

LEMMA TurnBegins ==
  ASSUME StepContext, NEW r \in Runs, NEW t \in Turns, NEW calls \in CallBatches,
         NEW commentary \in {0, 1}, WriteToolTurn(r, t, calls, commentary),
         NEW last, last = highWater[SessionOf[r]], NEW len, len = Len(calls),
         NEW size, size = len + commentary
  PROVE  TurnFacts(r, t, calls, len, commentary, size, last)
<1>0. LedgerTypeOK /\ LedgerTypeOK' /\ SessionOf[r] \in Sessions
  BY SessionOfAssumption DEF StepContext, LedgerInv
<1>1. PICK m \in Calls : calls \in [1 .. m -> ToolKinds]
  BY DEF CallBatches
<1>2. m \in Nat /\ m >= 1 /\ m <= MaxCalls /\ MaxCalls \in Nat
  BY <1>1, BoundAssumption DEF Calls
<1>3. len = m
  <2>1. calls \in Seq(ToolKinds)
    BY <1>1, <1>2, SeqDef
  <2> QED
    BY <1>1, <1>2, <2>1, LenProperties
<1>4. /\ len \in Nat /\ len >= 1 /\ DOMAIN calls = 1 .. len
      /\ \A k \in 1 .. len : k \in Calls /\ calls[k] \in ToolKinds
  BY <1>1, <1>2, <1>3 DEF Calls
<1>5. last \in Nat
  BY <1>0, BoundAssumption DEF LedgerTypeOK
<1>6. /\ runState[r] = "active" /\ ProviderPending(r, t) /\ AddProviderFact(r, t, "completed")
      /\ toolCalls' = [toolCalls EXCEPT ![<<r, t>>] = calls]
      /\ AppendEntries(SessionOf[r], size)
      /\ UNCHANGED <<runState, cancelRequested, toolFacts>>
  BY DEF WriteToolTurn, CompleteProviderToolTurn, ProviderInFlight, runVars
<1>7. Extends(SessionOf[r], last, size)
  BY <1>6 DEF AppendEntries, Extends
<1>8. size \in Nat /\ highWater'[SessionOf[r]] = last + size
  BY <1>0, <1>4, <1>7 DEF LedgerTypeOK, Extends
<1>9. /\ providerFacts' =
           [providerFacts EXCEPT ![<<r, t>>] = providerFacts[<<r, t>>] \cup {"completed"}]
      /\ "completed" \in providerFacts'[<<r, t>>] /\ "completed" \notin providerFacts[<<r, t>>]
      /\ "prepared" \in providerFacts[<<r, t>>]
  BY <1>0, <1>6 DEF AddProviderFact, LedgerTypeOK, ProviderPending, TerminalProviderFacts
<1>10. IsLive(r)
  BY <1>6 DEF IsLive, LiveRunStates
<1>11. Len(toolCalls[<<r, t>>]) = 0
  BY <1>9 DEF StepContext, FactsShape, OperationShape
<1>12. toolCalls'[<<r, t>>] = calls
  BY <1>0, <1>6 DEF LedgerTypeOK
<1>13. ASSUME NEW k \in 1 .. len
       PROVE  ~IsCall(r, t, k) /\ IsCall(r, t, k)' /\ toolCalls'[<<r, t>>][k] = calls[k]
  <2>1. ~IsCall(r, t, k)
    BY <1>4, <1>11 DEF IsCall
  <2>2. IsCall(r, t, k)'
    BY <1>4, <1>12 DEF IsCall
  <2> QED
    BY <1>12, <2>1, <2>2
<1> QED
  BY <1>4, <1>5, <1>6, <1>7, <1>8, <1>9, <1>10, <1>13 DEF TurnFacts

\* The row of a turn's commentary.
LEMMA CommentaryEntry ==
  ASSUME StepContext, NEW r \in Runs, IsLive(r), NEW t \in Turns, NEW k, k = 0,
         NEW n \in Nat, n >= 1, NEW kind, kind \notin {"call", "result", "answer"},
         kind \in {"commentary", "answer"},
         NEW seq \in Nat, seq = highWater[SessionOf[r]] + n, seq <= highWater'[SessionOf[r]]
  PROVE  \E w : /\ EntryRow(r, t, k, kind, n) = <<w>> /\ Ready(w)
                /\ w.row = Row("entry", r, t, k, kind, seq)
BY EntryReady

LEMMA AddsNoMore ==
  ASSUME NEW last \in Nat, NEW m \in Nat, NEW size \in Nat, m <= size
  PROVE  last + m \in Nat /\ last + m <= last + size
OBVIOUS

LEMMA CommentaryReady ==
  ASSUME StepContext, NEW r \in Runs, IsLive(r), NEW t \in Turns, NEW last \in Nat,
         last + 1 = highWater[SessionOf[r]] + 1, last + 1 <= highWater'[SessionOf[r]]
  PROVE  \E w : /\ EntryRow(r, t, 0, "commentary", 1) = <<w>> /\ Ready(w)
                /\ w.row = Row("entry", r, t, 0, "commentary", last + 1)
<1>1. PICK kind : kind = "commentary"
  OBVIOUS
<1>2. PICK k : k = 0
  OBVIOUS
<1>3. PICK seq : seq = last + 1
  OBVIOUS
<1>4. PICK n : n = 1
  OBVIOUS
<1>5. kind \notin {"call", "result", "answer"} /\ kind \in {"commentary", "answer"}
  BY <1>1
<1>6. seq \in Nat /\ seq = highWater[SessionOf[r]] + n /\ seq <= highWater'[SessionOf[r]]
  BY <1>3, <1>4
<1>7. n \in Nat /\ n >= 1
  BY <1>4
<1>8. \E w : /\ EntryRow(r, t, k, kind, n) = <<w>> /\ Ready(w)
             /\ w.row = Row("entry", r, t, k, kind, seq)
  BY <1>2, <1>5, <1>6, <1>7, CommentaryEntry
<1> QED
  BY <1>1, <1>2, <1>3, <1>4, <1>8

\* The rows a turn with calls writes.
LEMMA TurnWrites ==
  ASSUME StepContext, NEW r \in Runs, NEW t \in Turns, NEW calls \in CallBatches,
         NEW commentary \in {0, 1}, WriteToolTurn(r, t, calls, commentary),
         NEW last, last = highWater[SessionOf[r]], NEW len, len = Len(calls),
         NEW n, n = 1 + commentary + 2 * len
  PROVE  \E writes : /\ Write(writes) /\ TurnRows(writes, r, t, calls, len, commentary, last)
                     /\ \A i \in 1 .. n : Ready(writes[i])
<1>0. PICK size : size = len + commentary
  OBVIOUS
<1>1. TurnFacts(r, t, calls, len, commentary, size, last)
  BY <1>0, TurnBegins
<1>a. IsLive(r) /\ ProviderPending(r, t) /\ "completed" \in providerFacts'[<<r, t>>]
  BY <1>1 DEF TurnFacts
<1>b. /\ len \in Nat /\ len >= 1 /\ last \in Nat /\ size = len + commentary
      /\ highWater'[SessionOf[r]] = last + size
  BY <1>1 DEF TurnFacts
<1>2. PICK w1 : /\ ProviderRows(r, t, "completed", 0) = <<w1>> /\ Ready(w1)
                /\ w1.row = Row("provider", r, t, 0, "completed", 0)
  <2>1. "completed" \in TerminalProviderFacts /\ "completed" \in ProviderFacts
    BY DEF TerminalProviderFacts, ProviderFacts
  <2> QED
    BY <1>a, <2>1, ProviderReady
<1>3. \E w : commentary = 1 =>
         /\ EntryRow(r, t, 0, "commentary", 1) = <<w>> /\ Ready(w)
         /\ w.row = Row("entry", r, t, 0, "commentary", last + 1)
  <2> SUFFICES ASSUME commentary = 1
               PROVE  \E w : /\ EntryRow(r, t, 0, "commentary", 1) = <<w>> /\ Ready(w)
                             /\ w.row = Row("entry", r, t, 0, "commentary", last + 1)
    OBVIOUS
  <2>1. last + 1 = highWater[SessionOf[r]] + 1 /\ last + 1 <= highWater'[SessionOf[r]]
    BY <1>b
  <2> QED
    BY <1>a, <1>b, <2>1, CommentaryReady
<1>4. PICK w2 : commentary = 1 =>
         /\ EntryRow(r, t, 0, "commentary", 1) = <<w2>> /\ Ready(w2)
         /\ w2.row = Row("entry", r, t, 0, "commentary", last + 1)
  BY <1>3
<1>5. PICK head : head = ProviderRows(r, t, "completed", 0)
                           \o (IF commentary = 1 THEN EntryRow(r, t, 0, "commentary", 1) ELSE <<>>)
  OBVIOUS
<1>6. /\ head \in Seq({w1, w2}) /\ Len(head) = 1 + commentary
      /\ head[1] = w1 /\ (commentary = 1 => head[2] = w2)
  <2>1. CASE commentary = 1
    <3>1. head = <<w1>> \o <<w2>>
      BY <1>2, <1>4, <1>5, <2>1
    <3>2. <<w1>> \in Seq({w1, w2}) /\ <<w2>> \in Seq({w1, w2})
      OBVIOUS
    <3>3. /\ <<w1>> \o <<w2>> \in Seq({w1, w2}) /\ Len(<<w1>> \o <<w2>>) = 2
          /\ (<<w1>> \o <<w2>>)[1] = w1 /\ (<<w1>> \o <<w2>>)[2] = w2
      BY <3>2, ConcatProperties
    <3> QED
      BY <2>1, <3>1, <3>3
  <2>2. CASE commentary = 0
    <3>1. head = <<w1>>
      BY <1>2, <1>5, <2>2, Joined
    <3> QED
      BY <2>2, <3>1
  <2> QED
    BY <2>1, <2>2
<1>7. PICK batch : batch = CallBatchRows(r, t, calls, commentary)
  OBVIOUS
<1>c. TwoByTwo(batch, r, t, calls, len, commentary)
  BY <1>b, <1>7, BatchOfCalls
<1>8. /\ \E B : batch \in Seq(B)
      /\ Len(batch) = 2 * len
      /\ \A k \in 1 .. len :
           /\ batch[2 * k - 1] = CallRows(r, t, k, calls[k], commentary + k)[1]
           /\ batch[2 * k] = CallRows(r, t, k, calls[k], commentary + k)[2]
  BY <1>c DEF TwoByTwo
<1>9. PICK writes : writes = head \o batch
  OBVIOUS
<1>10. Write(writes)
  BY <1>5, <1>7, <1>9 DEF WriteToolTurn
<1>11. /\ DOMAIN writes = 1 .. (1 + commentary) + 2 * len
       /\ \A i \in 1 .. 1 + commentary : writes[i] = head[i]
       /\ \A i \in 1 .. 2 * len : writes[(1 + commentary) + i] = batch[i]
  <2>1. PICK B : batch \in Seq(B)
    BY <1>8
  <2>2. PICK m : m = 1 + commentary
    OBVIOUS
  <2>3. PICK q : q = 2 * len
    OBVIOUS
  <2>4. m \in Nat /\ q \in Nat /\ Len(head) = m /\ Len(batch) = q
    BY <1>b, <1>6, <1>8, <2>2, <2>3
  <2>5. IsJoined(writes, head, m, batch, q)
    BY <1>6, <1>9, <2>1, <2>4, JoinedSequences
  <2> QED
    BY <2>2, <2>3, <2>5 DEF IsJoined
<1>12. writes[1] = w1 /\ (commentary = 1 => writes[2] = w2)
  <2>1. 1 \in 1 .. 1 + commentary /\ (commentary = 1 => 2 \in 1 .. 1 + commentary)
    OBVIOUS
  <2> QED
    BY <1>6, <1>11, <2>1
<1>13. ASSUME NEW k \in 1 .. len
       PROVE  /\ Ready(writes[commentary + 2 * k])
              /\ writes[commentary + 2 * k].row = Row("call", r, t, k, calls[k], 0)
              /\ Ready(writes[1 + commentary + 2 * k])
              /\ writes[1 + commentary + 2 * k].row
                   = Row("entry", r, t, k, "call", last + commentary + k)
  <2>1. PICK rows : rows = CallRows(r, t, k, calls[k], commentary + k)
    OBVIOUS
  <2>2. 2 * k - 1 \in 1 .. 2 * len /\ 2 * k \in 1 .. 2 * len
    BY <1>b
  <2>3. commentary + 2 * k = (1 + commentary) + (2 * k - 1)
        /\ 1 + commentary + 2 * k = (1 + commentary) + 2 * k
    BY <1>b
  <2>4. writes[commentary + 2 * k] = rows[1] /\ writes[1 + commentary + 2 * k] = rows[2]
    BY <1>8, <1>11, <2>1, <2>2, <2>3
  <2>5. PICK seq : seq = last + commentary + k
    OBVIOUS
  <2>6. PICK m : m = commentary + k
    OBVIOUS
  <2>7. /\ m \in Nat /\ m >= 1 /\ seq \in Nat /\ seq = highWater[SessionOf[r]] + m
        /\ seq <= highWater'[SessionOf[r]]
    <3>1. commentary \in Nat /\ k \in Nat /\ k >= 1 /\ k <= len /\ len \in Nat /\ last \in Nat
          /\ size = len + commentary
      BY <1>b
    <3>2. m \in Nat /\ m >= 1 /\ m <= size /\ size \in Nat
      BY <2>6, <3>1
    <3>3. seq = last + m
      BY <2>5, <2>6, <3>1
    <3>a. last \in Nat /\ m \in Nat /\ size \in Nat /\ m <= size
      BY <3>1, <3>2
    <3>b. last + m \in Nat /\ last + m <= last + size
      BY <3>a, AddsNoMore
    <3>4. seq \in Nat /\ seq <= last + size
      BY <3>3, <3>b
    <3> QED
      BY <1>b, <3>2, <3>3, <3>4
  <2>8. k \in Calls /\ calls[k] \in ToolKinds /\ ~IsCall(r, t, k) /\ IsCall(r, t, k)'
        /\ toolCalls'[<<r, t>>][k] = calls[k]
    BY <1>1 DEF TurnFacts
  <2>9. /\ Ready(rows[1]) /\ rows[1].row = Row("call", r, t, k, calls[k], 0)
        /\ Ready(rows[2]) /\ rows[2].row = Row("entry", r, t, k, "call", seq)
    BY <1>a, <2>1, <2>6, <2>7, <2>8, RowsOfCall
  <2> QED
    BY <2>4, <2>5, <2>9
<1>14. TurnRows(writes, r, t, calls, len, commentary, last)
  <2>1. (1 + commentary) + 2 * len = 1 + commentary + 2 * len
    BY <1>b
  <2> QED
    BY <1>2, <1>4, <1>11, <1>12, <1>13, <2>1 DEF TurnRows
<1>15. \A i \in 1 .. n : Ready(writes[i])
  <2> TAKE i \in 1 .. n
  <2>1. \/ i = 1
        \/ i = 2 /\ commentary = 1
        \/ \E k \in 1 .. len : i = commentary + 2 * k
        \/ \E k \in 1 .. len : i = 1 + commentary + 2 * k
    BY <1>b, TurnPositions
  <2> QED
    BY <1>2, <1>4, <1>12, <1>13, <2>1
<1> QED
  BY <1>10, <1>14, <1>15

\* Which rows of a turn are which.
TurnRow(writes, i, r, calls, len, commentary) ==
  /\ writes[i].row.of = r
  /\ writes[i].row.table = "provider" /\ writes[i].row.kind = "completed" <=> i = 1
  /\ ~(writes[i].row.table = "provider" /\ writes[i].row.kind = "prepared")
  /\ writes[i].row.table = "call" =>
       \E k \in 1 .. len : i = commentary + 2 * k /\ writes[i].row.kind = calls[k]

CallsAmong(calls, len, kinds) == {k \in 1 .. len : calls[k] \in kinds}

CallRowsAmong(writes, n, kinds) ==
  {i \in 1 .. n : writes[i].row.table = "call" /\ writes[i].row.kind \in kinds}

LEMMA TurnRowIs ==
  ASSUME NEW len \in Nat, NEW commentary \in {0, 1}, NEW last \in Nat, NEW writes, NEW r, NEW t,
         NEW calls, TurnRows(writes, r, t, calls, len, commentary, last),
         NEW n, n = 1 + commentary + 2 * len, NEW i \in 1 .. n
  PROVE  TurnRow(writes, i, r, calls, len, commentary)
<1>1. CASE i = 1
  BY <1>1 DEF TurnRows, Row, TurnRow
<1>2. CASE i = 2 /\ commentary = 1
  BY <1>2 DEF TurnRows, Row, TurnRow
<1>3. ASSUME NEW k \in 1 .. len, i = commentary + 2 * k
      PROVE  /\ writes[i].row.of = r /\ writes[i].row.table = "call" /\ writes[i].row.kind = calls[k]
             /\ i # 1
  <2>1. writes[i].row = Row("call", r, t, k, calls[k], 0)
    BY <1>3 DEF TurnRows
  <2>2. i # 1
    BY <1>3
  <2> QED
    BY <2>1, <2>2 DEF Row
<1>4. ASSUME NEW k \in 1 .. len, i = 1 + commentary + 2 * k
      PROVE  writes[i].row.of = r /\ writes[i].row.table = "entry" /\ i # 1
  <2>1. writes[i].row = Row("entry", r, t, k, "call", last + commentary + k)
    BY <1>4 DEF TurnRows
  <2>2. i # 1
    BY <1>4
  <2> QED
    BY <2>1, <2>2 DEF Row
<1>5. \/ i = 1
      \/ i = 2 /\ commentary = 1
      \/ \E k \in 1 .. len : i = commentary + 2 * k
      \/ \E k \in 1 .. len : i = 1 + commentary + 2 * k
  BY TurnPositions
<1> QED
  BY <1>1, <1>2, <1>3, <1>4, <1>5 DEF TurnRow

\* The rows of the calls are as many as the calls.
LEMMA CallRowsCounted ==
  ASSUME NEW len \in Nat, NEW commentary \in {0, 1}, NEW last \in Nat, NEW writes, NEW r, NEW t,
         NEW calls, DOMAIN calls = 1 .. len, TurnRows(writes, r, t, calls, len, commentary, last),
         NEW n, n = 1 + commentary + 2 * len, NEW kinds,
         NEW S, S = CallsAmong(calls, len, kinds), NEW I, I = CallRowsAmong(writes, n, kinds)
  PROVE  /\ IsFiniteSet(S) /\ Cardinality(S) \in Nat /\ Cardinality(I) = Cardinality(S)
<1>0. /\ S = {k \in 1 .. len : calls[k] \in kinds}
      /\ I = {i \in 1 .. n : writes[i].row.table = "call" /\ writes[i].row.kind \in kinds}
  BY DEF CallsAmong, CallRowsAmong
<1>1. IsFiniteSet(1 .. len) /\ S \subseteq 1 .. len
  <2>1. IsFiniteSet(1 .. len)
    BY FS_Interval
  <2> QED
    BY <1>0, <2>1
<1>2. IsFiniteSet(S)
  BY <1>1, FS_Subset
<1>3. Cardinality(S) \in Nat
  BY <1>2, FS_CardinalityType
<1>4. PICK f : f = [k \in S |-> commentary + 2 * k]
  OBVIOUS
<1>5. ASSUME NEW k \in S
      PROVE  f[k] \in I
  <2>1. k \in 1 .. len /\ calls[k] \in kinds
    BY <1>0
  <2>2. f[k] = commentary + 2 * k
    BY <1>4
  <2>3. f[k] \in 1 .. n
    BY <2>1, <2>2
  <2>4. writes[f[k]].row = Row("call", r, t, k, calls[k], 0)
    BY <2>1, <2>2 DEF TurnRows
  <2> QED
    BY <1>0, <2>1, <2>3, <2>4 DEF Row
<1>6. f \in [S -> I]
  BY <1>4, <1>5
<1>7. \A x, y \in S : f[x] = f[y] => x = y
  <2> TAKE x, y \in S
  <2>0. x \in 1 .. len /\ y \in 1 .. len
    BY <1>0
  <2>1. x \in Nat /\ y \in Nat /\ f[x] = commentary + 2 * x /\ f[y] = commentary + 2 * y
    BY <1>4, <2>0
  <2> QED
    BY <2>1
<1>8. \A z \in I : \E x \in S : f[x] = z
  <2> TAKE z \in I
  <2>1. z \in 1 .. n /\ writes[z].row.table = "call" /\ writes[z].row.kind \in kinds
    BY <1>0
  <2>2. PICK k \in 1 .. len : z = commentary + 2 * k /\ writes[z].row.kind = calls[k]
    BY <2>1, TurnRowIs DEF TurnRow
  <2>3. k \in S
    BY <1>0, <2>1, <2>2
  <2> QED
    BY <1>4, <2>2, <2>3
<1>9. Cardinality(I) = Cardinality(S)
  <2>1. f \in Bijection(S, I)
    BY <1>6, <1>7, <1>8 DEF Bijection, Injection, Surjection, IsInjective
  <2> QED
    BY <1>2, <2>1, FS_Bijection DEF ExistsBijection
<1> QED
  BY <1>2, <1>3, <1>9

LEMMA TurnCounters ==
  ASSUME StepContext, NEW r \in Runs, NEW t, NEW calls, NEW len \in Nat, len = Len(calls),
         DOMAIN calls = 1 .. len, \A k \in 1 .. len : calls[k] \in ToolKinds,
         NEW commentary \in {0, 1}, NEW last \in Nat, NEW writes,
         TurnRows(writes, r, t, calls, len, commentary, last),
         NEW n \in Nat, n = 1 + commentary + 2 * len, CountTurn(r, calls)
  PROVE  /\ counters' \in [Runs -> CounterType]
         /\ Grown(writes, n) => CountersAgree'
<1>1. PICK one : one = {"mutation"}
  OBVIOUS
<1>2. PICK M : M = CallsAmong(calls, len, one)
  OBVIOUS
<1>3. PICK J : J = CallRowsAmong(writes, n, one)
  OBVIOUS
<1>4. PICK I : I = CallRowsAmong(writes, n, ToolKinds)
  OBVIOUS
<1>5. PICK S : S = CallsAmong(calls, len, ToolKinds)
  OBVIOUS
<1>6. Cardinality(M) \in Nat /\ Cardinality(J) = Cardinality(M)
  BY <1>2, <1>3, CallRowsCounted
<1>7. Cardinality(I) = Cardinality(S)
  BY <1>4, <1>5, CallRowsCounted
<1>8. Cardinality(S) = len
  <2>1. PICK first : first = 1
    OBVIOUS
  <2>2. first \in Int /\ len \in Int
    BY <2>1
  <2>3. S = first .. len
    BY <1>5, <2>1 DEF CallsAmong
  <2>4. Cardinality(first .. len) = IF first > len THEN 0 ELSE len - first + 1
    BY <2>2, FS_Interval
  <2> QED
    BY <2>1, <2>3, <2>4
<1>9. M = {k \in DOMAIN calls : calls[k] = "mutation"}
  BY <1>1, <1>2 DEF CallsAmong
<1>10. PICK mutations \in Nat : mutations = Cardinality(M)
  BY <1>6
<1>11. mutations = Cardinality({k \in DOMAIN calls : calls[k] = "mutation"})
  BY <1>9, <1>10
<1>12. counters' \in [Runs -> CounterType]
  BY <1>10, <1>11, TurnCounted DEF StepContext, RowsInv
<1>13. ASSUME Grown(writes, n)
       PROVE  CountersAgree'
  <2>0. \A i \in 1 .. n : TurnRow(writes, i, r, calls, len, commentary)
    BY TurnRowIs
  <2>1. \A i \in 1 .. n : writes[i].row.of = r
    BY <2>0 DEF TurnRow
  <2>2. \A i \in 1 .. n : writes[i].row.table = "provider" /\ writes[i].row.kind = "completed" <=> i = 1
    BY <2>0 DEF TurnRow
  <2>3. TurnTally(writes, n, I, J)
    BY <1>1, <1>3, <1>4, <2>2 DEF CallRowsAmong, TurnTally
  <2>4. I \in SUBSET (1 .. n) /\ J \in SUBSET (1 .. n) /\ n >= 1
    BY <1>3, <1>4 DEF CallRowsAmong
  <2>5. Cardinality(I) = len /\ Cardinality(J) = mutations
    BY <1>6, <1>7, <1>8, <1>10
  <2> QED
    BY <1>10, <1>11, <1>13, <2>1, <2>3, <2>4, <2>5, TurnAgrees
<1> QED
  BY <1>12, <1>13

\* The calls of a completed turn have their rows, and so have those before.
LEMMA TurnCallsWritten ==
  ASSUME LedgerTypeOK, CallsAreWritten, NEW r \in Runs, NEW t \in Turns, NEW calls,
         NEW len \in Nat, len = Len(calls), NEW commentary \in {0, 1}, NEW last \in Nat, NEW writes,
         TurnRows(writes, r, t, calls, len, commentary, last),
         NEW n \in Nat, n = 1 + commentary + 2 * len, Grown(writes, n),
         toolCalls' = [toolCalls EXCEPT ![<<r, t>>] = calls]
  PROVE  CallsAreWritten'
<1> SUFFICES ASSUME NEW q \in Runs, NEW u \in Turns, NEW k \in Calls, IsCall(q, u, k)'
             PROVE  /\ IsWritten("call", q, u, k, toolCalls[<<q, u>>][k])'
                    /\ IsWritten("entry", q, u, k, "call")'
  BY DEF CallsAreWritten
<1>1. CASE <<q, u>> # <<r, t>>
  <2>1. toolCalls'[<<q, u>>] = toolCalls[<<q, u>>]
    BY <1>1 DEF LedgerTypeOK
  <2>2. IsCall(q, u, k)
    BY <2>1 DEF IsCall
  <2>3. PICK kind : kind = toolCalls[<<q, u>>][k]
    OBVIOUS
  <2>4. IsWritten("call", q, u, k, kind) /\ IsWritten("entry", q, u, k, "call")
    BY <2>2, <2>3 DEF CallsAreWritten
  <2>5. IsWritten("call", q, u, k, kind)' /\ IsWritten("entry", q, u, k, "call")'
    BY <2>4, WrittenKept
  <2>6. toolCalls'[<<q, u>>][k] = kind
    BY <2>1, <2>3
  <2> QED
    BY <2>5, <2>6 DEF IsWritten
<1>2. CASE <<q, u>> = <<r, t>>
  <2>1. q = r /\ u = t /\ toolCalls'[<<q, u>>] = calls
    BY <1>2 DEF LedgerTypeOK
  <2>2. k \in 1 .. len
    BY <2>1, BoundAssumption DEF IsCall, Calls
  <2>3. PICK i \in 1 .. n : i = commentary + 2 * k
    BY <2>2
  <2>4. PICK j \in 1 .. n : j = 1 + commentary + 2 * k
    BY <2>2
  <2>5. PICK kind : kind = calls[k]
    OBVIOUS
  <2>6. PICK seq : seq = last + commentary + k
    OBVIOUS
  <2>7. /\ writes[i].row = Row("call", r, t, k, kind, 0)
        /\ writes[j].row = Row("entry", r, t, k, "call", seq)
    BY <2>2, <2>3, <2>4, <2>5, <2>6 DEF TurnRows
  <2>8. IsWritten("call", r, t, k, kind)' /\ IsWritten("entry", r, t, k, "call")'
    BY <2>7, NewIsWritten
  <2>9. toolCalls'[<<q, u>>][k] = kind
    BY <2>1, <2>5
  <2> QED
    BY <2>1, <2>8, <2>9 DEF IsWritten
<1> QED
  BY <1>1, <1>2

\* One of n rows is an entry at a place of the transcript of a session.
EntryTakes(writes, n, z, place) ==
  \E i \in 1 .. n :
    /\ writes[i].row.table = "entry" /\ InTranscript(writes[i].row)
    /\ SessionOf[writes[i].row.of] = z /\ writes[i].row.seq = place

\* The sizes of a turn: n rows, of which size entries.
TurnSizes(n, len, commentary, size) ==
  /\ n \in Nat /\ n = 1 + commentary + 2 * len
  /\ len \in Nat /\ len >= 1 /\ size = len + commentary

EntriesTake(writes, n, z, last, size) == \A j \in 1 .. size : EntryTakes(writes, n, z, last + j)

\* The entries of a turn take the next places of the transcript, the last one too.
LEMMA TurnPlaces ==
  ASSUME NEW r, NEW t, NEW calls, NEW len, NEW commentary \in {0, 1}, NEW last \in Nat, NEW writes,
         TurnRows(writes, r, t, calls, len, commentary, last), NEW n, NEW size,
         TurnSizes(n, len, commentary, size)
  PROVE  EntriesTake(writes, n, SessionOf[r], last, size)
<1> SUFFICES ASSUME NEW j \in 1 .. size, NEW z, z = SessionOf[r], NEW place, place = last + j
             PROVE  EntryTakes(writes, n, z, place)
  BY DEF EntriesTake
<1>0. /\ n \in Nat /\ n = 1 + commentary + 2 * len
      /\ len \in Nat /\ len >= 1 /\ size = len + commentary
  BY DEF TurnSizes
<1>1. CASE j = 1 /\ commentary = 1
  <2>1. 2 \in 1 .. n
    BY <1>0, <1>1
  <2>2. writes[2].row = Row("entry", r, t, 0, "commentary", last + 1)
    BY <1>1 DEF TurnRows
  <2>3. /\ writes[2].row.table = "entry" /\ writes[2].row.of = r
        /\ writes[2].row.seq = last + 1
    BY <2>2 DEF Row
  <2>4. writes[2].row.seq > 0
    BY <2>3
  <2> QED
    BY <1>1, <2>1, <2>3, <2>4 DEF InTranscript, EntryTakes
<1>2. CASE ~(j = 1 /\ commentary = 1)
  <2>1. PICK k \in 1 .. len : j = commentary + k
    <3>1. j - commentary \in 1 .. len /\ j = commentary + (j - commentary)
      BY <1>0, <1>2
    <3> QED
      BY <3>1
  <2>2. PICK i \in 1 .. n : i = 1 + commentary + 2 * k
    <3>1. 1 + commentary + 2 * k \in 1 .. n
      BY <1>0, <2>1
    <3> QED
      BY <3>1
  <2>3. PICK seq \in Nat : seq = last + commentary + k
    BY <1>0, <2>1
  <2>4. writes[i].row = Row("entry", r, t, k, "call", seq)
    BY <2>1, <2>2, <2>3 DEF TurnRows
  <2>5. writes[i].row.table = "entry" /\ writes[i].row.of = r /\ writes[i].row.seq = seq
    BY <2>4 DEF Row
  <2>6. seq = last + j /\ seq > 0
    BY <1>0, <2>1, <2>3
  <2> QED
    BY <2>2, <2>5, <2>6 DEF InTranscript, EntryTakes
<1> QED
  BY <1>1, <1>2

LEMMA ToolTurnKeeps ==
  ASSUME StepContext, NEW r \in Runs, NEW t \in Turns, NEW calls \in CallBatches,
         NEW commentary \in {0, 1}, WriteToolTurn(r, t, calls, commentary)
  PROVE  FactsInv'
<1>0. LedgerTypeOK /\ LedgerTypeOK' /\ SessionOf[r] \in Sessions
  BY SessionOfAssumption DEF StepContext, LedgerInv
<1>1. PICK last : last = highWater[SessionOf[r]]
  OBVIOUS
<1>2. PICK len : len = Len(calls)
  OBVIOUS
<1>3. PICK size : size = len + commentary
  OBVIOUS
<1>4. PICK n : n = 1 + commentary + 2 * len
  OBVIOUS
<1>5. TurnFacts(r, t, calls, len, commentary, size, last)
  BY <1>1, <1>2, <1>3, TurnBegins
<1>6. /\ len \in Nat /\ len >= 1 /\ DOMAIN calls = 1 .. len
      /\ \A k \in 1 .. len : calls[k] \in ToolKinds
      /\ last \in Nat /\ size \in Nat /\ size = len + commentary
      /\ Extends(SessionOf[r], last, size)
      /\ toolCalls' = [toolCalls EXCEPT ![<<r, t>>] = calls]
      /\ providerFacts' = [providerFacts EXCEPT ![<<r, t>>] = providerFacts[<<r, t>>] \cup {"completed"}]
      /\ "completed" \notin providerFacts[<<r, t>>] /\ "prepared" \in providerFacts[<<r, t>>]
      /\ IsLive(r) /\ runState[r] = "active"
      /\ UNCHANGED <<runState, cancelRequested, toolFacts>>
  BY <1>5 DEF TurnFacts
<1>7. n \in Nat /\ n >= 1 /\ 1 \in 1 .. n
  BY <1>4, <1>6
<1>8. PICK writes : /\ Write(writes) /\ TurnRows(writes, r, t, calls, len, commentary, last)
                    /\ \A i \in 1 .. n : Ready(writes[i])
  BY <1>1, <1>2, <1>4, TurnWrites
<1>9. DOMAIN writes = 1 .. n
  BY <1>4, <1>8 DEF TurnRows
<1>10. Coherent(writes, n)
  BY <1>4, <1>6, <1>8, TurnIsCoherent
<1>11. CountTurn(r, calls)
  BY DEF WriteToolTurn
<1>12. counters' \in [Runs -> CounterType] /\ (Grown(writes, n) => CountersAgree')
  BY <1>2, <1>4, <1>6, <1>7, <1>8, <1>11, TurnCounters
<1>13. RowsInv' /\ Grown(writes, n)
  BY <1>7, <1>8, <1>9, <1>10, <1>12, ReadyRows
<1>14. \A i \in 1 .. n : TurnRow(writes, i, r, calls, len, commentary)
  BY <1>4, <1>6, <1>8, TurnRowIs
<1>15. RunsAreWritten' /\ ToolsAreWritten'
  BY <1>6, <1>13, RunsUnmoved, ToolsUnmoved DEF StepContext, RowsAreComplete
<1>16. OperationsAreWritten'
  <2>1. writes[1].row = Row("provider", r, t, 0, "completed", 0)
    BY <1>8 DEF TurnRows
  <2>2. IsWritten("provider", r, t, 0, "completed")'
    BY <1>7, <1>13, <2>1, NewIsWritten
  <2> QED
    BY <1>0, <1>6, <1>13, <2>2, OperationMoved DEF StepContext, RowsAreComplete
<1>17. CallsAreWritten'
  BY <1>0, <1>2, <1>4, <1>6, <1>7, <1>8, <1>13, TurnCallsWritten DEF StepContext, RowsAreComplete
<1>18. PICK z \in Sessions : z = SessionOf[r]
  BY <1>0
<1>19. EntriesTake(writes, n, z, last, size)
  <2>1. TurnSizes(n, len, commentary, size)
    BY <1>4, <1>6, <1>7 DEF TurnSizes
  <2>2. EntriesTake(writes, n, SessionOf[r], last, size)
    BY <1>6, <1>8, <2>1, TurnPlaces
  <2> QED
    BY <1>18, <2>2
<1>20. TranscriptIsWhole'
  <2>1. PlacesTaken(writes, n, z, last, size)
    BY <1>19 DEF PlacesTaken, EntriesTake, EntryTakes
  <2>2. last = highWater[z] /\ Extends(z, last, size)
    BY <1>1, <1>6, <1>18
  <2> QED
    BY <1>0, <1>6, <1>13, <1>18, <2>1, <2>2, TranscriptExtended DEF StepContext, RowsAreComplete
<1>21. LiveRunReadsEntry'
  <2>1. size \in 1 .. size
    BY <1>6
  <2>2. \E i \in 1 .. n :
          /\ writes[i].row.table = "entry" /\ InTranscript(writes[i].row)
          /\ SessionOf[writes[i].row.of] = z /\ writes[i].row.seq = last + size
    BY <1>19, <2>1 DEF EntriesTake, EntryTakes
  <2>3. \A q \in Runs : IsLive(q)' => IsLive(q)
    BY <1>6 DEF IsLive
  <2> QED
    BY <1>0, <1>6, <1>13, <1>18, <2>2, <2>3, LiveRunsRead DEF StepContext, RowsAreComplete
<1>22. PreparedHaveSource'
  BY <1>13, <1>14, SourcesKept DEF StepContext, RowsAreComplete, TurnRow
<1>23. FactsShape'
  <2>1. runState'[r] \notin {"none", "accepted"}
    BY <1>6
  <2> QED
    BY <1>0, <1>6, <2>1, ShapeOfTurn DEF StepContext, LedgerGrows
<1> QED
  BY <1>12, <1>13, <1>15, <1>16, <1>17, <1>20, <1>21, <1>22, <1>23
     DEF StepContext, FactsInv, RowsAreComplete

--------------------------------------------------------------------------------
(* The invariant holds always. *)

\* A step that writes no row of these tables and changes nothing they tell of.
Beside ==
  UNCHANGED <<journal, audits, deliveries, registry, counters, runState, cancelRequested,
              highWater, providerFacts, toolCalls, toolFacts, commandState>>

LEMMA BesideKeeps ==
  ASSUME FactsInv, LedgerInv', Beside
  PROVE  FactsInv'
<1>1. RowsInv'
  <2>1. JournalTypeOK' /\ RegistryValid' /\ AuditsValid' /\ DeliveriesAgree'
    BY DEF FactsInv, RowsInv, Beside, JournalTypeOK, RegistryValid, AuditsValid, DeliveriesAgree,
           RebuiltDeliveries
  <2>2. RowsAreBacked'
    BY DEF FactsInv, RowsInv, Beside, RowsAreBacked, Backed, IsCall, ToolSettled
  <2>3. RowsFit'
    BY DEF FactsInv, RowsInv, Beside, RowsFit
  <2> QED
    BY <2>1, <2>2, <2>3 DEF RowsInv
<1>2. FactsShape'
  <2>1. \A r \in Runs : RunGrows(r)
    BY DEF Beside, RunGrows
  <2> QED
    BY <2>1, ShapeKept DEF FactsInv, Beside
<1>3. RunsAreWritten' /\ OperationsAreWritten'
  BY DEF FactsInv, RowsAreComplete, Beside, RunsAreWritten, RunIsWritten, OperationsAreWritten,
         IsWritten
<1>4. CallsAreWritten' /\ ToolsAreWritten'
  BY DEF FactsInv, RowsAreComplete, Beside, CallsAreWritten, ToolsAreWritten, IsWritten, IsCall,
         ToolSettled
<1>5. TranscriptIsWhole' /\ LiveRunReadsEntry' /\ PreparedHaveSource'
  BY DEF FactsInv, RowsAreComplete, Beside, TranscriptIsWhole, LiveRunReadsEntry,
         PreparedHaveSource, IsPlace, InTranscript, IsLive
<1>6. CountersAgree'
  BY DEF FactsInv, RowsAreComplete, Beside, CountersAgree, RebuiltCounts, Rows
<1> QED
  BY <1>1, <1>2, <1>3, <1>4, <1>5, <1>6 DEF FactsInv, RowsAreComplete

\* What every step of the ledger may rely on.
LEMMA StepsHaveContext ==
  ASSUME FactsInv, [FactsNext]_factVars
  PROVE  StepContext
<1>1. [LedgerNext]_ledgerVars
  BY FactsStepIsLedgerStep
<1>2. LedgerInv /\ LedgerInv'
  BY <1>1, InvNext DEF FactsInv
<1>3. LedgerTypeOK /\ LedgerTypeOK'
  BY <1>2 DEF LedgerInv
<1>4. LedgerGrows
  BY <1>1, <1>3, LedgerOnlyGrows DEF FactsInv
<1>5. FactsKeep
  BY <1>3, <1>4, RowsKeepTheirFacts
<1> QED
  BY <1>2, <1>4, <1>5 DEF StepContext, FactsInv

LEMMA FactsInvNext ==
  ASSUME FactsInv, [FactsNext]_factVars
  PROVE  FactsInv'
<1>0. StepContext /\ LedgerInv'
  BY StepsHaveContext DEF StepContext
<1>1. ASSUME NEW r \in Runs, FactsRunStep(r)
      PROVE  FactsInv'
  BY <1>0, <1>1, InputKeeps, CancellationKeeps, ReceiptKeeps, ActivationKeeps, FinishKeeps
     DEF FactsRunStep
<1>2. ASSUME NEW r \in Runs, NEW t \in Turns, FactsProviderStep(r, t)
      PROVE  FactsInv'
  BY <1>0, <1>2, PreparedRowsKeep, DispatchedKeeps, AnswerKeeps, RejectionKeeps, ToolTurnKeeps,
     FinishOperationKeeps DEF FactsProviderStep
<1>3. ASSUME NEW r \in Runs, NEW t \in Turns, NEW k \in Calls, FactsToolStep(r, t, k)
      PROVE  FactsInv'
  BY <1>0, <1>3, ToolPreparedRowsKeep, ToolDispatchedKeeps, ToolResultKeeps DEF FactsToolStep
<1>4. ASSUME NEW c \in Commands, FactsCommandStep(c)
      PROVE  FactsInv'
  BY <1>0, <1>4, CommandKeeps, CommandResultKeeps DEF FactsCommandStep
<1>5. CASE \/ \E s \in Sessions : FactsSteeringStep(s)
           \/ PauseSteeringForRecovery /\ KeepRows
           \/ \E a \in Archives : FactsArchiveStep(a)
  <2>1. Beside
    <3>1. CASE \E s \in Sessions : FactsSteeringStep(s)
      BY <3>1 DEF FactsSteeringStep, SteeringStep, EnqueueSteering, ResumeSteering,
                  PauseSteeringQueue, KeepRows, Beside, runVars, providerVars, toolVars, commandVars
    <3>2. CASE PauseSteeringForRecovery /\ KeepRows
      BY <3>2 DEF PauseSteeringForRecovery, KeepRows, Beside, runVars, providerVars, toolVars,
                  commandVars
    <3>3. CASE \E a \in Archives : FactsArchiveStep(a)
      BY <3>3 DEF FactsArchiveStep, ArchiveStep, PrepareSessionArchive, CompleteSessionArchive,
                  KeepRows, Beside, runVars, providerVars, toolVars, commandVars
    <3> QED
      BY <1>5, <3>1, <3>2, <3>3
  <2> QED
    BY <1>0, <2>1, BesideKeeps
<1>6. CASE UNCHANGED factVars
  <2>1. Beside
    BY <1>6 DEF factVars, ledgerVars, runVars, providerVars, toolVars, commandVars, Beside
  <2> QED
    BY <1>0, <2>1, BesideKeeps
<1> QED
  BY <1>1, <1>2, <1>3, <1>4, <1>5, <1>6 DEF FactsNext

LEMMA FactsInvInit ==
  ASSUME FactsInit
  PROVE  FactsInv
<1>1. LedgerInit /\ journal = <<>> /\ audits = {} /\ deliveries = {} /\ registry = {}
      /\ counters = [r \in Runs |-> NoCounts]
  BY DEF FactsInit
<1>2. LedgerInv
  BY <1>1, InvInit
<1>3. DOMAIN journal = {} /\ journal \in Seq(JournalRows)
  BY <1>1
<1>4. NoCounts = [turns |-> 0, calls |-> 0, mutations |-> 0] /\ NoCounts \in CounterType
  BY DEF NoCounts, CounterType
<1>5. RowsInv
  <2>1. JournalTypeOK
    BY <1>1, <1>3, <1>4 DEF JournalTypeOK
  <2>2. RowsAreBacked /\ RowsFit
    BY <1>3 DEF RowsAreBacked, RowsFit
  <2>3. RegistryValid /\ AuditsValid /\ DeliveriesAgree
    BY <1>1, <1>3 DEF RegistryValid, AuditsValid, DeliveriesAgree, RebuiltDeliveries
  <2> QED
    BY <2>1, <2>2, <2>3 DEF RowsInv
<1>6. \A r \in Runs, t \in Turns :
        /\ runState[r] = "none" /\ ~cancelRequested[r]
        /\ providerFacts[<<r, t>>] = {} /\ toolCalls[<<r, t>>] = <<>>
        /\ \A k \in Calls : toolFacts[<<r, t, k>>] = {}
  BY <1>1 DEF LedgerInit
<1>7. \A r \in Runs : runState[r] = "none" /\ ~cancelRequested[r]
  BY <1>1 DEF LedgerInit
<1>8. \A r \in Runs, t \in Turns : Len(toolCalls[<<r, t>>]) = 0
  <2>1. PICK none : none = <<>>
    OBVIOUS
  <2>2. Len(none) = 0
    BY <2>1
  <2>3. \A r \in Runs, t \in Turns : toolCalls[<<r, t>>] = none
    BY <1>6, <2>1
  <2> QED
    BY <2>2, <2>3
<1>9. FactsShape
  BY <1>6, <1>8 DEF FactsShape, OperationShape, ToolShape
<1>10. \A r \in Runs, t \in Turns, k \in Calls : ~IsCall(r, t, k) /\ ~ToolSettled(r, t, k)
  <2>1. \A k \in Calls : k \in Nat /\ k >= 1
    BY BoundAssumption DEF Calls
  <2>2. \A r \in Runs, t \in Turns, k \in Calls : ~IsCall(r, t, k)
    BY <1>8, <2>1 DEF IsCall
  <2>3. \A r \in Runs, t \in Turns, k \in Calls : ~ToolSettled(r, t, k)
    BY <1>6 DEF ToolSettled
  <2> QED
    BY <2>2, <2>3
<1>11. RunsAreWritten /\ OperationsAreWritten /\ CallsAreWritten /\ ToolsAreWritten
  BY <1>6, <1>7, <1>10 DEF RunsAreWritten, RunIsWritten, OperationsAreWritten, CallsAreWritten,
                           ToolsAreWritten
<1>12. TranscriptIsWhole
  <2>1. \A s \in Sessions : highWater[s] = 0
    BY <1>1 DEF LedgerInit
  <2> QED
    BY <2>1 DEF TranscriptIsWhole
<1>13. LiveRunReadsEntry /\ PreparedHaveSource
  BY <1>3, <1>7 DEF LiveRunReadsEntry, PreparedHaveSource, IsLive, LiveRunStates
<1>14. CountersAgree
  <2>1. \A table, of, kinds : Rows(table, of, kinds) = {}
    BY <1>3 DEF Rows
  <2>2. Cardinality({}) = 0
    BY FS_EmptySet
  <2>3. \A r \in Runs : RebuiltCounts(r) = NoCounts
    BY <1>4, <2>1, <2>2 DEF RebuiltCounts
  <2> QED
    BY <1>1, <2>3 DEF CountersAgree
<1> QED
  BY <1>2, <1>5, <1>9, <1>11, <1>12, <1>13, <1>14 DEF FactsInv, RowsAreComplete

\* The rows agree with the ledger in every reachable state.
THEOREM FactsTheorem == FactsSpec => []FactsInv
<1>1. FactsInit => FactsInv
  BY FactsInvInit
<1>2. FactsInv /\ [FactsNext]_factVars => FactsInv'
  BY FactsInvNext
<1> QED
  BY <1>1, <1>2, PTL DEF FactsSpec

--------------------------------------------------------------------------------
(* What the validators find in the rows. *)

LEMMA RowAt ==
  ASSUME FactsInv, NEW i \in DOMAIN journal
  PROVE  journal[i] \in JournalRows /\ Backed(journal[i]) /\ i \in Nat
<1>1. journal \in Seq(JournalRows)
  BY DEF FactsInv, RowsInv, JournalTypeOK
<1>2. journal[i] \in JournalRows /\ i \in Nat
  BY <1>1, LenProperties
<1> QED
  BY <1>2 DEF FactsInv, RowsInv, RowsAreBacked

\* What the row at position i tells of the ledger, table by table.
LEMMA StateTells ==
  ASSUME FactsInv, NEW i \in DOMAIN journal, NEW r, journal[i].table = "state", journal[i].of = r
  PROVE  /\ r \in Runs /\ runState[r] \notin {"none", "accepted"}
         /\ journal[i].kind \in {"active"} \cup TerminalRunStates
         /\ journal[i].kind \in TerminalRunStates => runState[r] = journal[i].kind
<1>1. journal[i] \in JournalRows /\ Backed(journal[i])
  BY RowAt
<1>2. r \in Runs /\ journal[i].kind \in {"active"} \cup TerminalRunStates
  BY <1>1, RowFields
<1>3. /\ runState[r] \notin {"none", "accepted"}
      /\ journal[i].kind \in TerminalRunStates => runState[r] = journal[i].kind
  BY <1>1 DEF Backed
<1> QED
  BY <1>2, <1>3

LEMMA EntryTells ==
  ASSUME FactsInv, NEW i \in DOMAIN journal, NEW r, journal[i].table = "entry", journal[i].of = r
  PROVE  /\ r \in Runs /\ journal[i].seq \in 1 .. highWater[SessionOf[r]]
         /\ journal[i].kind = "answer" => runState[r] = "succeeded"
<1>1. journal[i] \in JournalRows /\ Backed(journal[i])
  BY RowAt
<1>2. r \in Runs
  BY <1>1, RowFields
<1>3. /\ journal[i].seq \in 1 .. highWater[SessionOf[r]]
      /\ journal[i].kind = "answer" => runState[r] = "succeeded"
  BY <1>1 DEF Backed
<1> QED
  BY <1>2, <1>3

LEMMA ProviderTells ==
  ASSUME FactsInv, NEW i \in DOMAIN journal, NEW r, NEW t, journal[i].table = "provider",
         journal[i].of = r, journal[i].turn = t
  PROVE  r \in Runs /\ t \in Turns /\ journal[i].kind \in providerFacts[<<r, t>>]
<1>1. journal[i] \in JournalRows /\ Backed(journal[i])
  BY RowAt
<1>2. r \in Runs /\ t \in Turns
  BY <1>1, RowFields
<1>3. journal[i].kind \in providerFacts[<<r, t>>]
  BY <1>1 DEF Backed
<1> QED
  BY <1>2, <1>3

LEMMA CallTells ==
  ASSUME FactsInv, NEW i \in DOMAIN journal, NEW r, NEW t, NEW k, journal[i].table = "call",
         journal[i].of = r, journal[i].turn = t, journal[i].call = k
  PROVE  IsCall(r, t, k) /\ journal[i].kind = toolCalls[<<r, t>>][k]
<1>1. Backed(journal[i])
  BY RowAt
<1> QED
  BY <1>1 DEF Backed

LEMMA ToolTells ==
  ASSUME FactsInv, NEW i \in DOMAIN journal, NEW r, NEW t, NEW k, journal[i].table = "tool",
         journal[i].of = r, journal[i].turn = t, journal[i].call = k
  PROVE  journal[i].kind \in toolFacts[<<r, t, k>>]
<1>1. Backed(journal[i])
  BY RowAt
<1> QED
  BY <1>1 DEF Backed

LEMMA CommandTells ==
  ASSUME FactsInv, NEW i \in DOMAIN journal, NEW c, journal[i].table = "command", journal[i].of = c
  PROVE  /\ c \in Commands
         /\ journal[i].kind \in TerminalCommandStates => journal[i].seq \in 1 .. highWater[SessionOf[c]]
         /\ journal[i].kind \notin TerminalCommandStates => journal[i].seq = 0
<1>1. journal[i] \in JournalRows /\ Backed(journal[i])
  BY RowAt
<1>2. /\ c \in Commands
      /\ journal[i].kind \notin TerminalCommandStates => journal[i].seq = 0
  BY <1>1, RowFields
<1>3. journal[i].kind \in TerminalCommandStates => journal[i].seq \in 1 .. highWater[SessionOf[c]]
  BY <1>1 DEF Backed
<1> QED
  BY <1>2, <1>3

\* A set whose elements are all the same.
LEMMA AtMostOne ==
  ASSUME NEW S, \A x, y \in S : x = y
  PROVE  Cardinality(S) \in {0, 1} /\ (S # {} <=> Cardinality(S) = 1)
<1>1. CASE S = {}
  BY <1>1, FS_EmptySet
<1>2. CASE S # {}
  <2>1. PICK x \in S : TRUE
    BY <1>2
  <2>2. S = {x}
    BY <2>1
  <2> QED
    BY <1>2, <2>2, FS_Singleton
<1> QED
  BY <1>1, <1>2

\* Rows that exclude each other are at most one.
LEMMA ExclusiveRows ==
  ASSUME FactsInv, NEW S \in SUBSET DOMAIN journal,
         \A i, j \in S : Exclusive(journal[i], journal[j])
  PROVE  Cardinality(S) \in {0, 1} /\ (S # {} <=> Cardinality(S) = 1)
<1>1. \A i, j \in S : i = j
  BY DEF FactsInv, RowsInv, RowsFit
<1> QED
  BY <1>1, AtMostOne

\* Rows that precede others are before them.
LEMMA InOrder ==
  ASSUME FactsInv, NEW S \in SUBSET DOMAIN journal, NEW T \in SUBSET DOMAIN journal,
         \A i \in S, j \in T : MustPrecede(journal[i], journal[j])
  PROVE  Before(S, T)
BY DEF FactsInv, RowsInv, RowsFit, Before

\* A run that was accepted has its state, its row and its input.
LEMMA AcceptedRun ==
  ASSUME FactsInv, NEW r \in Runs
  PROVE  /\ Accepted(r) # {} <=> runState[r] # "none"
         /\ runState[r] # "none" => Rows("entry", r, {"user"}) # {}
<1>1. ASSUME NEW a \in Accepted(r)
      PROVE  runState[r] # "none"
  <2>1. a \in DOMAIN journal /\ journal[a].table = "accepted" /\ journal[a].of = r
    BY DEF Accepted, Rows
  <2> QED
    BY <2>1, RowAt DEF Backed
<1>2. ASSUME runState[r] # "none"
      PROVE  Accepted(r) # {} /\ Rows("entry", r, {"user"}) # {}
  <2>1. IsWritten("accepted", r, 0, 0, "accepted") /\ IsWritten("entry", r, 0, 0, "user")
    BY <1>2 DEF FactsInv, RowsAreComplete, RunsAreWritten, RunIsWritten
  <2>2. PICK i \in DOMAIN journal : /\ journal[i].table = "accepted" /\ journal[i].of = r
                                    /\ journal[i].kind = "accepted"
    BY <2>1 DEF IsWritten
  <2>3. PICK j \in DOMAIN journal : /\ journal[j].table = "entry" /\ journal[j].of = r
                                    /\ journal[j].kind = "user"
    BY <2>1 DEF IsWritten
  <2> QED
    BY <2>2, <2>3 DEF Accepted, Rows
<1> QED
  BY <1>1, <1>2

LEMMA RequestsAreValid ==
  ASSUME FactsInv, NEW r \in Runs
  PROVE  RequestsValid(r)
<1>1. ASSUME Accepted(r) # {}
      PROVE  \E u \in Rows("entry", r, {"user"}), a \in Accepted(r) : journal[u].seq = journal[a].seq
  <2>1. PICK a : a \in Accepted(r)
    BY <1>1
  <2>2. PICK u : u \in Rows("entry", r, {"user"})
    BY <1>1, AcceptedRun
  <2>3. /\ a \in DOMAIN journal /\ journal[a].table = "accepted" /\ journal[a].of = r
        /\ u \in DOMAIN journal /\ journal[u].table = "entry" /\ journal[u].of = r
        /\ journal[u].kind = "user"
    BY <2>1, <2>2 DEF Accepted, Rows
  <2>4. ~Conflicts(journal[a], journal[u])
    BY <2>3 DEF FactsInv, RowsInv, RowsFit
  <2> QED
    BY <2>1, <2>2, <2>3, <2>4 DEF Conflicts
<1>2. ASSUME Rows("cancellation", r, {"applied", "ignored"}) # {}
      PROVE  Accepted(r) # {}
  <2>1. PICK i \in DOMAIN journal : journal[i].table = "cancellation" /\ journal[i].of = r
    BY <1>2 DEF Rows
  <2> QED
    BY <2>1, RowAt, AcceptedRun DEF Backed
<1>3. ASSUME NEW i \in OfKind(Rows("cancellation", r, {"applied", "ignored"}), {"applied"})
      PROVE  <<i, "cancellation">> \in deliveries
  <2>1. i \in DOMAIN journal /\ journal[i].table = "cancellation" /\ journal[i].kind = "applied"
    BY DEF OfKind, Rows
  <2>2. RebuiltEvent(journal[i]) = "cancellation"
    BY <2>1 DEF RebuiltEvent
  <2>3. <<i, RebuiltEvent(journal[i])>> \in RebuiltDeliveries
    BY <2>1, <2>2 DEF RebuiltDeliveries
  <2> QED
    BY <2>2, <2>3 DEF FactsInv, RowsInv, DeliveriesAgree
<1> QED
  BY <1>1, <1>2, <1>3 DEF RequestsValid

LEMMA RunFactsAreValid ==
  ASSUME FactsInv, NEW r \in Runs, Accepted(r) # {}
  PROVE  RunFactsValid(r)
<1>1. PICK accepted : accepted = Accepted(r)
  OBVIOUS
<1>2. PICK entries : entries = Rows("entry", r, {"user", "answer", "commentary"})
  OBVIOUS
<1>3. PICK users : users = OfKind(entries, {"user"})
  OBVIOUS
<1>4. PICK states : states = Rows("state", r, RunStates)
  OBVIOUS
<1>5. PICK terminal : terminal = OfKind(states, TerminalRunStates)
  OBVIOUS
<1>6. PICK succeeded : succeeded = OfKind(states, {"succeeded"})
  OBVIOUS
<1>7. PICK answers : answers = OfKind(entries, {"answer"})
  OBVIOUS
<1>8. PICK active : active = OfKind(states, {"active"})
  OBVIOUS
<1>9. /\ \A i \in accepted : i \in DOMAIN journal /\ journal[i].table = "accepted" /\ journal[i].of = r
      /\ \A i \in entries : i \in DOMAIN journal /\ journal[i].table = "entry" /\ journal[i].of = r
      /\ \A i \in states : i \in DOMAIN journal /\ journal[i].table = "state" /\ journal[i].of = r
  BY <1>1, <1>2, <1>4 DEF Accepted, Rows
<1>10. /\ \A i \in users : i \in entries /\ journal[i].kind = "user"
       /\ \A i \in answers : i \in entries /\ journal[i].kind = "answer"
       /\ \A i \in terminal : i \in states /\ journal[i].kind \in TerminalRunStates
       /\ \A i \in succeeded : i \in states /\ journal[i].kind = "succeeded"
       /\ \A i \in active : i \in states /\ journal[i].kind = "active"
  BY <1>3, <1>5, <1>6, <1>7, <1>8 DEF OfKind
<1>11. /\ accepted \in SUBSET DOMAIN journal /\ entries \in SUBSET DOMAIN journal
       /\ states \in SUBSET DOMAIN journal /\ users \in SUBSET DOMAIN journal
       /\ answers \in SUBSET DOMAIN journal /\ terminal \in SUBSET DOMAIN journal
       /\ succeeded \in SUBSET DOMAIN journal /\ active \in SUBSET DOMAIN journal
       /\ entries \ users \in SUBSET DOMAIN journal
  BY <1>9, <1>10
<1>12. "succeeded" \in TerminalRunStates /\ TerminalRunStates \subseteq RunStates
  BY DEF TerminalRunStates, RunStates
<1>13. Cardinality(users) = 1
  <2>1. \A i, j \in users : Exclusive(journal[i], journal[j])
    BY <1>9, <1>10 DEF Exclusive
  <2>2. users # {}
    <3>1. PICK u : u \in Rows("entry", r, {"user"})
      BY AcceptedRun
    <3>2. u \in users
      BY <1>2, <1>3, <3>1 DEF OfKind, Rows
    <3> QED
      BY <3>2
  <2> QED
    BY <1>11, <2>1, <2>2, ExclusiveRows
<1>14. Before(users, accepted)
  <2>1. \A i \in users, j \in accepted : MustPrecede(journal[i], journal[j])
    BY <1>9, <1>10 DEF MustPrecede
  <2> QED
    BY <1>11, <2>1, InOrder
<1>15. \A u \in users, a \in accepted : journal[u].seq = journal[a].seq
  <2> TAKE u \in users, a \in accepted
  <2>1. ~Conflicts(journal[a], journal[u])
    BY <1>11 DEF FactsInv, RowsInv, RowsFit
  <2> QED
    BY <1>9, <1>10, <2>1 DEF Conflicts
<1>16. Cardinality(terminal) <= 1
  <2>1. \A i, j \in terminal : Exclusive(journal[i], journal[j])
    BY <1>9, <1>10 DEF Exclusive, SameOrBoth
  <2>2. Cardinality(terminal) \in {0, 1}
    BY <1>11, <2>1, ExclusiveRows
  <2> QED
    BY <2>2
<1>17. Before(accepted, states)
  <2>1. \A i \in accepted, j \in states : MustPrecede(journal[i], journal[j])
    BY <1>9, <1>10 DEF MustPrecede
  <2> QED
    BY <1>11, <2>1, InOrder
<1>18. Before(active, terminal)
  <2>1. \A i \in active, j \in terminal : MustPrecede(journal[i], journal[j])
    BY <1>9, <1>10 DEF MustPrecede
  <2> QED
    BY <1>11, <2>1, InOrder
<1>19. Before(entries \ users, succeeded)
  <2>1. \A i \in entries \ users, j \in succeeded : MustPrecede(journal[i], journal[j])
    BY <1>9, <1>10, <1>12 DEF MustPrecede
  <2> QED
    BY <1>11, <2>1, InOrder
<1>20. Cardinality(succeeded) = 1 <=> Cardinality(answers) = 1
  <2>1. \A i, j \in succeeded : Exclusive(journal[i], journal[j])
    BY <1>9, <1>10 DEF Exclusive, SameOrBoth
  <2>2. \A i, j \in answers : Exclusive(journal[i], journal[j])
    BY <1>9, <1>10 DEF Exclusive
  <2>3. succeeded # {} => runState[r] = "succeeded"
    BY <1>9, <1>10, <1>12, StateTells
  <2>4. answers # {} => runState[r] = "succeeded"
    BY <1>9, <1>10, EntryTells
  <2>5. ASSUME runState[r] = "succeeded"
        PROVE  succeeded # {} /\ answers # {}
    <3>1. /\ IsWritten("state", r, 0, 0, "succeeded")
          /\ \E t \in Turns : IsWritten("entry", r, t, 0, "answer")
      BY <2>5 DEF FactsInv, RowsAreComplete, RunsAreWritten, RunIsWritten
    <3>2. PICK i \in DOMAIN journal : /\ journal[i].table = "state" /\ journal[i].of = r
                                      /\ journal[i].kind = "succeeded"
      BY <3>1 DEF IsWritten
    <3>3. PICK j \in DOMAIN journal : /\ journal[j].table = "entry" /\ journal[j].of = r
                                      /\ journal[j].kind = "answer"
      BY <3>1 DEF IsWritten
    <3>4. i \in succeeded /\ j \in answers
      BY <1>2, <1>4, <1>6, <1>7, <1>12, <3>2, <3>3 DEF OfKind, Rows
    <3> QED
      BY <3>4
  <2>6. succeeded # {} <=> Cardinality(succeeded) = 1
    BY <1>11, <2>1, ExclusiveRows
  <2>7. answers # {} <=> Cardinality(answers) = 1
    BY <1>11, <2>2, ExclusiveRows
  <2> QED
    BY <2>3, <2>4, <2>5, <2>6, <2>7
<1> QED
  BY <1>1, <1>2, <1>3, <1>4, <1>5, <1>6, <1>7, <1>8, <1>13, <1>14, <1>15, <1>16, <1>17, <1>18, <1>19,
     <1>20 DEF RunFactsValid

\* Every place of a transcript has one row, and no row has another place.
LEMMA PlacesOfSession ==
  ASSUME FactsInv, NEW s \in Sessions, NEW last, last = highWater[s]
  PROVE  /\ last \in Nat
         /\ \A i \in EntrySequences(s) : i \in DOMAIN journal /\ journal[i].seq \in 1 .. last
         /\ \A i, j \in EntrySequences(s) : journal[i].seq = journal[j].seq => i = j
         /\ \A n \in 1 .. last : \E i \in EntrySequences(s) : journal[i].seq = n
<1>1. last \in Nat
  BY BoundAssumption DEF FactsInv, LedgerInv, LedgerTypeOK
<1>2. ASSUME NEW i \in EntrySequences(s)
      PROVE  /\ i \in DOMAIN journal /\ InTranscript(journal[i]) /\ SessionOf[journal[i].of] = s
             /\ journal[i].seq \in 1 .. last
  <2>1. /\ i \in DOMAIN journal /\ journal[i].table \in {"entry", "command"} /\ journal[i].seq > 0
        /\ SessionOf[journal[i].of] = s
    BY DEF EntrySequences
  <2>2. CASE journal[i].table = "entry"
    BY <2>1, <2>2, EntryTells DEF InTranscript
  <2>3. CASE journal[i].table = "command"
    <3>1. journal[i].kind \in TerminalCommandStates
      BY <2>1, <2>3, CommandTells
    <3> QED
      BY <2>1, <2>3, <3>1, CommandTells DEF InTranscript
  <2> QED
    BY <2>1, <2>2, <2>3
<1>3. ASSUME NEW i \in EntrySequences(s), NEW j \in EntrySequences(s), journal[i].seq = journal[j].seq
      PROVE  i = j
  <2>1. Exclusive(journal[i], journal[j])
    BY <1>2, <1>3 DEF Exclusive
  <2> QED
    BY <1>2, <2>1 DEF FactsInv, RowsInv, RowsFit
<1>4. ASSUME NEW n \in 1 .. last
      PROVE  \E i \in EntrySequences(s) : journal[i].seq = n
  <2>1. PICK i \in DOMAIN journal : IsPlace(i, s, n)
    BY DEF FactsInv, RowsAreComplete, TranscriptIsWhole
  <2>2. i \in EntrySequences(s) /\ journal[i].seq = n
    BY <2>1 DEF IsPlace, InTranscript, EntrySequences
  <2> QED
    BY <2>2
<1> QED
  BY <1>1, <1>2, <1>3, <1>4

LEMMA SameSizeAs ==
  ASSUME NEW S, NEW n \in Nat, NEW f \in Bijection(S, 1 .. n)
  PROVE  IsFiniteSet(S) /\ Cardinality(S) = n
<1>1. PICK first : first = 1
  OBVIOUS
<1>2. first \in Int /\ n \in Int /\ f \in Bijection(S, first .. n)
  BY <1>1
<1>3. IsFiniteSet(first .. n) /\ Cardinality(first .. n) = IF first > n THEN 0 ELSE n - first + 1
  BY <1>2, FS_Interval
<1>4. Cardinality(first .. n) = n
  BY <1>1, <1>3
<1>5. ExistsBijection(S, first .. n)
  BY <1>2 DEF ExistsBijection
<1>6. ExistsBijection(first .. n, S)
  BY <1>5, Fun_ExistsBijSymmetric
<1>7. PICK g : g \in Bijection(first .. n, S)
  BY <1>6 DEF ExistsBijection
<1> QED
  BY <1>3, <1>4, <1>7, FS_Bijection DEF ExistsBijection

\* The values of an injective function onto 1 .. n are 1 .. as many as it has arguments.
LEMMA ValuesHaveNoGap ==
  ASSUME NEW S, NEW n \in Nat, NEW f \in [S -> 1 .. n], \A x, y \in S : f[x] = f[y] => x = y,
         \A z \in 1 .. n : \E x \in S : f[x] = z
  PROVE  {f[x] : x \in S} = 1 .. Cardinality(S)
<1>1. f \in Bijection(S, 1 .. n)
  BY DEF Bijection, Injection, Surjection, IsInjective
<1>2. Cardinality(S) = n
  BY <1>1, SameSizeAs
<1>3. {f[x] : x \in S} = 1 .. n
  OBVIOUS
<1> QED
  BY <1>2, <1>3

LEMMA SessionFactsAreValid ==
  ASSUME FactsInv, NEW s \in Sessions
  PROVE  SessionFactsValid(s)
<1>1. PICK open : open = {r \in Runs : /\ SessionOf[r] = s
                                       /\ Accepted(r) # {}
                                       /\ Rows("state", r, TerminalRunStates) = {}}
  OBVIOUS
<1>2. ASSUME NEW r \in open
      PROVE  activeRun[s] = r
  <2>1. /\ r \in Runs /\ SessionOf[r] = s /\ Accepted(r) # {}
        /\ Rows("state", r, TerminalRunStates) = {}
    BY <1>1
  <2>2. runState[r] # "none"
    BY <2>1, AcceptedRun
  <2>3. runState[r] \notin TerminalRunStates
    <3>1. SUFFICES ASSUME runState[r] \in TerminalRunStates
                   PROVE  FALSE
      OBVIOUS
    <3>2. runState[r] \notin {"none", "accepted"}
      BY <3>1 DEF TerminalRunStates
    <3>3. IsWritten("state", r, 0, 0, runState[r])
      BY <2>1, <3>2 DEF FactsInv, RowsAreComplete, RunsAreWritten, RunIsWritten
    <3>4. PICK i \in DOMAIN journal : /\ journal[i].table = "state" /\ journal[i].of = r
                                      /\ journal[i].kind = runState[r]
      BY <3>3 DEF IsWritten
    <3>5. i \in Rows("state", r, TerminalRunStates)
      BY <3>1, <3>4 DEF Rows
    <3> QED
      BY <2>1, <3>5
  <2>4. runState[r] \in RunStates
    BY <2>1 DEF FactsInv, LedgerInv, LedgerTypeOK
  <2>5. IsLive(r)
    BY <2>2, <2>3, <2>4 DEF RunStates, IsLive
  <2> QED
    BY <2>1, <2>5 DEF FactsInv, LedgerInv, ActiveRunAgrees
<1>3. \A p, q \in open : p = q
  BY <1>2
<1>4. Cardinality(open) <= 1
  <2>1. Cardinality(open) \in {0, 1}
    BY <1>3, AtMostOne
  <2> QED
    BY <2>1
<1>5. PICK last : last = highWater[s]
  OBVIOUS
<1>6. PICK E : E = EntrySequences(s)
  OBVIOUS
<1>7. /\ last \in Nat
      /\ \A i \in E : journal[i].seq \in 1 .. last
      /\ \A i, j \in E : journal[i].seq = journal[j].seq => i = j
      /\ \A n \in 1 .. last : \E i \in E : journal[i].seq = n
  BY <1>5, <1>6, PlacesOfSession
<1>8. PICK f : f = [i \in E |-> journal[i].seq]
  OBVIOUS
<1>9. f \in [E -> 1 .. last] /\ \A i \in E : f[i] = journal[i].seq
  BY <1>7, <1>8
<1>10. {f[i] : i \in E} = 1 .. Cardinality(E)
  <2>1. \A x, y \in E : f[x] = f[y] => x = y
    BY <1>7, <1>9
  <2>2. \A z \in 1 .. last : \E x \in E : f[x] = z
    BY <1>7, <1>9
  <2> QED
    BY <1>7, <1>9, <2>1, <2>2, ValuesHaveNoGap
<1>11. {journal[i].seq : i \in E} = {f[i] : i \in E}
  BY <1>9
<1> QED
  BY <1>1, <1>4, <1>6, <1>10, <1>11 DEF SessionFactsValid

\* A fact of an operation has its row.
LEMMA OperationRow ==
  ASSUME FactsInv, NEW r \in Runs, NEW t \in Turns, NEW fact, fact \in providerFacts[<<r, t>>]
  PROVE  \E i \in DOMAIN journal :
           /\ journal[i].table = "provider" /\ journal[i].of = r /\ journal[i].turn = t
           /\ journal[i].call = 0 /\ journal[i].kind = fact
<1>1. IsWritten("provider", r, t, 0, fact)
  BY DEF FactsInv, RowsAreComplete, OperationsAreWritten
<1> QED
  BY <1>1 DEF IsWritten

LEMMA OperationFactsAreValid ==
  ASSUME FactsInv, NEW r \in Runs, NEW t \in Turns
  PROVE  OperationFactsValid(r, t)
<1>1. PICK facts : facts = RowsOf("provider", r, t, 0, ProviderFacts)
  OBVIOUS
<1>2. PICK prepared : prepared = OfKind(facts, {"prepared"})
  OBVIOUS
<1>3. PICK dispatched : dispatched = OfKind(facts, {"dispatched"})
  OBVIOUS
<1>4. PICK outcome : outcome = OfKind(facts, TerminalProviderFacts)
  OBVIOUS
<1>5. PICK ends : ends = Rows("state", r, TerminalRunStates)
  OBVIOUS
<1>6. /\ \A i \in facts : /\ i \in DOMAIN journal /\ journal[i].table = "provider"
                          /\ journal[i].of = r /\ journal[i].turn = t
      /\ \A i \in prepared : i \in facts /\ journal[i].kind = "prepared"
      /\ \A i \in dispatched : i \in facts /\ journal[i].kind = "dispatched"
      /\ \A i \in outcome : i \in facts /\ journal[i].kind \in TerminalProviderFacts
      /\ \A i \in ends : /\ i \in DOMAIN journal /\ journal[i].table = "state"
                         /\ journal[i].of = r /\ journal[i].kind \in TerminalRunStates
  BY <1>1, <1>2, <1>3, <1>4, <1>5 DEF OfKind, RowsOf, Rows
<1>7. /\ prepared \in SUBSET DOMAIN journal /\ dispatched \in SUBSET DOMAIN journal
      /\ outcome \in SUBSET DOMAIN journal /\ ends \in SUBSET DOMAIN journal
      /\ dispatched \cup outcome \in SUBSET DOMAIN journal
  BY <1>6
<1>8. "prepared" \notin TerminalProviderFacts /\ "prepared" \in ProviderFacts
  BY DEF TerminalProviderFacts, ProviderFacts
<1>9. ASSUME facts # {}
      PROVE  Cardinality(prepared) = 1
  <2>1. PICK i \in facts : TRUE
    BY <1>9
  <2>2. journal[i].kind \in providerFacts[<<r, t>>]
    BY <1>6, ProviderTells
  <2>3. "prepared" \in providerFacts[<<r, t>>]
    BY <2>2 DEF FactsInv, FactsShape, OperationShape
  <2>4. PICK j \in DOMAIN journal :
          /\ journal[j].table = "provider" /\ journal[j].of = r /\ journal[j].turn = t
          /\ journal[j].call = 0 /\ journal[j].kind = "prepared"
    BY <2>3, OperationRow
  <2>5. j \in prepared
    BY <1>1, <1>2, <1>8, <2>4 DEF OfKind, RowsOf, Rows
  <2>6. \A x, y \in prepared : Exclusive(journal[x], journal[y])
    BY <1>6 DEF Exclusive, SameOrBoth
  <2> QED
    BY <1>7, <2>5, <2>6, ExclusiveRows
<1>10. Cardinality(dispatched) <= 1 /\ Cardinality(outcome) <= 1
  <2>1. \A x, y \in dispatched : Exclusive(journal[x], journal[y])
    BY <1>6 DEF Exclusive, SameOrBoth
  <2>2. \A x, y \in outcome : Exclusive(journal[x], journal[y])
    BY <1>6 DEF Exclusive, SameOrBoth
  <2>3. Cardinality(dispatched) \in {0, 1} /\ Cardinality(outcome) \in {0, 1}
    BY <1>7, <2>1, <2>2, ExclusiveRows
  <2> QED
    BY <2>3
<1>11. Before(prepared, dispatched \cup outcome)
  <2>1. \A i \in prepared, j \in dispatched \cup outcome : MustPrecede(journal[i], journal[j])
    BY <1>6, <1>8 DEF MustPrecede
  <2> QED
    BY <1>7, <2>1, InOrder
<1>12. Before(dispatched, outcome)
  <2>1. \A i \in dispatched, j \in outcome : MustPrecede(journal[i], journal[j])
    BY <1>6 DEF MustPrecede
  <2> QED
    BY <1>7, <2>1, InOrder
<1>13. Before(outcome, ends)
  <2>1. \A i \in outcome, j \in ends : MustPrecede(journal[i], journal[j])
    BY <1>6 DEF MustPrecede
  <2> QED
    BY <1>7, <2>1, InOrder
<1> QED
  BY <1>1, <1>2, <1>3, <1>4, <1>5, <1>9, <1>10, <1>11, <1>12, <1>13 DEF OperationFactsValid

\* A set of naturals that holds all before each of its elements is 1 .. n.
LEMMA InitialSegment ==
  ASSUME NEW m \in Nat, NEW T \in SUBSET (1 .. m), \A t \in T : \A u \in 1 .. (t - 1) : u \in T
  PROVE  \E n \in Nat : T = 1 .. n
<1>1. PICK U : U = (1 .. m + 1) \ T
  OBVIOUS
<1>2. U \subseteq Nat /\ U # {}
  <2>1. m + 1 \in U
    BY <1>1
  <2> QED
    BY <1>1, <2>1
<1>3. PICK x \in U : \A y \in U : <<y, x>> \notin OpToRel(<, Nat)
  BY <1>2, NatLessThanWellFounded, WFMin
<1>4. \A y \in U : ~(y < x)
  BY <1>2, <1>3 DEF OpToRel
<1>5. x \in 1 .. m + 1 /\ x \notin T
  BY <1>1, <1>3
<1>6. ASSUME NEW t \in T
      PROVE  t \in 1 .. x - 1
  <2>1. t \in 1 .. m /\ t # x
    BY <1>5
  <2>2. ~(x < t)
    <3>1. x < t => x \in 1 .. (t - 1)
      BY <1>5, <2>1
    <3> QED
      BY <1>5, <3>1
  <2> QED
    BY <1>5, <2>1, <2>2
<1>7. ASSUME NEW y \in 1 .. x - 1
      PROVE  y \in T
  <2>1. y \in 1 .. m + 1 /\ y < x
    BY <1>5
  <2> QED
    BY <1>1, <1>4, <2>1
<1>8. PICK n : n = x - 1
  OBVIOUS
<1>9. n \in Nat
  BY <1>5, <1>8
<1>10. \A t \in T : t \in 1 .. n
  BY <1>6, <1>8
<1>11. \A y \in 1 .. n : y \in T
  BY <1>7, <1>8
<1>12. T = 1 .. n
  BY <1>10, <1>11
<1> QED
  BY <1>9, <1>12

LEMMA PreparedFactsAreValid ==
  ASSUME FactsInv, NEW r \in Runs
  PROVE  PreparedFactsValid(r)
<1>1. PICK prepared : prepared = Rows("provider", r, {"prepared"})
  OBVIOUS
<1>2. \A p \in prepared : /\ p \in DOMAIN journal /\ journal[p].table = "provider"
                          /\ journal[p].of = r /\ journal[p].kind = "prepared"
  BY <1>1 DEF Rows
<1>3. ASSUME NEW p \in prepared, NEW a \in Accepted(r)
      PROVE  journal[p].seq >= journal[a].seq
  <2>1. a \in DOMAIN journal /\ journal[a].table = "accepted" /\ journal[a].of = r
    BY DEF Accepted, Rows
  <2>2. ~Conflicts(journal[p], journal[a])
    BY <1>2, <2>1 DEF FactsInv, RowsInv, RowsFit
  <2>3. ~(journal[p].seq < journal[a].seq)
    BY <1>2, <2>1, <2>2 DEF Conflicts
  <2>4. journal[p].seq \in Nat /\ journal[a].seq \in Nat
    BY <1>2, <2>1, RowAt, RowFields
  <2> QED
    BY <2>3, <2>4
<1>4. ASSUME NEW p \in prepared
      PROVE  \E i \in DOMAIN journal : /\ i < p
                                       /\ journal[i].table = "entry"
                                       /\ SessionOf[journal[i].of] = SessionOf[r]
                                       /\ journal[i].seq = journal[p].seq
  <2>1. PICK i \in DOMAIN journal : /\ i < p /\ journal[i].table = "entry"
                                    /\ IsPlace(i, SessionOf[journal[p].of], journal[p].seq)
    BY <1>2 DEF FactsInv, RowsAreComplete, PreparedHaveSource
  <2> QED
    BY <1>2, <2>1 DEF IsPlace
<1>5. PICK T : T = {t \in Turns : providerFacts[<<r, t>>] # {}}
  OBVIOUS
<1>6. PICK n \in Nat : T = 1 .. n
  <2>1. MaxTurns \in Nat /\ T \in SUBSET (1 .. MaxTurns)
    BY <1>5, BoundAssumption DEF Turns
  <2>2. \A t \in T : \A u \in 1 .. (t - 1) : providerFacts[<<r, u>>] # {}
    BY <1>5 DEF FactsInv, FactsShape, OperationShape
  <2>3. \A t \in T : \A u \in 1 .. (t - 1) : u \in T
    <3> TAKE t \in T
    <3> TAKE u \in 1 .. (t - 1)
    <3>1. u \in Turns
      BY <2>1 DEF Turns
    <3> QED
      BY <1>5, <2>2, <3>1
  <2> QED
    BY <2>1, <2>3, InitialSegment
<1>7. PICK f : f = [p \in prepared |-> journal[p].turn]
  OBVIOUS
<1>8. f \in [prepared -> 1 .. n]
  <2>1. ASSUME NEW p \in prepared
        PROVE  journal[p].turn \in T
    <3>1. PICK t : t = journal[p].turn
      OBVIOUS
    <3>2. t \in Turns /\ journal[p].kind \in providerFacts[<<r, t>>]
      BY <1>2, <3>1, ProviderTells
    <3> QED
      BY <1>5, <3>1, <3>2
  <2> QED
    BY <1>6, <1>7, <2>1
<1>9. ASSUME NEW x \in prepared, NEW y \in prepared, f[x] = f[y]
      PROVE  x = y
  <2>1. journal[x].turn = journal[y].turn
    BY <1>7, <1>9
  <2>2. Exclusive(journal[x], journal[y])
    BY <1>2, <2>1 DEF Exclusive, SameOrBoth
  <2> QED
    BY <1>2, <2>2 DEF FactsInv, RowsInv, RowsFit
<1>10. ASSUME NEW z \in 1 .. n
       PROVE  \E x \in prepared : f[x] = z
  <2>1. z \in Turns /\ providerFacts[<<r, z>>] # {}
    BY <1>5, <1>6
  <2>2. "prepared" \in providerFacts[<<r, z>>]
    BY <2>1 DEF FactsInv, FactsShape, OperationShape
  <2>3. PICK i \in DOMAIN journal :
          /\ journal[i].table = "provider" /\ journal[i].of = r /\ journal[i].turn = z
          /\ journal[i].call = 0 /\ journal[i].kind = "prepared"
    BY <2>1, <2>2, OperationRow
  <2>4. i \in prepared
    BY <1>1, <2>3 DEF Rows
  <2> QED
    BY <1>7, <2>3, <2>4
<1>11. {f[p] : p \in prepared} = 1 .. Cardinality(prepared)
  BY <1>8, <1>9, <1>10, ValuesHaveNoGap
<1>12. {journal[p].turn : p \in prepared} = {f[p] : p \in prepared}
  BY <1>7
<1>13. {journal[p].turn : p \in prepared} = 1 .. Cardinality(prepared)
  BY <1>11, <1>12
<1> QED
  BY <1>1, <1>3, <1>4, <1>13 DEF PreparedFactsValid

\* A call of the ledger has its row and its entry, a fact of a tool its row, and a
\* settled tool its result.
LEMMA CallRow ==
  ASSUME FactsInv, NEW r \in Runs, NEW t \in Turns, NEW k \in Calls, IsCall(r, t, k),
         NEW kind, kind = toolCalls[<<r, t>>][k]
  PROVE  /\ \E i \in RowsOf("call", r, t, k, ToolKinds) : journal[i].kind = kind
         /\ RowsOf("entry", r, t, k, {"call"}) # {}
<1>1. IsWritten("call", r, t, k, kind) /\ IsWritten("entry", r, t, k, "call")
  BY DEF FactsInv, RowsAreComplete, CallsAreWritten
<1>2. PICK i \in DOMAIN journal :
        /\ journal[i].table = "call" /\ journal[i].of = r
        /\ journal[i].turn = t /\ journal[i].call = k /\ journal[i].kind = kind
  BY <1>1 DEF IsWritten
<1>3. PICK j \in DOMAIN journal :
        /\ journal[j].table = "entry" /\ journal[j].of = r
        /\ journal[j].turn = t /\ journal[j].call = k /\ journal[j].kind = "call"
  BY <1>1 DEF IsWritten
<1>4. journal[i].kind \in ToolKinds
  BY <1>2, RowAt DEF JournalRows, AcceptedRowType, EntryRowType, StateRowType, CancellationRowType,
                     ProviderRowType, CallRowType, ToolRowType, CommandRowType
<1>5. i \in RowsOf("call", r, t, k, ToolKinds) /\ j \in RowsOf("entry", r, t, k, {"call"})
  BY <1>2, <1>3, <1>4 DEF RowsOf, Rows
<1> QED
  BY <1>2, <1>5

LEMMA ToolRow ==
  ASSUME FactsInv, NEW r \in Runs, NEW t \in Turns, NEW k \in Calls
  PROVE  /\ \A fact \in toolFacts[<<r, t, k>>] :
              \E i \in DOMAIN journal :
                /\ journal[i].table = "tool" /\ journal[i].of = r
                /\ journal[i].turn = t /\ journal[i].call = k /\ journal[i].kind = fact
         /\ ToolSettled(r, t, k) => RowsOf("entry", r, t, k, {"result"}) # {}
<1>1. ASSUME NEW fact \in toolFacts[<<r, t, k>>]
      PROVE  \E i \in DOMAIN journal :
               /\ journal[i].table = "tool" /\ journal[i].of = r
               /\ journal[i].turn = t /\ journal[i].call = k /\ journal[i].kind = fact
  <2>1. IsWritten("tool", r, t, k, fact)
    BY DEF FactsInv, RowsAreComplete, ToolsAreWritten
  <2> QED
    BY <2>1 DEF IsWritten
<1>2. ASSUME ToolSettled(r, t, k)
      PROVE  RowsOf("entry", r, t, k, {"result"}) # {}
  <2>1. IsWritten("entry", r, t, k, "result")
    BY <1>2 DEF FactsInv, RowsAreComplete, ToolsAreWritten
  <2>2. PICK i \in DOMAIN journal :
          /\ journal[i].table = "entry" /\ journal[i].of = r
          /\ journal[i].turn = t /\ journal[i].call = k /\ journal[i].kind = "result"
    BY <2>1 DEF IsWritten
  <2>3. i \in RowsOf("entry", r, t, k, {"result"})
    BY <2>2 DEF RowsOf, Rows
  <2> QED
    BY <2>3
<1> QED
  BY <1>1, <1>2

\* The rows of one call of a tool, with the entry that tells of it.
LEMMA CallFactsAreValid ==
  ASSUME FactsInv, NEW r \in Runs, NEW t \in Turns, NEW k \in Calls
  PROVE  CallFactsValid(r, t, k)
<1>1. PICK call : call = RowsOf("call", r, t, k, ToolKinds)
  OBVIOUS
<1>2. PICK entry : entry = RowsOf("entry", r, t, k, {"call"})
  OBVIOUS
<1>3. PICK completed : completed = RowsOf("provider", r, t, 0, {"completed"})
  OBVIOUS
<1>4. PICK facts : facts = RowsOf("tool", r, t, k, ToolFacts)
  OBVIOUS
<1>5. PICK prepared : prepared = OfKind(facts, {"prepared"})
  OBVIOUS
<1>6. PICK dispatched : dispatched = OfKind(facts, {"dispatched"})
  OBVIOUS
<1>7. PICK terminal : terminal = OfKind(facts, TerminalToolFacts)
  OBVIOUS
<1>8. PICK accepted : accepted = Accepted(r)
  OBVIOUS
<1>9. /\ \A i \in call : /\ i \in DOMAIN journal /\ journal[i].table = "call" /\ journal[i].of = r
                         /\ journal[i].turn = t /\ journal[i].call = k
      /\ \A i \in entry : /\ i \in DOMAIN journal /\ journal[i].table = "entry" /\ journal[i].of = r
                          /\ journal[i].turn = t /\ journal[i].call = k /\ journal[i].kind = "call"
      /\ \A i \in completed : /\ i \in DOMAIN journal /\ journal[i].table = "provider"
                              /\ journal[i].of = r /\ journal[i].turn = t
                              /\ journal[i].kind = "completed"
      /\ \A i \in facts : /\ i \in DOMAIN journal /\ journal[i].table = "tool" /\ journal[i].of = r
                          /\ journal[i].turn = t /\ journal[i].call = k
      /\ \A i \in accepted : i \in DOMAIN journal /\ journal[i].table = "accepted" /\ journal[i].of = r
  BY <1>1, <1>2, <1>3, <1>4, <1>8 DEF Accepted, RowsOf, Rows
<1>10. /\ \A i \in prepared : i \in facts /\ journal[i].kind = "prepared"
       /\ \A i \in dispatched : i \in facts /\ journal[i].kind = "dispatched"
       /\ \A i \in terminal : i \in facts /\ journal[i].kind \in TerminalToolFacts
  BY <1>5, <1>6, <1>7 DEF OfKind
<1>11. /\ call \in SUBSET DOMAIN journal /\ entry \in SUBSET DOMAIN journal
       /\ completed \in SUBSET DOMAIN journal /\ facts \in SUBSET DOMAIN journal
       /\ prepared \in SUBSET DOMAIN journal /\ dispatched \in SUBSET DOMAIN journal
       /\ terminal \in SUBSET DOMAIN journal /\ dispatched \cup terminal \in SUBSET DOMAIN journal
       /\ accepted \in SUBSET DOMAIN journal
  BY <1>9, <1>10
<1>12. "prepared" \notin TerminalToolFacts /\ "prepared" \in ToolFacts
  BY DEF TerminalToolFacts, ToolFacts
<1>13. ASSUME NEW i \in facts
       PROVE  "prepared" \in toolFacts[<<r, t, k>>] /\ call # {}
  <2>0. /\ i \in DOMAIN journal /\ journal[i].table = "tool" /\ journal[i].of = r
        /\ journal[i].turn = t /\ journal[i].call = k
    BY <1>9
  <2>1. journal[i].kind \in toolFacts[<<r, t, k>>]
    BY <2>0, ToolTells
  <2>2. "prepared" \in toolFacts[<<r, t, k>>] /\ IsCall(r, t, k)
    BY <2>1 DEF FactsInv, FactsShape, ToolShape
  <2>3. PICK kind : kind = toolCalls[<<r, t>>][k]
    OBVIOUS
  <2>4. \E j \in RowsOf("call", r, t, k, ToolKinds) : journal[j].kind = kind
    BY <2>2, <2>3, CallRow
  <2> QED
    BY <1>1, <2>2, <2>4
<1>14. ASSUME NEW i \in call
       PROVE  Cardinality(completed) = 1 /\ Cardinality(entry) = 1
  <2>1. IsCall(r, t, k)
    BY <1>9, CallTells
  <2>2. PICK kind : kind = toolCalls[<<r, t>>][k]
    OBVIOUS
  <2>3. entry # {}
    BY <1>2, <2>1, <2>2, CallRow
  <2>4. Len(toolCalls[<<r, t>>]) # 0
    <3>1. k \in Nat /\ k # 0
      BY BoundAssumption DEF Calls
    <3>2. Len(toolCalls[<<r, t>>]) # 0
      BY <2>1, <3>1 DEF IsCall
    <3> QED
      BY <3>2
  <2>5. "completed" \in providerFacts[<<r, t>>]
    BY <2>4 DEF FactsInv, FactsShape, OperationShape
  <2>6. PICK j \in DOMAIN journal :
          /\ journal[j].table = "provider" /\ journal[j].of = r /\ journal[j].turn = t
          /\ journal[j].call = 0 /\ journal[j].kind = "completed"
    BY <2>5, OperationRow
  <2>7. completed # {}
    BY <1>3, <2>6 DEF RowsOf, Rows
  <2>8. \A x, y \in completed : Exclusive(journal[x], journal[y])
    BY <1>9 DEF Exclusive, SameOrBoth
  <2>9. \A x, y \in entry : Exclusive(journal[x], journal[y])
    BY <1>9 DEF Exclusive, SameCall
  <2>10. Cardinality(completed) = 1
    BY <1>11, <2>7, <2>8, ExclusiveRows
  <2> QED
    BY <1>11, <2>3, <2>9, <2>10, ExclusiveRows
<1>15. Before(accepted, call)
  <2>1. \A i \in accepted, j \in call : MustPrecede(journal[i], journal[j])
    BY <1>9 DEF MustPrecede
  <2> QED
    BY <1>11, <2>1, InOrder
<1>16. Before(completed, call)
  <2>1. \A i \in completed, j \in call : MustPrecede(journal[i], journal[j])
    BY <1>9 DEF MustPrecede
  <2> QED
    BY <1>11, <2>1, InOrder
<1>17. Before(call, entry)
  <2>1. \A i \in call, j \in entry : MustPrecede(journal[i], journal[j])
    BY <1>9 DEF MustPrecede, SameCall
  <2> QED
    BY <1>11, <2>1, InOrder
<1>18. Before(call, facts)
  <2>1. \A i \in call, j \in facts : MustPrecede(journal[i], journal[j])
    BY <1>9 DEF MustPrecede, SameCall
  <2> QED
    BY <1>11, <2>1, InOrder
<1>19. Cardinality(prepared) <= 1 /\ Cardinality(dispatched) <= Cardinality(prepared)
  <2>1. \A x, y \in prepared : Exclusive(journal[x], journal[y])
    BY <1>9, <1>10 DEF Exclusive, SameOrBoth, SameCall
  <2>2. \A x, y \in dispatched : Exclusive(journal[x], journal[y])
    BY <1>9, <1>10 DEF Exclusive, SameOrBoth, SameCall
  <2>3. ASSUME dispatched # {}
        PROVE  prepared # {}
    <3>1. "prepared" \in toolFacts[<<r, t, k>>]
      BY <1>10, <1>13, <2>3
    <3>2. PICK j \in DOMAIN journal :
            /\ journal[j].table = "tool" /\ journal[j].of = r
            /\ journal[j].turn = t /\ journal[j].call = k /\ journal[j].kind = "prepared"
      BY <3>1, ToolRow
    <3>3. j \in prepared
      BY <1>4, <1>5, <1>12, <3>2 DEF OfKind, RowsOf, Rows
    <3> QED
      BY <3>3
  <2>4. Cardinality(prepared) \in {0, 1} /\ (prepared # {} <=> Cardinality(prepared) = 1)
    BY <1>11, <2>1, ExclusiveRows
  <2>5. Cardinality(dispatched) \in {0, 1} /\ (dispatched # {} <=> Cardinality(dispatched) = 1)
    BY <1>11, <2>2, ExclusiveRows
  <2> QED
    BY <2>3, <2>4, <2>5
<1>20. Before(prepared, dispatched \cup terminal)
  <2>1. \A i \in prepared, j \in dispatched \cup terminal : MustPrecede(journal[i], journal[j])
    BY <1>9, <1>10, <1>12 DEF MustPrecede, SameCall
  <2> QED
    BY <1>11, <2>1, InOrder
<1>21. Before(dispatched, terminal)
  <2>1. \A i \in dispatched, j \in terminal : MustPrecede(journal[i], journal[j])
    BY <1>9, <1>10 DEF MustPrecede, SameCall
  <2> QED
    BY <1>11, <2>1, InOrder
<1>22. call = {} => facts = {}
  BY <1>13
<1>23. call # {} => Cardinality(completed) = 1 /\ Cardinality(entry) = 1
  BY <1>14
<1> QED
  BY <1>1, <1>2, <1>3, <1>4, <1>5, <1>6, <1>7, <1>8, <1>15, <1>16, <1>17, <1>18, <1>19, <1>20, <1>21,
     <1>22, <1>23 DEF CallFactsValid

LEMMA ToolResultsAreValid ==
  ASSUME FactsInv, NEW r \in Runs, NEW t \in Turns, NEW k \in Calls
  PROVE  ToolResultsValid(r, t, k)
<1>1. PICK terminal : terminal = RowsOf("tool", r, t, k, TerminalToolFacts)
  OBVIOUS
<1>2. PICK result : result = RowsOf("entry", r, t, k, {"result"})
  OBVIOUS
<1>3. /\ \A i \in terminal : /\ i \in DOMAIN journal /\ journal[i].table = "tool"
                             /\ journal[i].of = r /\ journal[i].turn = t /\ journal[i].call = k
                             /\ journal[i].kind \in TerminalToolFacts
      /\ \A i \in result : /\ i \in DOMAIN journal /\ journal[i].table = "entry"
                           /\ journal[i].of = r /\ journal[i].turn = t /\ journal[i].call = k
                           /\ journal[i].kind = "result"
  BY <1>1, <1>2 DEF RowsOf, Rows
<1>4. terminal \in SUBSET DOMAIN journal /\ result \in SUBSET DOMAIN journal
  BY <1>3
<1>5. ASSUME NEW i \in terminal
      PROVE  result # {}
  <2>0. /\ i \in DOMAIN journal /\ journal[i].table = "tool" /\ journal[i].of = r
        /\ journal[i].turn = t /\ journal[i].call = k
    BY <1>3
  <2>1. journal[i].kind \in toolFacts[<<r, t, k>>]
    BY <2>0, ToolTells
  <2>2. ToolSettled(r, t, k)
    BY <1>3, <2>1 DEF ToolSettled
  <2> QED
    BY <1>2, <2>2, ToolRow
<1>6. terminal # {} => Cardinality(result) = 1
  <2>1. \A x, y \in result : Exclusive(journal[x], journal[y])
    BY <1>3 DEF Exclusive, SameCall
  <2> QED
    BY <1>4, <1>5, <2>1, ExclusiveRows
<1>7. Before(terminal, result)
  <2>1. \A i \in terminal, j \in result : MustPrecede(journal[i], journal[j])
    BY <1>3 DEF MustPrecede, SameCall
  <2> QED
    BY <1>4, <2>1, InOrder
<1>8. ASSUME NEW i \in terminal, journal[i].kind = "uncertain"
      PROVE  \/ RowsOf("call", r, t, k, {"web"}) # {}
             \/ \E j \in Rows("state", r, {"uncertain"}) : j > i
  <2>0. /\ i \in DOMAIN journal /\ journal[i].table = "tool" /\ journal[i].of = r
        /\ journal[i].turn = t /\ journal[i].call = k
    BY <1>3
  <2>1. "uncertain" \in toolFacts[<<r, t, k>>]
    BY <1>8, <2>0, ToolTells
  <2>2. IsCall(r, t, k) /\ (toolCalls[<<r, t>>][k] = "web" \/ runState[r] = "uncertain")
    BY <2>1 DEF FactsInv, FactsShape, ToolShape
  <2>3. CASE toolCalls[<<r, t>>][k] = "web"
    <3>1. PICK kind : kind = toolCalls[<<r, t>>][k]
      OBVIOUS
    <3>2. PICK j \in RowsOf("call", r, t, k, ToolKinds) : journal[j].kind = kind
      BY <2>2, <3>1, CallRow
    <3>3. j \in RowsOf("call", r, t, k, {"web"})
      BY <2>3, <3>1, <3>2 DEF RowsOf, Rows
    <3> QED
      BY <3>3
  <2>4. CASE runState[r] = "uncertain"
    <3>1. IsWritten("state", r, 0, 0, "uncertain")
      BY <2>4 DEF FactsInv, RowsAreComplete, RunsAreWritten, RunIsWritten
    <3>2. PICK j \in DOMAIN journal : /\ journal[j].table = "state" /\ journal[j].of = r
                                      /\ journal[j].kind = "uncertain"
      BY <3>1 DEF IsWritten
    <3>3. PICK e \in result : TRUE
      BY <1>5
    <3>4. "uncertain" \in TerminalRunStates
      BY DEF TerminalRunStates
    <3>5. MustPrecede(journal[e], journal[j])
      BY <1>3, <3>2, <3>4 DEF MustPrecede
    <3>6. i < e
      BY <1>7 DEF Before
    <3>7. e < j
      BY <1>3, <3>2, <3>5 DEF FactsInv, RowsInv, RowsFit
    <3>8. i \in Nat /\ e \in Nat /\ j \in Nat
      BY <1>3, <3>2, RowAt
    <3>9. j > i
      BY <3>6, <3>7, <3>8
    <3>10. j \in Rows("state", r, {"uncertain"})
      BY <3>2 DEF Rows
    <3> QED
      BY <3>9, <3>10
  <2> QED
    BY <2>2, <2>3, <2>4
<1>9. \A i \in OfKind(terminal, {"uncertain"}) : i \in terminal /\ journal[i].kind = "uncertain"
  BY DEF OfKind
<1> QED
  BY <1>1, <1>2, <1>6, <1>7, <1>8, <1>9 DEF ToolResultsValid

LEMMA CommandFactsAreValid ==
  ASSUME FactsInv, NEW c \in Commands
  PROVE  CommandFactsValid(c)
<1>1. PICK ended : ended = Rows("command", c, TerminalCommandStates)
  OBVIOUS
<1>2. PICK others : others = Rows("command", c, LiveCommandStates \cup {"cancelled"})
  OBVIOUS
<1>3. /\ \A i \in ended : /\ i \in DOMAIN journal /\ journal[i].table = "command"
                          /\ journal[i].of = c /\ journal[i].kind \in TerminalCommandStates
      /\ \A i \in others : /\ i \in DOMAIN journal /\ journal[i].table = "command"
                           /\ journal[i].of = c /\ journal[i].kind \in CommandKinds
  BY <1>1, <1>2 DEF Rows, CommandKinds
<1>4. ended \in SUBSET DOMAIN journal /\ others \in SUBSET DOMAIN journal
  BY <1>3
<1>5. Cardinality(ended) <= 1
  <2>1. \A i, j \in ended : Exclusive(journal[i], journal[j])
    BY <1>3 DEF Exclusive
  <2>2. Cardinality(ended) \in {0, 1}
    BY <1>4, <2>1, ExclusiveRows
  <2> QED
    BY <2>2
<1>6. \A i \in ended : journal[i].seq > 0
  <2> TAKE i \in ended
  <2>1. journal[i].seq \in 1 .. highWater[SessionOf[c]]
    BY <1>3, CommandTells
  <2>2. PICK n : n = journal[i].seq
    OBVIOUS
  <2>3. PICK last \in Nat : last = highWater[SessionOf[c]]
    BY SessionOfAssumption, BoundAssumption DEF FactsInv, LedgerInv, LedgerTypeOK
  <2>4. n \in 1 .. last
    BY <2>1, <2>2, <2>3
  <2>5. n > 0
    BY <2>3, <2>4
  <2> QED
    BY <2>2, <2>5
<1>7. Before(others, ended)
  <2>1. \A i \in others, j \in ended : MustPrecede(journal[i], journal[j])
    BY <1>3 DEF MustPrecede
  <2> QED
    BY <1>4, <2>1, InOrder
<1> QED
  BY <1>1, <1>2, <1>5, <1>6, <1>7 DEF CommandFactsValid
--------------------------------------------------------------------------------
(* What the next start makes of the rows. *)

\* The last state row of a run carries the state of the run.
LEMMA StateIsRebuilt ==
  ASSUME FactsInv, NEW r \in Runs
  PROVE  RebuiltState(r) = runState[r]
<1>1. PICK states : states = Rows("state", r, RunStates)
  OBVIOUS
<1>2. \A i \in states : i \in DOMAIN journal /\ journal[i].table = "state" /\ journal[i].of = r
  BY <1>1 DEF Rows
<1>3. runState[r] \in RunStates
  BY DEF FactsInv, LedgerInv, LedgerTypeOK
<1>4. CASE runState[r] = "none"
  <2>1. Accepted(r) = {}
    BY <1>4, AcceptedRun
  <2> QED
    BY <1>4, <2>1 DEF RebuiltState
<1>5. CASE runState[r] = "accepted"
  <2>1. Accepted(r) # {}
    BY <1>5, AcceptedRun
  <2>2. states = {}
    BY <1>2, <1>5, StateTells
  <2> QED
    BY <1>1, <1>5, <2>1, <2>2 DEF RebuiltState
<1>6. CASE runState[r] \notin {"none", "accepted"}
  <2>1. Accepted(r) # {}
    BY <1>6, AcceptedRun
  <2>2. IsWritten("state", r, 0, 0, runState[r])
    BY <1>6 DEF FactsInv, RowsAreComplete, RunsAreWritten, RunIsWritten
  <2>3. PICK last \in DOMAIN journal : /\ journal[last].table = "state" /\ journal[last].of = r
                                       /\ journal[last].kind = runState[r]
    BY <2>2 DEF IsWritten
  <2>4. last \in states
    BY <1>1, <1>3, <2>3 DEF Rows
  <2>5. \A i \in states : i \in Nat
    BY <1>2, RowAt
  <2>6. ASSUME NEW j \in states
        PROVE  j <= last
    <3>1. /\ journal[j].kind \in {"active"} \cup TerminalRunStates
          /\ journal[j].kind \in TerminalRunStates => runState[r] = journal[j].kind
      BY <1>2, StateTells
    <3>2. journal[last].kind \in {"active"} \cup TerminalRunStates
      BY <2>3, StateTells
    <3>3. CASE journal[j].kind = journal[last].kind
      <4>1. Exclusive(journal[j], journal[last])
        BY <1>2, <2>3, <3>3 DEF Exclusive, SameOrBoth
      <4>2. j = last
        BY <1>2, <2>3, <4>1 DEF FactsInv, RowsInv, RowsFit
      <4> QED
        BY <2>4, <2>5, <4>2
    <3>4. CASE journal[j].kind # journal[last].kind
      <4>1. journal[j].kind = "active" /\ journal[last].kind \in TerminalRunStates
        BY <2>3, <3>1, <3>2, <3>4
      <4>2. MustPrecede(journal[j], journal[last])
        BY <1>2, <2>3, <4>1 DEF MustPrecede
      <4>3. j < last
        BY <1>2, <2>3, <4>2 DEF FactsInv, RowsInv, RowsFit
      <4> QED
        BY <2>4, <2>5, <4>3
    <3> QED
      BY <3>3, <3>4
  <2>7. ASSUME NEW i \in states, \A j \in states : j <= i
        PROVE  i = last
    BY <2>4, <2>5, <2>6, <2>7
  <2>8. LatestRow(states) = last
    BY <2>4, <2>6, <2>7 DEF LatestRow
  <2>9. states # {}
    BY <2>4
  <2> QED
    BY <1>1, <2>1, <2>3, <2>8, <2>9 DEF RebuiltState
<1> QED
  BY <1>4, <1>5, <1>6

LEMMA RunIsRebuilt ==
  ASSUME FactsInv, NEW r \in Runs
  PROVE  RebuiltRun(r) = [state |-> runState[r], cancelled |-> cancelRequested[r],
                          counts |-> counters[r]]
<1>1. RebuiltState(r) = runState[r]
  BY StateIsRebuilt
<1>2. PICK applied : applied = Rows("cancellation", r, {"applied"})
  OBVIOUS
<1>3. ASSUME NEW i \in applied
      PROVE  cancelRequested[r]
  <2>1. /\ i \in DOMAIN journal /\ journal[i].table = "cancellation"
        /\ journal[i].of = r /\ journal[i].kind = "applied"
    BY <1>2 DEF Rows
  <2>2. Backed(journal[i])
    BY <2>1, RowAt
  <2> QED
    BY <2>1, <2>2 DEF Backed
<1>4. ASSUME cancelRequested[r]
      PROVE  applied # {}
  <2>1. IsWritten("cancellation", r, 0, 0, "applied")
    BY <1>4 DEF FactsInv, RowsAreComplete, RunsAreWritten, RunIsWritten
  <2>2. PICK i \in DOMAIN journal : /\ journal[i].table = "cancellation" /\ journal[i].of = r
                                    /\ journal[i].kind = "applied"
    BY <2>1 DEF IsWritten
  <2>3. i \in applied
    BY <1>2, <2>2 DEF Rows
  <2> QED
    BY <2>3
<1>5. cancelRequested[r] \in BOOLEAN
  BY DEF FactsInv, LedgerInv, LedgerTypeOK
<1>6. (applied # {}) = cancelRequested[r]
  BY <1>3, <1>4, <1>5
<1>7. RebuiltCounts(r) = counters[r]
  BY DEF FactsInv, RowsAreComplete, CountersAgree
<1> QED
  BY <1>1, <1>2, <1>6, <1>7 DEF RebuiltRun

LEMMA HighWaterIsRebuilt ==
  ASSUME FactsInv, NEW s \in Sessions
  PROVE  highWater[s] = RebuiltHighWater(s)
<1>1. PICK last : last = highWater[s]
  OBVIOUS
<1>2. PICK E : E = EntrySequences(s)
  OBVIOUS
<1>3. /\ last \in Nat
      /\ \A i \in E : journal[i].seq \in 1 .. last
      /\ \A n \in 1 .. last : \E i \in E : journal[i].seq = n
  BY <1>1, <1>2, PlacesOfSession
<1>4. PICK places : places = {journal[i].seq : i \in E}
  OBVIOUS
<1>5. CASE last = 0
  <2>1. E = {}
    BY <1>3, <1>5
  <2> QED
    BY <1>1, <1>2, <1>5, <2>1 DEF RebuiltHighWater
<1>6. CASE last # 0
  <2>1. last \in 1 .. last
    BY <1>3, <1>6
  <2>2. PICK e \in E : journal[e].seq = last
    BY <1>3, <2>1
  <2>3. last \in places
    BY <1>4, <2>2
  <2>4. \A i \in E : journal[i].seq <= last
    BY <1>3
  <2>5. ASSUME NEW n \in places, \A i \in E : journal[i].seq <= n
        PROVE  n = last
    <3>1. n \in 1 .. last
      BY <1>3, <1>4
    <3>2. last <= n
      BY <2>2, <2>5
    <3> QED
      BY <1>3, <3>1, <3>2
  <2>6. (CHOOSE n \in places : \A i \in E : journal[i].seq <= n) = last
    BY <2>3, <2>4, <2>5
  <2>7. E # {}
    BY <2>2
  <2> QED
    BY <1>1, <1>2, <1>4, <2>6, <2>7 DEF RebuiltHighWater
<1> QED
  BY <1>5, <1>6

LEMMA ActiveRunIsRebuilt ==
  ASSUME FactsInv, NEW s \in Sessions
  PROVE  RebuiltActiveRuns(s) = {activeRun[s]} \ {NoRun}
<1>1. activeRun[s] \in Runs \cup {NoRun} /\ NoRun \notin Runs
  BY SessionOfAssumption DEF FactsInv, LedgerInv, LedgerTypeOK
<1>2. \A r \in Runs : activeRun[s] = r <=> SessionOf[r] = s /\ IsLive(r)
  BY DEF FactsInv, LedgerInv, ActiveRunAgrees
<1>3. \A r \in Runs : RebuiltState(r) \in LiveRunStates <=> IsLive(r)
  BY StateIsRebuilt DEF IsLive
<1>4. RebuiltActiveRuns(s) = {r \in Runs : activeRun[s] = r}
  BY <1>2, <1>3 DEF RebuiltActiveRuns
<1> QED
  BY <1>1, <1>4

LEMMA FactsPassValidation ==
  ASSUME FactsInv
  PROVE  LedgerPassesValidation
<1>1. RegistryValid /\ AuditsValid
  BY DEF FactsInv, RowsInv
<1>2. \A s \in Sessions : SessionFactsValid(s)
  BY SessionFactsAreValid
<1>3. \A c \in Commands : CommandFactsValid(c)
  BY CommandFactsAreValid
<1>4. \A r \in Runs : RequestsValid(r)
  BY RequestsAreValid
<1>5. \A r \in Runs : Accepted(r) # {} => RunFactsValid(r)
  BY RunFactsAreValid
<1>6. \A r \in Runs : PreparedFactsValid(r)
  BY PreparedFactsAreValid
<1>7. \A r \in Runs, t \in Turns : OperationFactsValid(r, t)
  BY OperationFactsAreValid
<1>8. \A r \in Runs, t \in Turns, k \in Calls : CallFactsValid(r, t, k) /\ ToolResultsValid(r, t, k)
  BY CallFactsAreValid, ToolResultsAreValid
<1> QED
  BY <1>1, <1>2, <1>3, <1>4, <1>5, <1>6, <1>7, <1>8 DEF LedgerPassesValidation, CanonicalFactsValid

\* No legal history of transactions leaves rows that the validators of the next
\* start refuse (projections.rs, the validate_* functions repair calls).
THEOREM ValidationTheorem == FactsSpec => []LedgerPassesValidation
<1>1. FactsInv => LedgerPassesValidation
  BY FactsPassValidation
<1> QED
  BY <1>1, FactsTheorem, PTL

LEMMA FactsRebuildProjections ==
  ASSUME FactsInv
  PROVE  ProjectionsAreRebuildable
<1>1. \A r \in Runs : RebuiltRun(r) = [state |-> runState[r], cancelled |-> cancelRequested[r],
                                       counts |-> counters[r]]
  BY RunIsRebuilt
<1>2. \A s \in Sessions : highWater[s] = RebuiltHighWater(s)
  BY HighWaterIsRebuilt
<1>3. \A s \in Sessions : RebuiltActiveRuns(s) = {activeRun[s]} \ {NoRun}
  BY ActiveRunIsRebuilt
<1>4. deliveries = RebuiltDeliveries
  BY DEF FactsInv, RowsInv, DeliveriesAgree
<1> QED
  BY <1>1, <1>2, <1>3, <1>4 DEF ProjectionsAreRebuildable

\* What the transactions kept in runs, session_run_states and delivery_events is
\* what rebuild derives from the rows at the next start.
THEOREM ProjectionsTheorem == FactsSpec => []ProjectionsAreRebuildable
<1>1. FactsInv => ProjectionsAreRebuildable
  BY FactsRebuildProjections
<1> QED
  BY <1>1, FactsTheorem, PTL

\* Writing rows beside the ledger lets it do nothing it would not do without: the
\* theorems about LedgerSpec hold of the ledger with its rows.
THEOREM FactsKeepLedger == FactsSpec => LedgerSpec
<1>1. FactsInit => LedgerInit
  BY DEF FactsInit
<1>2. [FactsNext]_factVars => [LedgerNext]_ledgerVars
  BY FactsStepIsLedgerStep
<1> QED
  BY <1>1, <1>2, PTL DEF FactsSpec, LedgerSpec
================================================================================

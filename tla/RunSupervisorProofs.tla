-------------------------- MODULE RunSupervisorProofs --------------------------
(***************************************************************************)
(* Theorems about RunSupervisor, for every number of sessions, runs,       *)
(* permits, turns, calls, entries, starts and storage failures.            *)
(***************************************************************************)
EXTENDS RunSupervisor, LedgerProofs, FiniteSetTheorems

--------------------------------------------------------------------------------
(* The inductive invariant. *)

LocalType ==
  [turn : 0..MaxTurns, call : Nat, source : Nat, mustCompact : BOOLEAN, compactions : Nat,
   binding : SUBSET Services, route : WebRoutes \cup {"none"}]

SearchStates == {"none", "attempted", "succeeded"}

\* What a process holds in memory has its types.
SupervisorTypeOK ==
  /\ server \in ServerStages
  /\ starts \in Nat /\ faults \in Nat
  /\ admission \in BOOLEAN /\ stopping \in BOOLEAN
  /\ lifecycle \in Runs \cup {NoRun}
  /\ handler \in [Runs -> {"idle", "reserved", "accepted", "refused"}]
  /\ signalling \in [Runs -> BOOLEAN]
  /\ permits \subseteq Runs /\ controls \subseteq Runs /\ signalled \subseteq Runs
  /\ task \in [Runs -> TaskStages]
  /\ local \in [Runs -> LocalType]
  /\ searches \in [Runs \X Turns \X Calls -> SearchStates]

\* What the ledger promises of the operations and calls of a run, whoever its
\* callers are: facts begin with "prepared", and calls come from a completed turn.
LedgerShape ==
  \A r \in Runs, t \in Turns :
    /\ runState[r] \in {"none", "accepted"} => providerFacts[<<r, t>>] = {}
    /\ providerFacts[<<r, t>>] # {} => "prepared" \in providerFacts[<<r, t>>]
    /\ Len(toolCalls[<<r, t>>]) <= MaxCalls
    /\ Len(toolCalls[<<r, t>>]) # 0 => "completed" \in providerFacts[<<r, t>>]
    /\ \A k \in Calls : toolFacts[<<r, t, k>>] # {} =>
         "prepared" \in toolFacts[<<r, t, k>>] /\ IsCall(r, t, k)

\* The operations the run has prepared are the first n.
TurnsAre(r, n) == \A u \in Turns : providerFacts[<<r, u>>] # {} <=> u <= n

AllSettled(r) == \A t \in Turns, k \in Calls : ~Unsettled(r, t, k)

\* Only calls that nobody has begun are left.
NothingBegun(r) ==
  \A t \in Turns, k \in Calls : Unsettled(r, t, k) => toolFacts[<<r, t, k>>] = {}

\* The task is between two provider operations.
BetweenTurns(r) ==
  /\ runState[r] = "active"
  /\ Quiet(r)
  /\ local[r].turn < MaxTurns
  /\ TurnsAre(r, local[r].turn)
  /\ AllSettled(r)

\* The task holds the operation it prepared last.
AtOperation(r) ==
  /\ runState[r] = "active"
  /\ local[r].turn \in Turns
  /\ ProviderPending(r, local[r].turn)
  /\ TurnsAre(r, local[r].turn)
  /\ AllSettled(r)

\* The task works through the calls of its turn and has come to the k-th.
InBatch(r, k) ==
  /\ runState[r] = "active"
  /\ Quiet(r)
  /\ local[r].turn \in Turns /\ local[r].turn < MaxTurns
  /\ TurnsAre(r, local[r].turn)
  /\ k # 0
  /\ \A t \in Turns, j \in Calls : Unsettled(r, t, j) => t = local[r].turn /\ k <= j
  /\ \A j \in Calls : k < j => toolFacts[<<r, local[r].turn, j>>] = {}

CallIs(r, facts) ==
  LET t == local[r].turn k == local[r].call IN
  k \in Calls /\ IsCall(r, t, k) /\ toolFacts[<<r, t, k>>] = facts

\* The stages of a call that was given to its tool, and those of a batch.
DispatchedStages == {"web_admit", "web_dispatch", "web_succeeded", "tool_execute"}
BatchStages == {"tools", "tool_prepared"} \cup DispatchedStages

\* What the ledger, and the rows of its searches, say of a run when its task is at
\* a stage.
StageAgrees(r) ==
  /\ task[r] = "none" => local[r] = NewTask
  /\ task[r] = "activate" => runState[r] = "accepted" /\ local[r] = NewTask
  /\ task[r] \in {"boundary", "compact"} => BetweenTurns(r)
  /\ task[r] = "prepare" => BetweenTurns(r) /\ local[r].source = highWater[SessionOf[r]]
  /\ task[r] \in {"prepared", "dispatch", "execute"} => AtOperation(r)
  /\ task[r] \in {"prepared", "dispatch"} =>
       "dispatched" \notin providerFacts[<<r, local[r].turn>>]
  /\ task[r] = "execute" => "dispatched" \in providerFacts[<<r, local[r].turn>>]
  /\ task[r] \in {"tools", "tool_prepared", "web_admit", "web_dispatch", "web_succeeded",
                 "tool_execute"} => InBatch(r, local[r].call)
  /\ task[r] = "tools" =>
       \A k \in Calls : k = local[r].call => toolFacts[<<r, local[r].turn, k>>] = {}
  /\ task[r] = "tool_prepared" => CallIs(r, {"prepared"})
  /\ task[r] \in {"web_admit", "web_dispatch", "web_succeeded", "tool_execute"} =>
       CallIs(r, {"prepared", "dispatched"})
  /\ task[r] \in {"web_admit", "web_dispatch"} =>
       CallKind(r) = "web" /\ searches[TaskCall(r)] = "none"
  /\ task[r] = "tool_execute" => (CallKind(r) = "web" => searches[TaskCall(r)] = "attempted")
  /\ task[r] = "web_succeeded" => searches[TaskCall(r)] = "succeeded"
  /\ task[r] = "tool_stop" => runState[r] = "active" /\ Quiet(r) /\ NothingBegun(r)
  /\ task[r] = "exit" =>
       runState[r] \in TerminalRunStates /\ Quiet(r) /\ NothingBegun(r)
  /\ task[r] = "error" =>
       /\ IsLive(r)
       /\ \/ TranscriptFull(SessionOf[r])
          \/ local[r].route = "ExaPolicyDenied" /\ SearchNotAdmitted(r)
  /\ task[r] = "fault" => faults > 0

\* Whose a run is: no one's, its handler's or its task's.
Ownership(r) ==
  /\ handler[r] = "reserved" <=> lifecycle = r
  /\ handler[r] = "reserved" => runState[r] = "none"
  /\ handler[r] \in {"accepted", "refused"} => runState[r] = "accepted"
  /\ handler[r] = "refused" => stopping
  /\ Running(r) => handler[r] = "idle" /\ runState[r] # "none"
  /\ r \in permits <=> handler[r] \in {"reserved", "accepted"} \/ Running(r)
  /\ r \in controls <=> Running(r)
  /\ r \in signalled => Running(r)

\* A process that is not up has nothing in memory.
MemoryNeedsProcess ==
  ~Up =>
    /\ ~stopping
    /\ permits = {}
    /\ \A r \in Runs : handler[r] = "idle" /\ task[r] = "none"

\* The stages of shutdown after the first are reached with the flag set.
ShutdownIsStopping ==
  server \in {"cancelling", "draining", "joined", "aborted"} => stopping

\* The calls of a run are open only between its operations.
CallsBetweenTurns ==
  \A r \in Runs, t \in Turns, k \in Calls : Unsettled(r, t, k) => Quiet(r)

\* What recovery has done at each of its stages, and what a server then keeps: of a
\* run without a task, nothing is open unless the server is stopping.
RecoveredSoFar ==
  /\ server \in {"recover_steering", "recover_runs"} => \A r \in Runs : AllSettled(r)
  /\ Up /\ ~stopping => \A r \in Runs : ~Running(r) => Quiet(r) /\ NothingBegun(r)

\* A search has rows only once its call was given to a tool.
SearchesFollowDispatch ==
  \A r \in Runs, t \in Turns, k \in Calls :
    searches[<<r, t, k>>] # "none" => "dispatched" \in toolFacts[<<r, t, k>>]

PermitsBounded == IsFiniteSet(permits) /\ Cardinality(permits) <= MaxConcurrentRuns

RefusalHasCause ==
  server = "refused" =>
    \E r \in Runs, t \in Turns, k \in Calls :
      Unsettled(r, t, k) /\ (~IsLive(r) \/ TranscriptFull(SessionOf[r]))

SupervisorInv ==
  /\ LedgerInv
  /\ LedgerShape
  /\ SupervisorTypeOK
  /\ \A r \in Runs : StageAgrees(r) /\ Ownership(r)
  /\ MemoryNeedsProcess
  /\ ShutdownIsStopping
  /\ CallsBetweenTurns
  /\ RecoveredSoFar
  /\ PermitsBounded
  /\ RefusalHasCause
  /\ LiveRunHasOwner
  /\ SearchesFollowDispatch

--------------------------------------------------------------------------------
(* What a transaction of a run leaves alone. *)

\* The rows of run q, its cancellation flag apart, are as they were.
RowKept(q) ==
  /\ runState'[q] = runState[q]
  /\ \A t \in Turns :
       /\ providerFacts'[<<q, t>>] = providerFacts[<<q, t>>]
       /\ toolCalls'[<<q, t>>] = toolCalls[<<q, t>>]
       /\ \A k \in Calls : toolFacts'[<<q, t, k>>] = toolFacts[<<q, t, k>>]

\* A transaction of run r alone: transcripts only grow, and only the run's own.
RunTransaction(r) ==
  /\ \A q \in Runs \ {r} : RowKept(q)
  /\ \A s \in Sessions : highWater'[s] >= highWater[s]
  /\ \A s \in Sessions \ {SessionOf[r]} : highWater'[s] = highWater[s]
  /\ UNCHANGED highWater \/ IsLive(r) \/ activeRun[SessionOf[r]] = NoRun

\* Entries appended to the run's session.
LEMMA AppendGrows ==
  ASSUME LedgerTypeOK, NEW r \in Runs, NEW n \in Nat, AppendEntries(SessionOf[r], n)
  PROVE  /\ \A s \in Sessions : highWater'[s] >= highWater[s]
         /\ \A s \in Sessions \ {SessionOf[r]} : highWater'[s] = highWater[s]
  BY SessionOfAssumption, BoundAssumption DEF AppendEntries, LedgerTypeOK

\* The three tables a run's rows are in, each changed at most for the run.
LEMMA RowsOfOthers ==
  ASSUME LedgerTypeOK, NEW r \in Runs,
         UNCHANGED runState \/ \E v : runState' = [runState EXCEPT ![r] = v],
         UNCHANGED providerFacts
           \/ \E t \in Turns : \E v : providerFacts' = [providerFacts EXCEPT ![<<r, t>>] = v],
         UNCHANGED toolCalls \/ \E t \in Turns : \E v : toolCalls' = [toolCalls EXCEPT ![<<r, t>>] = v],
         UNCHANGED toolFacts
           \/ \E t \in Turns, k \in Calls : \E v : toolFacts' = [toolFacts EXCEPT ![<<r, t, k>>] = v]
  PROVE  \A q \in Runs \ {r} : RowKept(q)
  <1> SUFFICES ASSUME NEW q \in Runs, q # r PROVE RowKept(q)
    OBVIOUS
  <1>1. runState'[q] = runState[q]
    BY DEF LedgerTypeOK
  <1>2. ASSUME NEW t \in Turns PROVE providerFacts'[<<q, t>>] = providerFacts[<<q, t>>]
    BY DEF LedgerTypeOK
  <1>3. ASSUME NEW t \in Turns PROVE toolCalls'[<<q, t>>] = toolCalls[<<q, t>>]
    BY DEF LedgerTypeOK
  <1>4. ASSUME NEW t \in Turns, NEW k \in Calls
        PROVE  toolFacts'[<<q, t, k>>] = toolFacts[<<q, t, k>>]
    BY DEF LedgerTypeOK
  <1> QED
    BY <1>1, <1>2, <1>3, <1>4 DEF RowKept

\* The steps of a run that involve no operation.
LEMMA RunStepIsLocal ==
  ASSUME LedgerTypeOK, NEW r \in Runs, RunStep(r)
  PROVE  RunTransaction(r)
  <1>1. UNCHANGED <<providerFacts, toolCalls, toolFacts>>
    BY DEF RunStep, AcceptSessionInput, CancelRun, ActivateRun, FinishRun, providerVars, toolVars
  <1>2. UNCHANGED runState \/ \E v : runState' = [runState EXCEPT ![r] = v]
    BY DEF RunStep, AcceptSessionInput, CancelRun, ActivateRun, FinishRun, AppendRunTransition
  <1>3. \A q \in Runs \ {r} : RowKept(q)
    BY <1>1, <1>2, RowsOfOthers
  <1>4. CASE AcceptSessionInput(r)
    BY <1>3, <1>4, AppendGrows DEF AcceptSessionInput, CanAcceptInput, RunTransaction
  <1>5. CASE UNCHANGED highWater
    BY <1>3, <1>5 DEF RunTransaction, LedgerTypeOK
  <1> QED
    BY <1>4, <1>5 DEF RunStep, CancelRun, ActivateRun, FinishRun

\* The steps of a provider operation.
LEMMA ProviderStepIsLocal ==
  ASSUME LedgerTypeOK, NEW r \in Runs, NEW t \in Turns, ProviderStep(r, t)
  PROVE  RunTransaction(r)
  <1>0. t # 0
    BY DEF Turns
  <1>1. UNCHANGED toolFacts
    BY DEF ProviderStep, PrepareProviderOperation, MarkProviderDispatched, CompleteRunSuccess,
           CompleteProviderToolTurn, SettleContextRejection, FinishRun, toolVars
  <1>2. UNCHANGED toolCalls \/ \E v : toolCalls' = [toolCalls EXCEPT ![<<r, t>>] = v]
    BY DEF ProviderStep, PrepareProviderOperation, MarkProviderDispatched, CompleteRunSuccess,
           CompleteProviderToolTurn, SettleContextRejection, FinishRun, toolVars
  <1>3. UNCHANGED providerFacts \/ \E v : providerFacts' = [providerFacts EXCEPT ![<<r, t>>] = v]
    BY <1>0
    DEF ProviderStep, PrepareProviderOperation, MarkProviderDispatched, CompleteRunSuccess,
        CompleteProviderToolTurn, SettleContextRejection, FinishRun, AddProviderFact, providerVars
  <1>4. UNCHANGED runState \/ \E v : runState' = [runState EXCEPT ![r] = v]
    BY DEF ProviderStep, PrepareProviderOperation, MarkProviderDispatched, CompleteRunSuccess,
           CompleteProviderToolTurn, SettleContextRejection, FinishRun, AppendRunTransition, runVars
  <1>5. \A q \in Runs \ {r} : RowKept(q)
    BY <1>1, <1>2, <1>3, <1>4, RowsOfOthers
  <1>6. CASE UNCHANGED highWater
    BY <1>5, <1>6 DEF RunTransaction, LedgerTypeOK
  <1>7. CASE CompleteRunSuccess(r, t)
    BY <1>5, <1>6, <1>7, AppendGrows DEF CompleteRunSuccess, RunTransaction, IsLive, LiveRunStates
  <1>8. ASSUME NEW calls \in CallBatches, NEW commentary \in {0, 1},
               CompleteProviderToolTurn(r, t, calls, commentary)
        PROVE  RunTransaction(r)
    <2>1. Len(calls) + commentary \in Nat
      BY DEF CallBatches, Calls
    <2> QED
      BY <1>5, <1>8, <2>1, AppendGrows
      DEF CompleteProviderToolTurn, RunTransaction, IsLive, LiveRunStates
  <1> QED
    BY <1>6, <1>7, <1>8
    DEF ProviderStep, PrepareProviderOperation, MarkProviderDispatched, SettleContextRejection,
        FinishRun

\* The steps of a tool call.
LEMMA ToolStepIsLocal ==
  ASSUME LedgerTypeOK, NEW r \in Runs, NEW t \in Turns, NEW k \in Calls, ToolStep(r, t, k)
  PROVE  RunTransaction(r)
  <1>1. UNCHANGED <<toolCalls, providerFacts>>
    BY DEF ToolStep, PrepareToolOperation, MarkToolDispatched, CompleteToolResult, AddToolFact,
           providerVars
  <1>2. \E v : toolFacts' = [toolFacts EXCEPT ![<<r, t, k>>] = v]
    BY DEF ToolStep, PrepareToolOperation, MarkToolDispatched, CompleteToolResult, AddToolFact
  <1>3. UNCHANGED runState \/ \E v : runState' = [runState EXCEPT ![r] = v]
    BY DEF ToolStep, PrepareToolOperation, MarkToolDispatched, CompleteToolResult,
           AppendRunTransition, runVars
  <1>4. \A q \in Runs \ {r} : RowKept(q)
    BY <1>1, <1>2, <1>3, RowsOfOthers
  <1>5. CASE UNCHANGED highWater
    BY <1>4, <1>5 DEF RunTransaction, LedgerTypeOK
  <1>6. ASSUME NEW result, CompleteToolResult(r, t, k, result) PROVE RunTransaction(r)
    BY <1>4, <1>6, AppendGrows
    DEF CompleteToolResult, CanCompleteTool, RunTransaction, IsLive, LiveRunStates
  <1> QED
    BY <1>5, <1>6 DEF ToolStep, PrepareToolOperation, MarkToolDispatched

\* A step of the run's own, of whatever kind.
LEMMA StepIsLocal ==
  ASSUME LedgerTypeOK, NEW r \in Runs,
         \/ RunStep(r)
         \/ \E t \in Turns : ProviderStep(r, t) \/ \E k \in Calls : ToolStep(r, t, k)
  PROVE  LedgerNext /\ RunTransaction(r)
  BY RunStepIsLocal, ProviderStepIsLocal, ToolStepIsLocal DEF LedgerNext

\* What is read of a run that is left alone is the same.
LEMMA RowFrame ==
  ASSUME NEW q \in Runs, RowKept(q)
  PROVE  /\ IsLive(q)' <=> IsLive(q)
         /\ \A t \in Turns : ProviderPending(q, t)' <=> ProviderPending(q, t)
         /\ Quiet(q)' <=> Quiet(q)
         /\ \A n : TurnsAre(q, n)' <=> TurnsAre(q, n)
         /\ \A t \in Turns, k \in Calls :
              /\ IsCall(q, t, k)' <=> IsCall(q, t, k)
              /\ Unsettled(q, t, k)' <=> Unsettled(q, t, k)
         /\ AllSettled(q)' <=> AllSettled(q)
         /\ NothingBegun(q)' <=> NothingBegun(q)
  <1>1. IsLive(q)' <=> IsLive(q)
    BY DEF RowKept, IsLive
  <1>2. \A t \in Turns : ProviderPending(q, t)' <=> ProviderPending(q, t)
    BY DEF RowKept, ProviderPending
  <1>3. Quiet(q)' <=> Quiet(q)
    BY <1>2 DEF Quiet
  <1>4. \A n : TurnsAre(q, n)' <=> TurnsAre(q, n)
    BY DEF RowKept, TurnsAre
  <1>5. \A t \in Turns, k \in Calls :
          /\ IsCall(q, t, k)' <=> IsCall(q, t, k)
          /\ Unsettled(q, t, k)' <=> Unsettled(q, t, k)
    BY DEF RowKept, IsCall, Unsettled, ToolSettled
  <1>6. AllSettled(q)' <=> AllSettled(q)
    BY <1>5 DEF AllSettled
  <1>7. NothingBegun(q)' <=> NothingBegun(q)
    BY <1>5 DEF NothingBegun, RowKept
  <1> QED
    BY <1>1, <1>2, <1>3, <1>4, <1>5, <1>6, <1>7

--------------------------------------------------------------------------------
(* LedgerShape is an invariant of the ledger. *)

\* The shape of one run's rows.
ShapeOf(r) ==
  \A t \in Turns :
    /\ runState[r] \in {"none", "accepted"} => providerFacts[<<r, t>>] = {}
    /\ providerFacts[<<r, t>>] # {} => "prepared" \in providerFacts[<<r, t>>]
    /\ Len(toolCalls[<<r, t>>]) <= MaxCalls
    /\ Len(toolCalls[<<r, t>>]) # 0 => "completed" \in providerFacts[<<r, t>>]
    /\ \A k \in Calls : toolFacts[<<r, t, k>>] # {} =>
         "prepared" \in toolFacts[<<r, t, k>>] /\ IsCall(r, t, k)

\* Rows that are left alone keep their shape.
LEMMA ShapeFrame ==
  ASSUME NEW q \in Runs, RowKept(q), ShapeOf(q)
  PROVE  ShapeOf(q)'
  BY DEF RowKept, ShapeOf, IsCall

\* A run that is accepted, cancelled, activated or ended has the same operations.
LEMMA ShapeRunStep ==
  ASSUME LedgerTypeOK, NEW r \in Runs, ShapeOf(r), RunStep(r)
  PROVE  ShapeOf(r)'
  <1>1. UNCHANGED <<providerFacts, toolCalls, toolFacts>>
    BY DEF RunStep, AcceptSessionInput, CancelRun, ActivateRun, FinishRun, providerVars, toolVars
  <1>2. runState'[r] \in {"none", "accepted"} => runState[r] \in {"none", "accepted"}
    BY DEF RunStep, AcceptSessionInput, CanAcceptInput, CancelRun, ActivateRun, FinishRun,
           AppendRunTransition, IsLive, LiveRunStates, LedgerTypeOK
  <1> QED
    BY <1>1, <1>2 DEF ShapeOf, IsCall

\* An operation is prepared, gains a fact, or is completed with its calls.
LEMMA ShapeProviderStep ==
  ASSUME LedgerTypeOK, NEW r \in Runs, NEW t \in Turns, ShapeOf(r), ProviderStep(r, t)
  PROVE  ShapeOf(r)'
  <1>0. t # 0
    BY DEF Turns
  <1>1. UNCHANGED toolFacts
    BY DEF ProviderStep, PrepareProviderOperation, MarkProviderDispatched, CompleteRunSuccess,
           CompleteProviderToolTurn, SettleContextRejection, FinishRun, toolVars
  <1>2. runState'[r] \notin {"none", "accepted"}
    <2>1. providerFacts[<<r, t>>] # {} => runState[r] \notin {"none", "accepted"}
      BY DEF ShapeOf
    <2>2. ASSUME NEW state \in TerminalRunStates, AppendRunTransition(r, state)
          PROVE  runState'[r] \notin {"none", "accepted"}
      BY <2>2 DEF AppendRunTransition, TerminalRunStates, LedgerTypeOK
    <2>3. CASE PrepareProviderOperation(r, t, highWater[SessionOf[r]])
      BY <2>2, <2>3
      DEF PrepareProviderOperation, CanPrepareProvider, runVars, TerminalRunStates
    <2>4. CASE MarkProviderDispatched(r, t)
      BY <2>2, <2>4 DEF MarkProviderDispatched, runVars, TerminalRunStates
    <2>5. CASE CompleteRunSuccess(r, t)
      BY <2>2, <2>5 DEF CompleteRunSuccess, TerminalRunStates
    <2>6. ASSUME NEW calls, NEW commentary, CompleteProviderToolTurn(r, t, calls, commentary)
          PROVE  runState'[r] \notin {"none", "accepted"}
      BY <2>6 DEF CompleteProviderToolTurn, runVars
    <2>7. CASE SettleContextRejection(r, t)
      BY <2>7 DEF SettleContextRejection, runVars
    <2>8. ASSUME NEW kind, FinishRun(r, t, kind) PROVE runState'[r] \notin {"none", "accepted"}
      BY <2>2, <2>8 DEF FinishRun, TerminalRunStates
    <2> QED
      BY <2>3, <2>4, <2>5, <2>6, <2>7, <2>8 DEF ProviderStep
  <1>3. \A u \in Turns : /\ providerFacts[<<r, u>>] \subseteq providerFacts'[<<r, u>>]
                         /\ providerFacts'[<<r, u>>] # {} => "prepared" \in providerFacts'[<<r, u>>]
    <2>1. \/ UNCHANGED providerFacts
          \/ /\ providerFacts[<<r, t>>] = {}
             /\ providerFacts' = [providerFacts EXCEPT ![<<r, t>>] = {"prepared"}]
          \/ /\ "prepared" \in providerFacts[<<r, t>>]
             /\ \E fact : AddProviderFact(r, t, fact)
      BY <1>0
      DEF ProviderStep, PrepareProviderOperation, CanPrepareProvider, IsNextTurn,
          MarkProviderDispatched, CompleteRunSuccess, CompleteProviderToolTurn,
          SettleContextRejection, FinishRun, ProviderInFlight, ProviderPending, providerVars
    <2>2. ASSUME NEW v, NEW u \in Turns,
                 providerFacts' = [providerFacts EXCEPT ![<<r, t>>] = v]
          PROVE  providerFacts'[<<r, u>>] = IF u = t THEN v ELSE providerFacts[<<r, u>>]
      BY <2>2 DEF LedgerTypeOK
    <2>3. CASE UNCHANGED providerFacts
      BY <2>3 DEF ShapeOf
    <2>4. ASSUME NEW fact, "prepared" \in providerFacts[<<r, t>>], AddProviderFact(r, t, fact),
                 NEW u \in Turns
          PROVE  /\ providerFacts[<<r, u>>] \subseteq providerFacts'[<<r, u>>]
                 /\ providerFacts'[<<r, u>>] # {} => "prepared" \in providerFacts'[<<r, u>>]
      BY <2>2, <2>4 DEF AddProviderFact, ShapeOf
    <2>5. ASSUME providerFacts[<<r, t>>] = {}, NEW u \in Turns,
                 providerFacts' = [providerFacts EXCEPT ![<<r, t>>] = {"prepared"}]
          PROVE  /\ providerFacts[<<r, u>>] \subseteq providerFacts'[<<r, u>>]
                 /\ providerFacts'[<<r, u>>] # {} => "prepared" \in providerFacts'[<<r, u>>]
      <3>1. providerFacts'[<<r, u>>] = IF u = t THEN {"prepared"} ELSE providerFacts[<<r, u>>]
        BY <2>2, <2>5
      <3> QED
        BY <2>5, <3>1 DEF ShapeOf
    <2> QED
      BY <2>1, <2>3, <2>4, <2>5
  <1> DEFINE CallsKept ==
        \A u \in Turns :
          /\ Len(toolCalls'[<<r, u>>]) <= MaxCalls
          /\ Len(toolCalls'[<<r, u>>]) # 0 => "completed" \in providerFacts'[<<r, u>>]
          /\ Len(toolCalls[<<r, u>>]) # 0 => toolCalls'[<<r, u>>] = toolCalls[<<r, u>>]
  <1>4. CallsKept
    <2>1. CASE UNCHANGED toolCalls
      BY <1>3, <2>1 DEF ShapeOf
    <2>2. ASSUME NEW calls \in CallBatches, NEW commentary \in {0, 1},
                 CompleteProviderToolTurn(r, t, calls, commentary)
          PROVE  CallsKept
      <3>1. Len(calls) \in Nat /\ Len(calls) <= MaxCalls
        BY BoundAssumption DEF CallBatches, Calls
      <3>2. /\ toolCalls' = [toolCalls EXCEPT ![<<r, t>>] = calls]
            /\ AddProviderFact(r, t, "completed")
            /\ "completed" \notin providerFacts[<<r, t>>]
        BY <2>2 DEF CompleteProviderToolTurn, ProviderInFlight, ProviderPending,
                    TerminalProviderFacts
      <3>3. Len(toolCalls[<<r, t>>]) = 0
        BY <3>2 DEF ShapeOf
      <3>4. "completed" \in providerFacts'[<<r, t>>]
        BY <3>2 DEF AddProviderFact, LedgerTypeOK
      <3>5. ASSUME NEW u \in Turns, u # t PROVE toolCalls'[<<r, u>>] = toolCalls[<<r, u>>]
        BY <3>2, <3>5 DEF LedgerTypeOK
      <3>6. toolCalls'[<<r, t>>] = calls
        BY <3>2 DEF LedgerTypeOK
      <3> QED
        BY <1>3, <3>1, <3>3, <3>4, <3>5, <3>6 DEF ShapeOf
    <2> QED
      BY <2>1, <2>2
      DEF ProviderStep, PrepareProviderOperation, MarkProviderDispatched, CompleteRunSuccess,
          SettleContextRejection, FinishRun, toolVars
  <1>5. \A u \in Turns, k \in Calls : IsCall(r, u, k) => IsCall(r, u, k)'
    <2> SUFFICES ASSUME NEW u \in Turns, NEW k \in Calls, IsCall(r, u, k) PROVE IsCall(r, u, k)'
      OBVIOUS
    <2>1. toolCalls[<<r, u>>] \in Seq(ToolKinds)
      BY DEF LedgerTypeOK
    <2>2. Len(toolCalls[<<r, u>>]) # 0
      BY <2>1, BoundAssumption DEF IsCall, Calls
    <2> QED
      BY <1>4, <2>2 DEF IsCall
  <1> QED
    BY <1>1, <1>2, <1>3, <1>4, <1>5 DEF ShapeOf

\* A call is prepared, or gains a fact after that.
LEMMA ShapeToolStep ==
  ASSUME LedgerTypeOK, NEW r \in Runs, NEW t \in Turns, NEW k \in Calls, ShapeOf(r),
         ToolStep(r, t, k)
  PROVE  ShapeOf(r)'
  <1>1. UNCHANGED <<providerFacts, toolCalls>>
    BY DEF ToolStep, PrepareToolOperation, MarkToolDispatched, CompleteToolResult, AddToolFact,
           providerVars
  <1>2. runState[r] = "active" /\ runState'[r] \in {"active", "uncertain"}
    BY DEF ToolStep, PrepareToolOperation, MarkToolDispatched, CompleteToolResult, CanPrepareTool,
           CanMarkToolDispatched, CanCompleteTool, AppendRunTransition, runVars, LedgerTypeOK
  <1>3. \E fact :
          /\ AddToolFact(r, t, k, fact)
          /\ "prepared" \in toolFacts[<<r, t, k>>] \/ (fact = "prepared" /\ IsCall(r, t, k))
    BY DEF ToolStep, PrepareToolOperation, MarkToolDispatched, CompleteToolResult, CanPrepareTool,
           CanMarkToolDispatched, CanCompleteTool, ToolPending
  <1>4. \A u \in Turns, j \in Calls : toolFacts'[<<r, u, j>>] # {} =>
          "prepared" \in toolFacts'[<<r, u, j>>] /\ IsCall(r, u, j)
    <2> SUFFICES ASSUME NEW u \in Turns, NEW j \in Calls, toolFacts'[<<r, u, j>>] # {}
                 PROVE  "prepared" \in toolFacts'[<<r, u, j>>] /\ IsCall(r, u, j)
      OBVIOUS
    <2>1. PICK fact : /\ toolFacts' = [toolFacts EXCEPT ![<<r, t, k>>] = @ \cup {fact}]
                      /\ \/ "prepared" \in toolFacts[<<r, t, k>>]
                         \/ fact = "prepared" /\ IsCall(r, t, k)
      BY <1>3 DEF AddToolFact
    <2>2. toolFacts[<<r, u, j>>] # {} =>
            "prepared" \in toolFacts[<<r, u, j>>] /\ IsCall(r, u, j)
      BY DEF ShapeOf
    <2>3. DOMAIN toolFacts = Runs \X Turns \X Calls /\ <<r, u, j>> \in Runs \X Turns \X Calls
      BY DEF LedgerTypeOK
    <2>4. CASE u = t /\ j = k
      <3>1. toolFacts'[<<r, u, j>>] = toolFacts[<<r, u, j>>] \cup {fact}
        BY <2>1, <2>3, <2>4
      <3> QED
        BY <2>1, <2>2, <2>4, <3>1
    <2>5. CASE ~(u = t /\ j = k)
      <3>1. <<r, u, j>> # <<r, t, k>>
        BY <2>5
      <3>2. toolFacts'[<<r, u, j>>] = toolFacts[<<r, u, j>>]
        BY <2>1, <2>3, <3>1
      <3> QED
        BY <2>2, <3>2
    <2> QED
      BY <2>4, <2>5
  <1> QED
    BY <1>1, <1>2, <1>4 DEF ShapeOf, IsCall

\* Every transaction of the ledger keeps the shape.
LEMMA ShapeNext ==
  ASSUME LedgerTypeOK, LedgerShape, [LedgerNext]_ledgerVars
  PROVE  LedgerShape'
  <1>0. \A q \in Runs : ShapeOf(q)
    BY DEF LedgerShape, ShapeOf
  <1>1. ASSUME NEW r \in Runs, RunTransaction(r), ShapeOf(r)' PROVE LedgerShape'
    <2>1. ASSUME NEW q \in Runs PROVE ShapeOf(q)'
      BY <1>0, <1>1, ShapeFrame DEF RunTransaction
    <2> QED
      BY <2>1 DEF LedgerShape, ShapeOf
  <1>2. CASE UNCHANGED <<runVars, providerVars, toolVars>>
    BY <1>2 DEF LedgerShape, IsCall, runVars, providerVars, toolVars
  <1> QED
    BY <1>0, <1>1, <1>2, OtherSteps, StepIsLocal, ShapeRunStep, ShapeProviderStep, ShapeToolStep

--------------------------------------------------------------------------------
(* What the invariant says of a run that a step leaves alone. *)

\* A full transcript stays full.
LEMMA FullStaysFull ==
  ASSUME LedgerTypeOK, LedgerTypeOK', NEW s \in Sessions, highWater'[s] >= highWater[s],
         TranscriptFull(s)
  PROVE  TranscriptFull(s)'
  BY BoundAssumption DEF TranscriptFull, LedgerTypeOK

\* The rows of the run's searches are as they were.
SearchesKept(q) == \A t \in Turns, k \in Calls : searches'[<<q, t, k>>] = searches[<<q, t, k>>]

\* A search that was not admitted stays so.
LEMMA NotAdmittedFrame ==
  ASSUME NEW q \in Runs, RowKept(q), SearchesKept(q)
  PROVE  SearchNotAdmitted(q)' <=> SearchNotAdmitted(q)
  <1>1. \A t \in Turns, k \in Calls :
          /\ toolFacts'[<<q, t, k>>] = toolFacts[<<q, t, k>>]
          /\ toolCalls'[<<q, t>>] = toolCalls[<<q, t>>]
          /\ searches'[<<q, t, k>>] = searches[<<q, t, k>>]
    BY DEF RowKept, SearchesKept
  <1> QED
    BY <1>1 DEF SearchNotAdmitted, ToolPending, ToolSettled

\* No fact of a call is ever removed.
LEMMA ToolFactsGrow ==
  ASSUME LedgerTypeOK, [LedgerNext]_ledgerVars
  PROVE  \A r \in Runs, t \in Turns, k \in Calls :
           toolFacts[<<r, t, k>>] \subseteq toolFacts'[<<r, t, k>>]
  <1>1. CASE UNCHANGED toolFacts
    BY <1>1
  <1>2. ASSUME NEW r \in Runs, NEW t \in Turns, NEW k \in Calls, NEW fact, AddToolFact(r, t, k, fact)
        PROVE  \A q \in Runs, u \in Turns, j \in Calls :
                 toolFacts[<<q, u, j>>] \subseteq toolFacts'[<<q, u, j>>]
    BY <1>2 DEF AddToolFact, LedgerTypeOK
  <1>3. ASSUME NEW r \in Runs, RunStep(r) PROVE UNCHANGED toolFacts
    BY <1>3 DEF RunStep, AcceptSessionInput, CancelRun, ActivateRun, FinishRun, toolVars
  <1>4. ASSUME NEW r \in Runs, NEW t \in Turns, ProviderStep(r, t) PROVE UNCHANGED toolFacts
    BY <1>4
    DEF ProviderStep, PrepareProviderOperation, MarkProviderDispatched, CompleteRunSuccess,
        CompleteProviderToolTurn, SettleContextRejection, FinishRun, toolVars
  <1>5. ASSUME NEW r \in Runs, NEW t \in Turns, NEW k \in Calls, ToolStep(r, t, k)
        PROVE  \E fact : AddToolFact(r, t, k, fact)
    BY <1>5 DEF ToolStep, PrepareToolOperation, MarkToolDispatched, CompleteToolResult
  <1>6. CASE UNCHANGED <<runVars, providerVars, toolVars>>
    BY <1>1, <1>6 DEF toolVars
  <1> QED
    BY <1>1, <1>2, <1>3, <1>4, <1>5, <1>6, OtherSteps

\* At most the row of one search of run r changes, of a call given to its tool.
SearchMove(r) ==
  \/ UNCHANGED searches
  \/ \E t \in Turns, k \in Calls, v \in SearchStates :
       /\ "dispatched" \in toolFacts[<<r, t, k>>]
       /\ searches' = [searches EXCEPT ![<<r, t, k>>] = v]

\* Such a change concerns the run alone.
LEMMA SearchRows ==
  ASSUME LedgerTypeOK, SupervisorTypeOK, SearchesFollowDispatch, [LedgerNext]_ledgerVars,
         NEW r \in Runs, SearchMove(r)
  PROVE  /\ searches' \in [Runs \X Turns \X Calls -> SearchStates]
         /\ SearchesFollowDispatch'
         /\ \A q \in Runs \ {r} : SearchesKept(q)
  <1>1. searches \in [Runs \X Turns \X Calls -> SearchStates]
    BY DEF SupervisorTypeOK
  <1>2. CASE UNCHANGED searches
    BY <1>1, <1>2, ToolFactsGrow DEF SearchesFollowDispatch, SearchesKept
  <1>3. ASSUME NEW t \in Turns, NEW k \in Calls, NEW v \in SearchStates,
               "dispatched" \in toolFacts[<<r, t, k>>],
               searches' = [searches EXCEPT ![<<r, t, k>>] = v]
        PROVE  /\ searches' \in [Runs \X Turns \X Calls -> SearchStates]
               /\ SearchesFollowDispatch'
               /\ \A q \in Runs \ {r} : SearchesKept(q)
    <2>1. ASSUME NEW q \in Runs, NEW u \in Turns, NEW j \in Calls
          PROVE  searches'[<<q, u, j>>] =
                   IF q = r /\ u = t /\ j = k THEN v ELSE searches[<<q, u, j>>]
      BY <1>1, <1>3
    <2>2. searches' \in [Runs \X Turns \X Calls -> SearchStates]
      BY <1>1, <1>3
    <2>3. SearchesFollowDispatch'
      <3> SUFFICES ASSUME NEW q \in Runs, NEW u \in Turns, NEW j \in Calls,
                          searches'[<<q, u, j>>] # "none"
                   PROVE  "dispatched" \in toolFacts'[<<q, u, j>>]
        BY DEF SearchesFollowDispatch
      <3>1. "dispatched" \in toolFacts[<<q, u, j>>]
        BY <1>3, <2>1 DEF SearchesFollowDispatch
      <3> QED
        BY <3>1, ToolFactsGrow
    <2>4. \A q \in Runs \ {r} : SearchesKept(q)
      BY <2>1 DEF SearchesKept
    <2> QED
      BY <2>2, <2>3, <2>4
  <1> QED
    BY <1>2, <1>3 DEF SearchMove

\* The stage of a task whose run is left alone still agrees with the ledger.
LEMMA StageFrame ==
  ASSUME NEW q \in Runs, RowKept(q), StageAgrees(q), task'[q] = task[q], local'[q] = local[q],
         SearchesKept(q), faults \in Nat, faults' \in Nat, faults' >= faults,
         task[q] = "prepare" => highWater'[SessionOf[q]] = highWater[SessionOf[q]],
         TranscriptFull(SessionOf[q]) => TranscriptFull(SessionOf[q])'
  PROVE  StageAgrees(q)'
  <1>1. BetweenTurns(q) => BetweenTurns(q)'
    BY RowFrame DEF BetweenTurns, TurnsAre, RowKept
  <1>2. AtOperation(q) => AtOperation(q)'
    <2> SUFFICES ASSUME AtOperation(q) PROVE AtOperation(q)'
      OBVIOUS
    <2>1. PICK t \in Turns : t = local[q].turn /\ t = local'[q].turn
      BY DEF AtOperation
    <2>2. ProviderPending(q, t)' /\ TurnsAre(q, t)' /\ AllSettled(q)'
      BY <2>1, RowFrame DEF AtOperation
    <2>3. runState'[q] = "active"
      BY DEF AtOperation, RowKept
    <2> QED
      BY <2>1, <2>2, <2>3 DEF AtOperation, ProviderPending, TurnsAre
  <1>3. InBatch(q, local[q].call) => InBatch(q, local[q].call)'
    <2> SUFFICES ASSUME InBatch(q, local[q].call) PROVE InBatch(q, local[q].call)'
      OBVIOUS
    <2>1. PICK t \in Turns : t = local[q].turn /\ t = local'[q].turn
      BY DEF InBatch
    <2>2. PICK k : k = local[q].call /\ k = local'[q].call
      OBVIOUS
    <2>3. /\ runState[q] = "active" /\ Quiet(q) /\ t < MaxTurns /\ TurnsAre(q, t) /\ k # 0
          /\ \A u \in Turns, j \in Calls : Unsettled(q, u, j) => u = t /\ k <= j
          /\ \A j \in Calls : k < j => toolFacts[<<q, t, j>>] = {}
      BY <2>1, <2>2 DEF InBatch
    <2>4. Quiet(q)' /\ TurnsAre(q, t)'
      BY <2>3, RowFrame
    <2>5. \A u \in Turns, j \in Calls : Unsettled(q, u, j)' => u = t /\ k <= j
      BY <2>3, RowFrame
    <2>6. /\ runState'[q] = "active"
          /\ \A j \in Calls : k < j => toolFacts'[<<q, t, j>>] = {}
      BY <2>3 DEF RowKept
    <2> QED
      BY <2>1, <2>2, <2>3, <2>4, <2>5, <2>6 DEF InBatch, TurnsAre
  <1>4. AtOperation(q) =>
          providerFacts'[<<q, local'[q].turn>>] = providerFacts[<<q, local[q].turn>>]
    BY DEF AtOperation, RowKept
  <1>5. InBatch(q, local[q].call) =>
          /\ \A k \in Calls : toolFacts'[<<q, local'[q].turn, k>>] = toolFacts[<<q, local[q].turn, k>>]
          /\ \A facts : CallIs(q, facts) => CallIs(q, facts)'
    BY DEF InBatch, RowKept, CallIs, IsCall
  <1>6. ASSUME task[q] \in DispatchedStages
        PROVE  CallKind(q)' = CallKind(q) /\ searches'[TaskCall(q)'] = searches[TaskCall(q)]
    <2>1. /\ local[q].turn \in Turns /\ local[q].call \in Calls
          /\ local'[q].turn = local[q].turn /\ local'[q].call = local[q].call
      BY <1>6 DEF StageAgrees, DispatchedStages, InBatch, CallIs
    <2> QED
      BY <2>1 DEF CallKind, TaskCall, RowKept, SearchesKept
  <1>7. task[q] = "error" => SearchNotAdmitted(q)' <=> SearchNotAdmitted(q)
    BY NotAdmittedFrame
  <1>8. task[q] \notin BatchStages => StageAgrees(q)'
    BY <1>1, <1>2, <1>4, <1>7, RowFrame DEF StageAgrees, RowKept, BatchStages, DispatchedStages
  <1>9. task[q] \in BatchStages => StageAgrees(q)'
    BY <1>3, <1>5, <1>6 DEF StageAgrees, BatchStages, DispatchedStages
  <1> QED
    BY <1>8, <1>9

\* So does that of every other run when a transaction of run r commits.
LEMMA StagesOfOthers ==
  ASSUME LedgerInv, LedgerTypeOK', NEW r \in Runs, RunTransaction(r),
         NEW q \in Runs, q # r, StageAgrees(q), task'[q] = task[q], local'[q] = local[q],
         SearchesKept(q), faults \in Nat, faults' \in Nat, faults' >= faults
  PROVE  StageAgrees(q)'
  <1>1. SessionOf[q] \in Sessions /\ SessionOf[r] \in Sessions
    BY SessionOfAssumption
  <1>2. RowKept(q)
    BY DEF RunTransaction
  <1>3. ASSUME task[q] = "prepare"
        PROVE  highWater'[SessionOf[q]] = highWater[SessionOf[q]]
    <2>1. IsLive(q)
      BY <1>3 DEF StageAgrees, BetweenTurns, IsLive, LiveRunStates
    <2>2. activeRun[SessionOf[q]] = q /\ q # NoRun
      BY <1>1, <2>1, SessionOfAssumption DEF LedgerInv, ActiveRunAgrees
    <2>3. SessionOf[q] = SessionOf[r] => ~IsLive(r)
      BY <2>1, OneLiveRun DEF LedgerInv
    <2> QED
      BY <1>1, <2>2, <2>3 DEF RunTransaction
  <1>4. TranscriptFull(SessionOf[q]) => TranscriptFull(SessionOf[q])'
    BY <1>1, FullStaysFull DEF RunTransaction, LedgerInv
  <1> QED
    BY <1>2, <1>3, <1>4, StageFrame

\* And that of every run when the ledger is not touched at all.
LEMMA LedgerUntouched ==
  ASSUME LedgerTypeOK, UNCHANGED ledgerVars
  PROVE  /\ \A q \in Runs : RowKept(q)
         /\ \A s \in Sessions : highWater'[s] >= highWater[s]
         /\ UNCHANGED <<runState, cancelRequested, activeRun, highWater, providerFacts,
                        sourceHighWater, toolCalls, toolFacts>>
         /\ \A r \in Runs : RunTransaction(r)
  BY SessionOfAssumption, BoundAssumption
  DEF RowKept, RunTransaction, ledgerVars, runVars, providerVars, toolVars, LedgerTypeOK

--------------------------------------------------------------------------------
(* A step of the run's task from one stage to another. *)

\* Such a step keeps the invariant if its transaction is one of the ledger's
\* protocol, concerns the run alone, and leaves the run as the new stage says.
LEMMA TaskMove ==
  ASSUME SupervisorInv, NEW r \in Runs, Running(r),
         [LedgerNext]_ledgerVars, RunTransaction(r),
         NEW stage \in TaskStages \ {"none"}, TaskGoes(r, stage),
         local' \in [Runs -> LocalType], \A q \in Runs \ {r} : local'[q] = local[q],
         SearchMove(r), faults' \in Nat, faults' >= faults,
         stopping' \in BOOLEAN, stopping => stopping',
         UNCHANGED <<server, starts, admission, handlerVars, controlVars>>,
         StageAgrees(r)', runState'[r] # "none",
         \A t \in Turns, k \in Calls : Unsettled(r, t, k)' => Quiet(r)'
  PROVE  SupervisorInv'
  <1> USE DEF SupervisorInv
  <1>0. UNCHANGED <<server, starts, admission, lifecycle, handler, signalling, permits, controls,
                    signalled>>
    BY DEF handlerVars, controlVars
  <1>1. LedgerInv' /\ LedgerTypeOK' /\ LedgerTypeOK /\ LedgerShape'
    BY InvNext, ShapeNext DEF LedgerInv
  <1>2. task' \in [Runs -> TaskStages] /\ task'[r] = stage
        /\ \A q \in Runs \ {r} : task'[q] = task[q]
    BY DEF TaskGoes, SupervisorTypeOK
  <1>3. \A q \in Runs : Running(q)' <=> Running(q)
    BY <1>2 DEF Running
  <1>14. /\ searches' \in [Runs \X Turns \X Calls -> SearchStates]
        /\ SearchesFollowDispatch'
        /\ \A q \in Runs \ {r} : SearchesKept(q)
    BY <1>1, SearchRows
  <1>4. SupervisorTypeOK'
    BY <1>0, <1>2, <1>14 DEF SupervisorTypeOK
  <1>5. Up' <=> Up
    BY <1>0 DEF Up
  <1>6. Up
    BY DEF MemoryNeedsProcess, Running
  <1>7. \A q \in Runs : StageAgrees(q)'
    BY <1>1, <1>2, <1>14, StagesOfOthers DEF SupervisorTypeOK
  <1>8. ASSUME NEW q \in Runs PROVE Ownership(q)'
    <2>1. CASE q = r
      BY <1>0, <1>3, <2>1 DEF Ownership
    <2>2. CASE q # r
      <3>1. runState'[q] = runState[q]
        BY <2>2 DEF RunTransaction, RowKept
      <3> QED
        BY <1>0, <1>3, <3>1 DEF Ownership
    <2> QED
      BY <2>1, <2>2
  <1>9. MemoryNeedsProcess' /\ ShutdownIsStopping' /\ PermitsBounded'
    BY <1>0, <1>5, <1>6 DEF MemoryNeedsProcess, ShutdownIsStopping, PermitsBounded
  <1>10. CallsBetweenTurns'
    BY RowFrame DEF CallsBetweenTurns, RunTransaction
  <1>11. RecoveredSoFar'
    <2>1. \A q \in Runs \ {r} : (Quiet(q)' <=> Quiet(q)) /\ (NothingBegun(q)' <=> NothingBegun(q))
      BY RowFrame DEF RunTransaction
    <2>2. server \notin {"recover_steering", "recover_runs"}
      BY <1>6 DEF Up
    <2> QED
      BY <1>0, <1>3, <1>5, <2>1, <2>2 DEF RecoveredSoFar
  <1>12. RefusalHasCause'
    BY <1>0, <1>6 DEF RefusalHasCause, Up
  <1>13. LiveRunHasOwner'
    <2> SUFFICES ASSUME NEW q \in Runs, IsLive(q)'
                 PROVE  \/ handler'[q] \in {"accepted", "refused"} /\ ~Running(q)'
                        \/ Running(q)' /\ handler'[q] = "idle"
                        \/ /\ stopping'
                           /\ \/ faults' > 0
                              \/ TranscriptFull(SessionOf[q])'
                              \/ SearchNotAdmitted(q)'
                        \/ server' = "aborted"
      BY DEF LiveRunHasOwner
    <2>1. CASE q = r
      BY <1>0, <1>3, <2>1 DEF Ownership
    <2>2. CASE q # r
      <3>1. IsLive(q)
        BY <2>2, RowFrame DEF RunTransaction
      <3>2. TranscriptFull(SessionOf[q]) => TranscriptFull(SessionOf[q])'
        BY <1>1, FullStaysFull, SessionOfAssumption DEF RunTransaction
      <3>3. faults > 0 => faults' > 0
        BY DEF SupervisorTypeOK
      <3>4. SearchNotAdmitted(q)' <=> SearchNotAdmitted(q)
        BY <1>14, <2>2, NotAdmittedFrame DEF RunTransaction
      <3> QED
        BY <1>0, <1>3, <1>6, <3>1, <3>2, <3>3, <3>4 DEF LiveRunHasOwner
    <2> QED
      BY <2>1, <2>2
  <1> QED
    BY <1>1, <1>14, <1>4, <1>7, <1>8, <1>9, <1>10, <1>11, <1>12, <1>13

\* A run that was only accepted has no operation and no call.
LEMMA FreshRun ==
  ASSUME LedgerTypeOK, LedgerShape, NEW r \in Runs, runState[r] \in {"none", "accepted"}
  PROVE  Quiet(r) /\ AllSettled(r) /\ TurnsAre(r, 0)
  <1>1. \A t \in Turns : providerFacts[<<r, t>>] = {}
    BY DEF LedgerShape
  <1>2. \A t \in Turns : Len(toolCalls[<<r, t>>]) = 0
    BY <1>1 DEF LedgerShape
  <1> QED
    BY <1>1, <1>2, BoundAssumption
    DEF Quiet, ProviderPending, AllSettled, Unsettled, IsCall, TurnsAre, Turns, Calls

\* A transaction that leaves providerFacts and the tool tables alone.
LEMMA OperationsKept ==
  ASSUME NEW r \in Runs, UNCHANGED <<providerFacts, toolCalls, toolFacts>>
  PROVE  /\ Quiet(r)' <=> Quiet(r)
         /\ AllSettled(r)' <=> AllSettled(r)
         /\ NothingBegun(r)' <=> NothingBegun(r)
         /\ \A t \in Turns : ProviderPending(r, t)' <=> ProviderPending(r, t)
         /\ \A t \in Turns, k \in Calls : Unsettled(r, t, k)' <=> Unsettled(r, t, k)
  BY DEF Quiet, ProviderPending, AllSettled, NothingBegun, Unsettled, IsCall, ToolSettled

\* What the stages have in common: a task works on a live run, and nothing is open
\* but the operation or the calls that its stage names.
LEMMA WorkingStages ==
  ASSUME SupervisorInv, NEW r \in Runs
  PROVE  /\ task[r] \notin {"none", "exit", "error", "fault"} => IsLive(r)
         /\ task[r] = "activate" => Quiet(r) /\ AllSettled(r) /\ TurnsAre(r, 0)
         /\ AllSettled(r) => NothingBegun(r)
         /\ local[r] \in LocalType
  BY FreshRun
  DEF SupervisorInv, SupervisorTypeOK, TaskStages, LedgerInv, StageAgrees, BetweenTurns, AtOperation,
      InBatch, AllSettled, NothingBegun, IsLive, LiveRunStates, BatchStages, DispatchedStages

\* The end of a run leaves no operation open and its calls as they were.
LEMMA EndOfRun ==
  ASSUME SupervisorInv, NEW r \in Runs, LedgerNext, RunTransaction(r),
         NothingBegun(r), UNCHANGED <<toolCalls, toolFacts>>,
         runState'[r] \in TerminalRunStates, task'[r] = "exit"
  PROVE  /\ StageAgrees(r)'
         /\ runState'[r] # "none"
         /\ \A t \in Turns, k \in Calls : Unsettled(r, t, k)' => Quiet(r)'
  <1>1. PendingOperationNeedsLiveRun'
    BY InvNext DEF SupervisorInv, LedgerInv
  <1>2. ~IsLive(r)' /\ runState'[r] # "none"
    BY DEF TerminalRunStates, IsLive, LiveRunStates
  <1>3. Quiet(r)'
    BY <1>1, <1>2 DEF PendingOperationNeedsLiveRun, Quiet
  <1>4. NothingBegun(r)'
    BY DEF NothingBegun, Unsettled, IsCall, ToolSettled
  <1> QED
    BY <1>2, <1>3, <1>4 DEF StageAgrees

\* finish_run, with no operation or with the one that is pending, ends the task.
LEMMA TaskFinishesKeeps ==
  ASSUME SupervisorInv, NEW r \in Runs, Running(r), IsLive(r), NothingBegun(r), NEW t, NEW kind,
         \/ t = 0 /\ Quiet(r) /\ kind \in {"stopped", "failed"}
         \/ t \in Turns /\ ProviderPending(r, t) /\ kind \in {"stopped", "failed", "uncertain"},
         TaskFinishes(r, t, kind), TaskOnly \/ ProviderFailure
  PROVE  SupervisorInv' /\ LedgerNext
  <1>1. FinishRun(r, t, kind) /\ TaskGoes(r, "exit") /\ UNCHANGED local
    BY DEF TaskFinishes, AlreadyOver, Turns
  <1>2. LedgerNext /\ RunTransaction(r)
    BY <1>1, StepIsLocal DEF RunStep, ProviderStep, SupervisorInv, LedgerInv
  <1>3. UNCHANGED <<toolCalls, toolFacts>> /\ runState'[r] \in TerminalRunStates
    BY <1>1 DEF FinishRun, AppendRunTransition, toolVars, TerminalRunStates, SupervisorInv, LedgerInv,
                LedgerTypeOK
  <1>4. task'[r] = "exit" /\ "exit" \in TaskStages \ {"none"}
    BY <1>1 DEF TaskGoes, TaskStages, SupervisorInv, SupervisorTypeOK
  <1>5. /\ UNCHANGED <<server, starts, faults, admission, handlerVars, controlVars>>
        /\ stopping' \in BOOLEAN /\ (stopping => stopping') /\ SearchMove(r)
    BY DEF TaskOnly, TaskFrame, ProviderFailure, SearchMove, serverVars, SupervisorInv,
           SupervisorTypeOK
  <1>6. faults' \in Nat /\ faults' >= faults
    BY <1>5 DEF SupervisorInv, SupervisorTypeOK
  <1>7. local' \in [Runs -> LocalType] /\ \A q \in Runs \ {r} : local'[q] = local[q]
    BY <1>1 DEF SupervisorInv, SupervisorTypeOK
  <1> QED
    BY <1>1, <1>2, <1>3, <1>4, <1>5, <1>6, <1>7, EndOfRun, TaskMove

\* A transaction of a task that changes nothing but the ledger, its stage and its
\* local variables.
LEMMA TaskTransaction ==
  ASSUME SupervisorInv, NEW r \in Runs, Running(r), TaskOnly, LedgerNext, RunTransaction(r),
         NEW stage \in TaskStages \ {"none"}, TaskGoes(r, stage),
         NEW x \in LocalType, local' = [local EXCEPT ![r] = x],
         StageAgrees(r)', runState'[r] # "none",
         \A t \in Turns, k \in Calls : Unsettled(r, t, k)' => Quiet(r)'
  PROVE  SupervisorInv' /\ [LedgerNext]_ledgerVars
  <1>1. local' \in [Runs -> LocalType] /\ \A q \in Runs \ {r} : local'[q] = local[q]
    BY DEF SupervisorInv, SupervisorTypeOK
  <1>2. UNCHANGED <<server, starts, faults, admission, stopping, handlerVars, controlVars>>
        /\ SearchMove(r)
    BY DEF TaskOnly, TaskFrame, SearchMove, serverVars
  <1>3. /\ faults' \in Nat /\ faults' >= faults
        /\ stopping' \in BOOLEAN /\ (stopping => stopping')
    BY <1>2 DEF SupervisorInv, SupervisorTypeOK
  <1> QED
    BY <1>1, <1>2, <1>3, TaskMove

\* A step of a task in memory.
LEMMA TaskThinks ==
  ASSUME SupervisorInv, NEW r \in Runs, Running(r), TaskOnly, UNCHANGED ledgerVars,
         NEW stage \in TaskStages \ {"none"}, TaskGoes(r, stage),
         NEW x \in LocalType, local' = [local EXCEPT ![r] = x],
         StageAgrees(r)'
  PROVE  SupervisorInv' /\ [LedgerNext]_ledgerVars
  <1>1. local' \in [Runs -> LocalType] /\ \A q \in Runs \ {r} : local'[q] = local[q]
    BY DEF SupervisorInv, SupervisorTypeOK
  <1>2. UNCHANGED <<server, starts, faults, admission, stopping, handlerVars, controlVars>>
        /\ SearchMove(r)
    BY DEF TaskOnly, TaskFrame, SearchMove, serverVars
  <1>3. /\ faults' \in Nat /\ faults' >= faults
        /\ stopping' \in BOOLEAN /\ (stopping => stopping')
    BY <1>2 DEF SupervisorInv, SupervisorTypeOK
  <1>4. RunTransaction(r) /\ UNCHANGED <<runState, providerFacts, toolCalls, toolFacts>>
    BY LedgerUntouched DEF SupervisorInv, LedgerInv
  <1>5. runState'[r] # "none"
    BY <1>4 DEF SupervisorInv, Ownership
  <1>6. \A t \in Turns, k \in Calls : Unsettled(r, t, k)' => Quiet(r)'
    BY <1>4, OperationsKept DEF SupervisorInv, CallsBetweenTurns
  <1> QED
    BY <1>1, <1>2, <1>3, <1>4, <1>5, <1>6, TaskMove

\* Assigning no local variable.
LEMMA SameLocal ==
  ASSUME SupervisorInv, NEW r \in Runs, UNCHANGED local
  PROVE  local' = [local EXCEPT ![r] = local[r]] /\ local[r] \in LocalType
  BY DEF SupervisorInv, SupervisorTypeOK

\* Another stage of a task.
LEMMA Goes ==
  ASSUME SupervisorInv, NEW r \in Runs, NEW stage, TaskGoes(r, stage)
  PROVE  task'[r] = stage
  BY DEF SupervisorInv, SupervisorTypeOK, TaskGoes

\* A refusal, for want of room or of a route, is the end of the task.
LEMMA RefusedKeeps ==
  ASSUME SupervisorInv, NEW r \in Runs, Running(r), IsLive(r), Refused(r), TaskOnly,
         \/ TranscriptFull(SessionOf[r])
         \/ local[r].route = "ExaPolicyDenied" /\ SearchNotAdmitted(r)
  PROVE  SupervisorInv' /\ [LedgerNext]_ledgerVars
  <1>1. TaskGoes(r, "error") /\ UNCHANGED <<ledgerVars, local>> /\ task'[r] = "error"
    BY Goes DEF Refused
  <1>2. /\ IsLive(r)'
        /\ \/ TranscriptFull(SessionOf[r])'
           \/ local'[r].route = "ExaPolicyDenied" /\ SearchNotAdmitted(r)'
    <2>1. UNCHANGED <<runState, highWater, toolCalls, toolFacts, searches, local>>
      BY <1>1 DEF TaskOnly, ledgerVars, runVars, toolVars
    <2> QED
      BY <2>1 DEF IsLive, TranscriptFull, SearchNotAdmitted, ToolPending, ToolSettled
  <1>3. StageAgrees(r)'
    BY <1>1, <1>2 DEF StageAgrees
  <1> QED
    BY <1>1, <1>3, SameLocal, TaskThinks DEF TaskStages

\* The row of the task's search is written.
LEMMA TaskSearches ==
  ASSUME SupervisorInv, NEW r \in Runs, Running(r), TaskFrame, UNCHANGED <<ledgerVars, local>>,
         SearchMove(r), NEW stage \in TaskStages \ {"none"}, TaskGoes(r, stage), StageAgrees(r)'
  PROVE  SupervisorInv' /\ [LedgerNext]_ledgerVars
  <1>1. local' \in [Runs -> LocalType] /\ \A q \in Runs \ {r} : local'[q] = local[q]
    BY DEF SupervisorInv, SupervisorTypeOK
  <1>2. UNCHANGED <<server, starts, faults, admission, stopping, handlerVars, controlVars>>
    BY DEF TaskFrame, serverVars
  <1>3. /\ faults' \in Nat /\ faults' >= faults
        /\ stopping' \in BOOLEAN /\ (stopping => stopping')
    BY <1>2 DEF SupervisorInv, SupervisorTypeOK
  <1>4. RunTransaction(r) /\ UNCHANGED <<runState, providerFacts, toolCalls, toolFacts>>
    BY LedgerUntouched DEF SupervisorInv, LedgerInv
  <1>5. runState'[r] # "none"
    BY <1>4 DEF SupervisorInv, Ownership
  <1>6. \A t \in Turns, k \in Calls : Unsettled(r, t, k)' => Quiet(r)'
    BY <1>4, OperationsKept DEF SupervisorInv, CallsBetweenTurns
  <1> QED
    BY <1>1, <1>2, <1>3, <1>4, <1>5, <1>6, TaskMove

\* A transaction that ends the run, the task's last.
LEMMA TaskEndsRun ==
  ASSUME SupervisorInv, NEW r \in Runs, Running(r), TaskOnly, LedgerNext, RunTransaction(r),
         NothingBegun(r), UNCHANGED <<toolCalls, toolFacts>>,
         runState'[r] \in TerminalRunStates, TaskGoes(r, "exit"), UNCHANGED local
  PROVE  SupervisorInv' /\ [LedgerNext]_ledgerVars
  BY EndOfRun, Goes, SameLocal, TaskTransaction DEF TaskStages

\* The tasks that end their runs with no operation in hand.
LEMMA FinishesBetweenTurns ==
  ASSUME SupervisorInv, NEW r \in Runs, NEW kind \in {"stopped", "failed"},
         task[r] \in {"boundary", "compact", "prepare", "tool_stop"},
         TaskFinishes(r, 0, kind), TaskOnly \/ ProviderFailure
  PROVE  SupervisorInv' /\ LedgerNext
  <1>1. IsLive(r) /\ Quiet(r) /\ NothingBegun(r)
    BY WorkingStages DEF SupervisorInv, StageAgrees, BetweenTurns
  <1> QED
    BY <1>1, TaskFinishesKeeps DEF Running

\* The tasks that end their runs together with the operation they hold.
LEMMA FinishesOperation ==
  ASSUME SupervisorInv, NEW r \in Runs, NEW kind \in {"stopped", "failed", "uncertain"},
         task[r] \in {"prepared", "dispatch", "execute"},
         TaskFinishes(r, local[r].turn, kind), TaskOnly \/ ProviderFailure
  PROVE  SupervisorInv' /\ LedgerNext
  <1>1. IsLive(r) /\ NothingBegun(r)
    BY WorkingStages DEF SupervisorInv, StageAgrees, AtOperation
  <1>2. local[r].turn \in Turns /\ ProviderPending(r, local[r].turn)
    BY DEF SupervisorInv, StageAgrees, AtOperation
  <1> QED
    BY <1>1, <1>2, TaskFinishesKeeps DEF Running

--------------------------------------------------------------------------------
(* The task's actions, one by one. *)

\* The accepted run is activated, or cancelled before it began.
LEMMA ActivateKeeps ==
  ASSUME SupervisorInv, NEW r \in Runs, TaskActivate(r)
  PROVE  SupervisorInv' /\ [LedgerNext]_ledgerVars
  <1>1. /\ runState[r] = "accepted" /\ local[r] = NewTask /\ IsLive(r) /\ Running(r)
        /\ Quiet(r) /\ AllSettled(r) /\ TurnsAre(r, 0) /\ NothingBegun(r)
    BY WorkingStages DEF SupervisorInv, StageAgrees, TaskActivate, Running, IsLive, LiveRunStates
  <1>2. /\ ActivateRun(r)
        /\ TaskGoes(r, IF runState'[r] = "active" THEN "boundary" ELSE "exit")
        /\ UNCHANGED local /\ TaskOnly
    BY <1>1 DEF TaskActivate, AlreadyOver
  <1>3. LedgerNext /\ RunTransaction(r)
    BY <1>1, <1>2, StepIsLocal DEF RunStep, SupervisorInv, LedgerInv
  <1>4. UNCHANGED <<providerFacts, toolCalls, toolFacts>>
    BY <1>2 DEF ActivateRun, providerVars, toolVars
  <1>5. runState'[r] \in {"cancelled", "active"}
    BY <1>2 DEF ActivateRun, AppendRunTransition, SupervisorInv, LedgerInv, LedgerTypeOK
  <1>6. CASE runState'[r] = "active"
    <2>1. task'[r] = "boundary" /\ local'[r] = NewTask
      BY <1>1, <1>2, <1>6, Goes
    <2>2. BetweenTurns(r)'
      <3>1. Quiet(r)' /\ AllSettled(r)' /\ TurnsAre(r, 0)'
        BY <1>1, <1>4, OperationsKept DEF TurnsAre
      <3> QED
        BY <1>6, <2>1, <3>1, SupervisorBoundAssumption, BoundAssumption DEF BetweenTurns, NewTask
    <2> QED
      BY <1>1, <1>2, <1>3, <1>6, <2>1, <2>2, SameLocal, TaskTransaction
      DEF StageAgrees, TaskStages, BetweenTurns
  <1>7. CASE runState'[r] = "cancelled"
    BY <1>1, <1>2, <1>3, <1>4, <1>7, TaskEndsRun DEF TerminalRunStates
  <1> QED
    BY <1>5, <1>6, <1>7

\* Between turns the task stops, fails, compacts or takes the context it will send.
LEMMA BoundaryKeeps ==
  ASSUME SupervisorInv, NEW r \in Runs, TaskBoundary(r)
  PROVE  SupervisorInv' /\ [LedgerNext]_ledgerVars
  <1>1. task[r] = "boundary" /\ BetweenTurns(r) /\ Running(r) /\ TaskOnly /\ local[r] \in LocalType
    BY WorkingStages DEF SupervisorInv, StageAgrees, TaskBoundary, Running
  <1>2. ASSUME NEW kind \in {"stopped", "failed"}, TaskFinishes(r, 0, kind)
        PROVE  SupervisorInv' /\ LedgerNext
    <2>1. task[r] \in {"boundary", "compact", "prepare", "tool_stop"}
      BY <1>1
    <2> QED
      BY <1>1, <1>2, <2>1, FinishesBetweenTurns
  <1>3. CASE /\ TaskGoes(r, "prepare")
             /\ local' = [local EXCEPT ![r].source = highWater[SessionOf[r]]]
             /\ UNCHANGED ledgerVars
    <2> DEFINE x == [local[r] EXCEPT !.source = highWater[SessionOf[r]]]
    <2>1. highWater[SessionOf[r]] \in Nat
      BY SessionOfAssumption, BoundAssumption DEF SupervisorInv, LedgerInv, LedgerTypeOK
    <2>2. x \in LocalType /\ x.turn = local[r].turn /\ x.source = highWater[SessionOf[r]]
      BY <1>1, <2>1 DEF LocalType
    <2>3. local' = [local EXCEPT ![r] = x] /\ local'[r] = x
      BY <1>3 DEF SupervisorInv, SupervisorTypeOK
    <2>4. task'[r] = "prepare"
      BY <1>3, Goes
    <2>5. BetweenTurns(r)' /\ highWater'[SessionOf[r]] = highWater[SessionOf[r]]
      <3>1. UNCHANGED <<runState, highWater, providerFacts, toolCalls, toolFacts>>
        BY <1>3 DEF ledgerVars, runVars, providerVars, toolVars
      <3> QED
        BY <1>1, <2>2, <2>3, <3>1, OperationsKept DEF BetweenTurns, TurnsAre
    <2>6. StageAgrees(r)'
      BY <2>2, <2>3, <2>4, <2>5 DEF StageAgrees
    <2> HIDE DEF x
    <2> QED
      BY <1>1, <1>3, <2>2, <2>3, <2>6, TaskThinks DEF TaskStages
  <1>4. CASE TaskGoes(r, "compact") /\ UNCHANGED <<ledgerVars, local>>
    <2>1. task'[r] = "compact"
      BY <1>4, Goes
    <2>2. BetweenTurns(r)'
      BY <1>1, <1>4, OperationsKept
      DEF BetweenTurns, TurnsAre, ledgerVars, runVars, providerVars, toolVars
    <2> QED
      BY <1>1, <1>4, <2>1, <2>2, SameLocal, TaskThinks DEF StageAgrees, TaskStages
  <1> QED
    BY <1>2, <1>3, <1>4 DEF TaskBoundary

\* A compaction that ends leads back to the boundary.
LEMMA CompactsKeeps ==
  ASSUME SupervisorInv, NEW r \in Runs, TaskCompacts(r)
  PROVE  SupervisorInv' /\ [LedgerNext]_ledgerVars
  <1>1. task[r] = "compact" /\ BetweenTurns(r) /\ Running(r) /\ local[r] \in LocalType
    BY WorkingStages DEF SupervisorInv, StageAgrees, TaskCompacts, Running
  <1>2. CASE TaskFinishes(r, 0, "failed") /\ ProviderFailure
    <2>1. task[r] \in {"boundary", "compact", "prepare", "tool_stop"}
      BY <1>1
    <2> QED
      BY <1>2, <2>1, FinishesBetweenTurns
  <1>3. CASE /\ TaskGoes(r, "boundary")
             /\ local' = [local EXCEPT ![r].compactions = @ + 1, ![r].mustCompact = FALSE]
             /\ UNCHANGED ledgerVars
             /\ TaskOnly
    <2> DEFINE x == [local[r] EXCEPT !.compactions = @ + 1, !.mustCompact = FALSE]
    <2>1. x \in LocalType /\ x.turn = local[r].turn
      <3>1. local[r].compactions + 1 \in Nat
        BY <1>1 DEF LocalType
      <3> QED
        BY <1>1, <3>1 DEF LocalType
    <2>2. local' = [local EXCEPT ![r] = x] /\ local'[r] = x
      BY <1>3 DEF SupervisorInv, SupervisorTypeOK
    <2>3. task'[r] = "boundary"
      BY <1>3, Goes
    <2>4. BetweenTurns(r)'
      <3>1. UNCHANGED <<runState, providerFacts, toolCalls, toolFacts>>
        BY <1>3 DEF ledgerVars, runVars, providerVars, toolVars
      <3> QED
        BY <1>1, <2>1, <2>2, <3>1, OperationsKept DEF BetweenTurns, TurnsAre
    <2>5. StageAgrees(r)'
      BY <2>3, <2>4 DEF StageAgrees
    <2> HIDE DEF x
    <2> QED
      BY <1>1, <1>3, <2>1, <2>2, <2>5, TaskThinks DEF TaskStages
  <1> QED
    BY <1>2, <1>3 DEF TaskCompacts

\* The turn after the first n is the one the ledger expects.
LEMMA NextTurnIs ==
  ASSUME NEW r \in Runs, NEW n \in Nat, TurnsAre(r, n)
  PROVE  /\ \A t \in Turns : IsNextTurn(r, t) => t = n + 1
         /\ n + 1 \in Turns => IsNextTurn(r, n + 1)
  <1>1. ASSUME NEW t \in Turns, IsNextTurn(r, t) PROVE t = n + 1
    <2>1. t \in Nat /\ ~(t <= n)
      BY <1>1, BoundAssumption DEF IsNextTurn, TurnsAre, Turns
    <2>2. ASSUME t # n + 1 PROVE FALSE
      <3>1. n + 1 \in 1..(t - 1) /\ n + 1 \in Turns
        BY <2>1, <2>2, BoundAssumption DEF Turns
      <3>2. providerFacts[<<r, n + 1>>] # {}
        BY <1>1, <3>1 DEF IsNextTurn
      <3>3. n + 1 <= n
        BY <3>1, <3>2 DEF TurnsAre
      <3> QED
        BY <3>3
    <2> QED
      BY <2>2
  <1>2. ASSUME n + 1 \in Turns PROVE IsNextTurn(r, n + 1)
    <2>1. \A u \in 1..((n + 1) - 1) : u \in Turns /\ u <= n
      BY <1>2, BoundAssumption DEF Turns
    <2> QED
      BY <1>2, <2>1 DEF IsNextTurn, TurnsAre, Turns
  <1> QED
    BY <1>1, <1>2

\* A provider fact of one operation leaves the run's calls as they were.
LEMMA CallsKept ==
  ASSUME NEW r \in Runs, UNCHANGED <<toolCalls, toolFacts>>
  PROVE  /\ AllSettled(r)' <=> AllSettled(r)
         /\ NothingBegun(r)' <=> NothingBegun(r)
         /\ \A t \in Turns, k \in Calls : Unsettled(r, t, k)' <=> Unsettled(r, t, k)
  BY DEF AllSettled, NothingBegun, Unsettled, IsCall, ToolSettled

\* The operation that follows the last is prepared, from the context just loaded.
LEMMA PrepareKeeps ==
  ASSUME SupervisorInv, NEW r \in Runs, TaskPrepare(r)
  PROVE  SupervisorInv' /\ [LedgerNext]_ledgerVars
  <1> DEFINE n == local[r].turn
  <1>1. /\ task[r] = "prepare" /\ BetweenTurns(r) /\ Running(r) /\ local[r] \in LocalType
        /\ local[r].source = highWater[SessionOf[r]]
        /\ IsLive(r) /\ NothingBegun(r)
    BY WorkingStages DEF SupervisorInv, StageAgrees, BetweenTurns, TaskPrepare, Running
  <1>2. n \in Nat /\ n + 1 \in Turns /\ TurnsAre(r, n) /\ Quiet(r) /\ AllSettled(r)
        /\ runState[r] = "active"
    BY <1>1, BoundAssumption DEF BetweenTurns, LocalType, Turns
  <1>3. CASE TaskFinishes(r, 0, "failed") /\ ProviderFailure
    <2>1. task[r] \in {"boundary", "compact", "prepare", "tool_stop"}
      BY <1>1
    <2> QED
      BY <1>3, <2>1, FinishesBetweenTurns
  <1>4. ASSUME NEW t \in Turns, PrepareProviderOperation(r, t, local[r].source), TaskOnly,
               IF runState'[r] = "active"
                 THEN TaskGoes(r, "prepared") /\ local' = [local EXCEPT ![r].turn = t]
                 ELSE TaskGoes(r, "exit") /\ UNCHANGED local
        PROVE  SupervisorInv' /\ [LedgerNext]_ledgerVars
    <2>1. PrepareProviderOperation(r, t, highWater[SessionOf[r]])
      BY <1>1, <1>4
    <2>2. LedgerNext /\ RunTransaction(r)
      BY <1>2, <2>1, StepIsLocal DEF ProviderStep, SupervisorInv, LedgerInv
    <2>3. UNCHANGED <<toolCalls, toolFacts>>
      BY <1>4 DEF PrepareProviderOperation, toolVars
    <2>4. CASE cancelRequested[r]
      <3>1. runState'[r] = "cancelled"
        BY <1>4, <2>4
        DEF PrepareProviderOperation, AppendRunTransition, SupervisorInv, LedgerInv, LedgerTypeOK
      <3> QED
        BY <1>1, <1>4, <2>2, <2>3, <3>1, TaskEndsRun DEF TerminalRunStates
    <2>5. CASE ~cancelRequested[r]
      <3>1. /\ CanPrepareProvider(r, t, local[r].source)
            /\ providerFacts' = [providerFacts EXCEPT ![<<r, t>>] = {"prepared"}]
            /\ UNCHANGED runState
        BY <1>4, <2>5 DEF PrepareProviderOperation, runVars
      <3>2. t = n + 1
        BY <1>2, <3>1, NextTurnIs DEF CanPrepareProvider
      <3> DEFINE x == [local[r] EXCEPT !.turn = t]
      <3>3. TaskGoes(r, "prepared") /\ local' = [local EXCEPT ![r] = x] /\ local'[r] = x
        BY <1>2, <1>4, <3>1 DEF SupervisorInv, SupervisorTypeOK
      <3>4. x \in LocalType /\ x.turn = t
        BY <1>1, BoundAssumption DEF LocalType, Turns
      <3> HIDE DEF x
      <3>5. /\ providerFacts'[<<r, t>>] = {"prepared"}
            /\ \A u \in Turns : u # t => providerFacts'[<<r, u>>] = providerFacts[<<r, u>>]
        BY <3>1 DEF SupervisorInv, LedgerInv, LedgerTypeOK
      <3>6. AtOperation(r)'
        <4>1. ProviderPending(r, t)'
          BY <3>5 DEF ProviderPending, TerminalProviderFacts
        <4>2. TurnsAre(r, t)'
          BY <1>2, <3>2, <3>5, BoundAssumption DEF TurnsAre, Turns
        <4>3. AllSettled(r)'
          BY <1>2, <2>3, CallsKept
        <4>4. local'[r].turn = t /\ runState'[r] = "active"
          BY <1>2, <3>1, <3>3, <3>4
        <4> QED
          BY <4>1, <4>2, <4>3, <4>4 DEF AtOperation
      <3>7. StageAgrees(r)'
        <4>1. task'[r] = "prepared"
          BY <3>3, Goes
        <4> QED
          BY <3>3, <3>4, <3>5, <3>6, <4>1 DEF StageAgrees
      <3>8. \A u \in Turns, k \in Calls : ~Unsettled(r, u, k)'
        BY <3>6 DEF AtOperation, AllSettled
      <3>9. runState'[r] # "none"
        BY <1>2, <3>1
      <3> QED
        BY <1>1, <1>4, <2>2, <3>3, <3>4, <3>7, <3>8, <3>9, TaskTransaction DEF TaskStages
    <2> QED
      BY <2>4, <2>5
  <1>5. ~\A t \in Turns : ~CanPrepareProvider(r, t, local[r].source)
    BY <1>1, <1>2, NextTurnIs DEF CanPrepareProvider, Quiet
  <1> QED
    BY <1>1, <1>3, <1>4, <1>5 DEF TaskPrepare, AlreadyOver

\* Before its dispatch the operation can still be given up.
LEMMA PreparedKeeps ==
  ASSUME SupervisorInv, NEW r \in Runs, TaskPrepared(r)
  PROVE  SupervisorInv' /\ [LedgerNext]_ledgerVars
  <1>1. /\ task[r] = "prepared" /\ AtOperation(r) /\ Running(r)
        /\ "dispatched" \notin providerFacts[<<r, local[r].turn>>]
    BY DEF SupervisorInv, StageAgrees, TaskPrepared, Running
  <1>2. ASSUME NEW kind \in {"stopped", "failed"}, TaskFinishes(r, local[r].turn, kind),
               TaskOnly \/ ProviderFailure
        PROVE  SupervisorInv' /\ LedgerNext
    <2>1. task[r] \in {"prepared", "dispatch", "execute"}
      BY <1>1
    <2> QED
      BY <1>2, <2>1, FinishesOperation
  <1>3. CASE TaskGoes(r, "dispatch") /\ UNCHANGED <<ledgerVars, local>> /\ TaskOnly
    <2>1. task'[r] = "dispatch" /\ UNCHANGED <<runState, providerFacts, toolCalls, toolFacts, local>>
      BY <1>3, Goes DEF ledgerVars, runVars, providerVars, toolVars
    <2>2. AtOperation(r)'
      BY <1>1, <2>1, OperationsKept DEF AtOperation, TurnsAre
    <2> QED
      BY <1>1, <1>3, <2>1, <2>2, SameLocal, TaskThinks DEF StageAgrees, TaskStages
  <1> QED
    BY <1>2, <1>3 DEF TaskPrepared

\* The dispatch is recorded, or the cancelled run ends before it.
LEMMA DispatchKeeps ==
  ASSUME SupervisorInv, NEW r \in Runs, TaskDispatch(r)
  PROVE  SupervisorInv' /\ [LedgerNext]_ledgerVars
  <1> DEFINE t == local[r].turn
  <1>1. /\ task[r] = "dispatch" /\ AtOperation(r) /\ Running(r) /\ IsLive(r) /\ NothingBegun(r)
        /\ "dispatched" \notin providerFacts[<<r, t>>]
    BY WorkingStages DEF SupervisorInv, StageAgrees, AtOperation, TaskDispatch, Running
  <1>2. t \in Turns /\ ProviderPending(r, t) /\ TurnsAre(r, t) /\ AllSettled(r)
        /\ runState[r] = "active"
    BY <1>1 DEF AtOperation
  <1>3. CASE TaskFinishes(r, t, "failed") /\ TaskOnly
    <2>1. task[r] \in {"prepared", "dispatch", "execute"}
      BY <1>1
    <2> QED
      BY <1>3, <2>1, FinishesOperation
  <1>4. CASE /\ MarkProviderDispatched(r, t) /\ UNCHANGED local /\ TaskOnly
             /\ TaskGoes(r, IF runState'[r] = "active" THEN "execute" ELSE "exit")
    <2>1. LedgerNext /\ RunTransaction(r)
      BY <1>1, <1>2, <1>4, StepIsLocal DEF ProviderStep, SupervisorInv, LedgerInv
    <2>2. UNCHANGED <<toolCalls, toolFacts>>
      BY <1>4 DEF MarkProviderDispatched, toolVars
    <2>3. CASE cancelRequested[r]
      <3>1. runState'[r] = "cancelled"
        BY <1>4, <2>3
        DEF MarkProviderDispatched, AppendRunTransition, SupervisorInv, LedgerInv, LedgerTypeOK
      <3> QED
        BY <1>1, <1>4, <2>1, <2>2, <3>1, TaskEndsRun DEF TerminalRunStates
    <2>4. CASE ~cancelRequested[r]
      <3>1. AddProviderFact(r, t, "dispatched") /\ UNCHANGED runState
        BY <1>4, <2>4 DEF MarkProviderDispatched, runVars
      <3>2. TaskGoes(r, "execute") /\ task'[r] = "execute" /\ UNCHANGED local
        BY <1>2, <1>4, <3>1, Goes
      <3>3. /\ providerFacts'[<<r, t>>] = providerFacts[<<r, t>>] \cup {"dispatched"}
            /\ \A u \in Turns : u # t => providerFacts'[<<r, u>>] = providerFacts[<<r, u>>]
        BY <1>2, <3>1 DEF AddProviderFact, SupervisorInv, LedgerInv, LedgerTypeOK
      <3>4. AtOperation(r)'
        <4>1. ProviderPending(r, t)'
          BY <1>2, <3>2, <3>3 DEF ProviderPending, TerminalProviderFacts
        <4>2. TurnsAre(r, t)'
          BY <1>2, <3>2, <3>3 DEF TurnsAre, ProviderPending
        <4>3. AllSettled(r)'
          BY <1>2, <2>2, CallsKept
        <4> QED
          BY <1>2, <3>1, <3>2, <4>1, <4>2, <4>3 DEF AtOperation
      <3>5. StageAgrees(r)'
        BY <3>2, <3>3, <3>4 DEF StageAgrees
      <3>6. \A u \in Turns, k \in Calls : ~Unsettled(r, u, k)'
        BY <3>4 DEF AtOperation, AllSettled
      <3>7. runState'[r] # "none"
        BY <1>2, <3>1
      <3> QED
        BY <1>1, <1>4, <2>1, <3>2, <3>5, <3>6, <3>7, SameLocal, TaskTransaction DEF TaskStages
    <2> QED
      BY <2>3, <2>4
  <1> QED
    BY <1>1, <1>2, <1>3, <1>4 DEF TaskDispatch

\* A call that fails ends its run with the operation.
LEMMA CallFailedKeeps ==
  ASSUME SupervisorInv, NEW r \in Runs, TaskCallFailed(r)
  PROVE  SupervisorInv' /\ [LedgerNext]_ledgerVars
  <1>1. task[r] \in {"prepared", "dispatch", "execute"}
    BY DEF TaskCallFailed
  <1> QED
    BY <1>1, FinishesOperation DEF TaskCallFailed

\* Whatever settles the pending operation leaves none pending and adds no turn.
LEMMA SettledOperation ==
  ASSUME LedgerTypeOK, NEW r \in Runs, NEW t \in Turns, ProviderPending(r, t), TurnsAre(r, t),
         \A u \in Turns : ProviderPending(r, u) => u = t,
         NEW fact \in TerminalProviderFacts, AddProviderFact(r, t, fact)
  PROVE  Quiet(r)' /\ TurnsAre(r, t)'
  <1>1. /\ providerFacts'[<<r, t>>] = providerFacts[<<r, t>>] \cup {fact}
        /\ \A u \in Turns : u # t => providerFacts'[<<r, u>>] = providerFacts[<<r, u>>]
    BY DEF AddProviderFact, LedgerTypeOK
  <1>2. TurnsAre(r, t)'
    BY <1>1 DEF TurnsAre, ProviderPending
  <1>3. \A u \in Turns : ~ProviderPending(r, u)'
    BY <1>1 DEF ProviderPending
  <1> QED
    BY <1>2, <1>3 DEF Quiet

\* A run has one operation pending at most: no other turn has a fact without a
\* terminal one.
LEMMA OnePending ==
  ASSUME LedgerInv, NEW r \in Runs, NEW t \in Turns, NEW u \in Turns,
         ProviderPending(r, t), ProviderPending(r, u)
  PROVE  u = t
  BY DEF LedgerInv, PendingOperationNeedsLiveRun

\* A pending operation has no call yet, and no fact of one.
LEMMA NoCallWhilePending ==
  ASSUME LedgerTypeOK, LedgerShape, NEW r \in Runs, NEW t \in Turns, ProviderPending(r, t)
  PROVE  \A k \in Calls : toolFacts[<<r, t, k>>] = {}
  <1>1. Len(toolCalls[<<r, t>>]) = 0
    BY DEF LedgerShape, ProviderPending, TerminalProviderFacts
  <1>2. \A k \in Calls : ~IsCall(r, t, k)
    BY <1>1, BoundAssumption DEF IsCall, Calls
  <1> QED
    BY <1>2 DEF LedgerShape

\* An operation whose answer is a batch of calls: the first is next.
LEMMA BatchBegins ==
  ASSUME LedgerInv, LedgerShape, NEW r \in Runs, NEW t \in Turns, ProviderPending(r, t),
         TurnsAre(r, t), AllSettled(r), NEW calls \in CallBatches, NEW commentary \in {0, 1},
         CompleteProviderToolTurn(r, t, calls, commentary)
  PROVE  /\ runState'[r] = "active" /\ Quiet(r)' /\ TurnsAre(r, t)'
         /\ \A u \in Turns, j \in Calls : Unsettled(r, u, j)' => u = t
         /\ \A j \in Calls : toolFacts'[<<r, t, j>>] = {}
  <1>1. /\ AddProviderFact(r, t, "completed")
        /\ toolCalls' = [toolCalls EXCEPT ![<<r, t>>] = calls]
        /\ UNCHANGED <<runState, toolFacts>>
        /\ runState[r] = "active"
    BY DEF CompleteProviderToolTurn, runVars
  <1>2. Quiet(r)' /\ TurnsAre(r, t)'
    BY <1>1, SettledOperation, OnePending DEF LedgerInv, TerminalProviderFacts
  <1>3. \A u \in Turns, j \in Calls : Unsettled(r, u, j)' => u = t
    BY <1>1 DEF LedgerInv, LedgerTypeOK, AllSettled, Unsettled, IsCall, ToolSettled
  <1> QED
    BY <1>1, <1>2, <1>3, NoCallWhilePending DEF LedgerInv

\* An answer that is no failure: the context is rejected, the run succeeds, or its
\* calls begin.  Nothing but a full transcript makes the ledger refuse it.
LEMMA AnsweredKeeps ==
  ASSUME SupervisorInv, NEW r \in Runs, TaskAnswered(r)
  PROVE  SupervisorInv' /\ [LedgerNext]_ledgerVars
  <1> DEFINE t == local[r].turn
  <1>1. /\ task[r] = "execute" /\ AtOperation(r) /\ Running(r) /\ IsLive(r) /\ NothingBegun(r)
        /\ "dispatched" \in providerFacts[<<r, t>>] /\ TaskOnly /\ local[r] \in LocalType
    BY WorkingStages DEF SupervisorInv, StageAgrees, AtOperation, TaskAnswered, Running
  <1>2. /\ t \in Turns /\ ProviderPending(r, t) /\ TurnsAre(r, t) /\ AllSettled(r)
        /\ runState[r] = "active" /\ ProviderInFlight(r, t) /\ SourceUnchanged(r, t)
    BY <1>1 DEF AtOperation, ProviderInFlight, SupervisorInv, LedgerInv,
                PendingOperationSeesTranscript
  <1>3. CASE /\ t < MaxTurns
             /\ SettleContextRejection(r, t)
             /\ TaskGoes(r, "boundary")
             /\ local' = [local EXCEPT ![r].mustCompact = TRUE]
    <2>1. LedgerNext /\ RunTransaction(r)
      BY <1>2, <1>3, StepIsLocal DEF ProviderStep, SupervisorInv, LedgerInv
    <2>2. AddProviderFact(r, t, "failed") /\ UNCHANGED <<runState, toolCalls, toolFacts>>
      BY <1>3 DEF SettleContextRejection, runVars, toolVars
    <2>3. Quiet(r)' /\ \A u \in Turns : providerFacts'[<<r, u>>] # {} <=> u <= t
      BY <1>2, <2>2, SettledOperation, OnePending
      DEF SupervisorInv, LedgerInv, TerminalProviderFacts, TurnsAre
    <2> DEFINE x == [local[r] EXCEPT !.mustCompact = TRUE]
    <2>4. x \in LocalType /\ x.turn = t
      BY <1>1 DEF LocalType
    <2>5. local' = [local EXCEPT ![r] = x] /\ local'[r] = x
      BY <1>3 DEF SupervisorInv, SupervisorTypeOK
    <2> HIDE DEF x
    <2>6. BetweenTurns(r)'
      BY <1>2, <1>3, <2>2, <2>3, <2>4, <2>5, CallsKept DEF BetweenTurns, TurnsAre
    <2>7. StageAgrees(r)'
      BY <1>3, <2>6, Goes DEF StageAgrees
    <2> QED
      BY <1>1, <1>2, <1>3, <2>1, <2>2, <2>3, <2>4, <2>5, <2>7, TaskTransaction DEF TaskStages
  <1>4. CASE CompleteRunSuccess(r, t) /\ TaskGoes(r, "exit") /\ UNCHANGED local
    <2>1. LedgerNext /\ RunTransaction(r)
      BY <1>2, <1>4, StepIsLocal DEF ProviderStep, SupervisorInv, LedgerInv
    <2>2. UNCHANGED <<toolCalls, toolFacts>> /\ runState'[r] \in TerminalRunStates
      BY <1>4 DEF CompleteRunSuccess, AppendRunTransition, toolVars, TerminalRunStates,
                  SupervisorInv, LedgerInv, LedgerTypeOK
    <2> QED
      BY <1>1, <1>4, <2>1, <2>2, TaskEndsRun
  <1>5. ASSUME NEW calls \in CallBatches, NEW commentary \in {0, 1}, t < MaxTurns,
               CompleteProviderToolTurn(r, t, calls, commentary),
               TaskGoes(r, "tools"), local' = [local EXCEPT ![r].call = 1]
        PROVE  SupervisorInv' /\ [LedgerNext]_ledgerVars
    <2>1. LedgerNext /\ RunTransaction(r)
      BY <1>2, <1>5, StepIsLocal DEF ProviderStep, SupervisorInv, LedgerInv
    <2>2. /\ runState'[r] = "active" /\ Quiet(r)'
          /\ \A u \in Turns : providerFacts'[<<r, u>>] # {} <=> u <= t
          /\ \A u \in Turns, j \in Calls : Unsettled(r, u, j)' => u = t
          /\ \A j \in Calls : toolFacts'[<<r, t, j>>] = {}
      BY <1>2, <1>5, BatchBegins DEF SupervisorInv, TurnsAre
    <2> DEFINE x == [local[r] EXCEPT !.call = 1]
    <2>3. x \in LocalType /\ x.turn = t /\ x.call = 1
      BY <1>1 DEF LocalType
    <2>4. local' = [local EXCEPT ![r] = x] /\ local'[r] = x
      BY <1>5 DEF SupervisorInv, SupervisorTypeOK
    <2> HIDE DEF x
    <2>5. \A j \in Calls : 1 <= j
      BY BoundAssumption DEF Calls
    <2>6. InBatch(r, local[r].call)'
      BY <1>2, <1>5, <2>2, <2>3, <2>4, <2>5 DEF InBatch, TurnsAre
    <2>7. StageAgrees(r)'
      BY <1>5, <2>2, <2>3, <2>4, <2>6, Goes DEF StageAgrees
    <2> QED
      BY <1>1, <1>5, <2>1, <2>2, <2>3, <2>4, <2>7, TaskTransaction DEF TaskStages
  <1>6. CASE highWater[SessionOf[r]] + 1 > MaxEntries /\ Refused(r)
    <2>1. TranscriptFull(SessionOf[r])
      BY <1>6, SessionOfAssumption, BoundAssumption
      DEF TranscriptFull, SupervisorInv, LedgerInv, LedgerTypeOK
    <2> QED
      BY <1>1, <1>6, <2>1, RefusedKeeps
  <1> QED
    BY <1>2, <1>3, <1>4, <1>5, <1>6 DEF TaskAnswered

--------------------------------------------------------------------------------
(* The task's actions on a batch of calls. *)

\* What the next facts of a call leave of the batch: the calls before it are
\* settled, those after it are not begun.
LEMMA CallAdvances ==
  ASSUME LedgerTypeOK, NEW r \in Runs, NEW t \in Turns, NEW k \in Calls,
         NEW fact, AddToolFact(r, t, k, fact), UNCHANGED providerFacts,
         Quiet(r), TurnsAre(r, t),
         \A u \in Turns, j \in Calls : Unsettled(r, u, j) => u = t /\ k <= j,
         \A j \in Calls : k < j => toolFacts[<<r, t, j>>] = {}
  PROVE  /\ Quiet(r)' /\ TurnsAre(r, t)'
         /\ toolFacts'[<<r, t, k>>] = toolFacts[<<r, t, k>>] \cup {fact}
         /\ IsCall(r, t, k)' <=> IsCall(r, t, k)
         /\ \A j \in Calls : k < j => toolFacts'[<<r, t, j>>] = {}
         /\ \A u \in Turns, j \in Calls : Unsettled(r, u, j)' =>
              u = t /\ k <= j /\ (fact \in TerminalToolFacts => k < j)
  <1>1. /\ UNCHANGED toolCalls
        /\ toolFacts'[<<r, t, k>>] = toolFacts[<<r, t, k>>] \cup {fact}
        /\ \A u \in Turns, j \in Calls :
             u # t \/ j # k => toolFacts'[<<r, u, j>>] = toolFacts[<<r, u, j>>]
    BY DEF AddToolFact, LedgerTypeOK
  <1>2. Quiet(r)' /\ TurnsAre(r, t)'
    BY DEF Quiet, ProviderPending, TurnsAre
  <1>3. k \in Nat /\ \A j \in Calls : j \in Nat
    BY BoundAssumption DEF Calls
  <1>4. ASSUME NEW u \in Turns, NEW j \in Calls, Unsettled(r, u, j)'
        PROVE  u = t /\ k <= j /\ (fact \in TerminalToolFacts => k < j)
    <2>1. IsCall(r, u, j) /\ toolFacts'[<<r, u, j>>] \cap TerminalToolFacts = {}
      BY <1>1, <1>4 DEF Unsettled, IsCall, ToolSettled
    <2>2. Unsettled(r, u, j)
      BY <1>1, <2>1 DEF Unsettled, ToolSettled
    <2>3. u = t /\ k <= j
      BY <2>2
    <2>4. fact \in TerminalToolFacts => j # k
      BY <1>1, <2>1, <2>3
    <2> QED
      BY <1>3, <2>3, <2>4
  <1>5. IsCall(r, t, k)' <=> IsCall(r, t, k)
    BY <1>1 DEF IsCall
  <1> QED
    BY <1>1, <1>2, <1>3, <1>4, <1>5

\* A call in reach of a run's task is settled unless the task has come to it.
LEMMA BatchCall ==
  ASSUME SupervisorInv, NEW r \in Runs, task[r] \in BatchStages
  PROVE  /\ InBatch(r, local[r].call) /\ local[r] \in LocalType /\ Running(r) /\ IsLive(r)
         /\ local[r].turn \in Turns /\ local[r].call \in Nat \ {0}
         /\ \A j \in Calls : IsCall(r, local[r].turn, j) /\ j < local[r].call =>
              ToolSettled(r, local[r].turn, j)
  <1>1. InBatch(r, local[r].call) /\ local[r] \in LocalType /\ Running(r) /\ IsLive(r)
    BY WorkingStages DEF SupervisorInv, StageAgrees, Running, BatchStages, DispatchedStages
  <1>2. local[r].turn \in Turns /\ local[r].call \in Nat \ {0}
    BY <1>1 DEF InBatch, LocalType
  <1>3. \A j \in Calls : j \in Nat
    BY BoundAssumption DEF Calls
  <1>4. ASSUME NEW j \in Calls, IsCall(r, local[r].turn, j), j < local[r].call
        PROVE  ToolSettled(r, local[r].turn, j)
    <2>1. Unsettled(r, local[r].turn, j) => local[r].call <= j
      BY <1>1, <1>2 DEF InBatch
    <2> QED
      BY <1>2, <1>3, <1>4, <2>1 DEF Unsettled
  <1> QED
    BY <1>1, <1>2, <1>4

\* The task prepares the next call of its batch; after the last it stops, or turns
\* to the provider again.
LEMMA ToolsKeeps ==
  ASSUME SupervisorInv, NEW r \in Runs, TaskTools(r)
  PROVE  SupervisorInv' /\ [LedgerNext]_ledgerVars
  <1> SUFFICES ASSUME NEW t, NEW k, t = local[r].turn, k = local[r].call
               PROVE  SupervisorInv' /\ [LedgerNext]_ledgerVars
    OBVIOUS
  <1>1. /\ task[r] = "tools" /\ TaskOnly /\ Running(r) /\ IsLive(r) /\ local[r] \in LocalType
        /\ t \in Turns /\ k \in Nat \ {0}
        /\ \A j \in Calls : IsCall(r, t, j) /\ j < k => ToolSettled(r, t, j)
        /\ k \in Calls => toolFacts[<<r, t, k>>] = {}
    BY BatchCall DEF TaskTools, SupervisorInv, StageAgrees, BatchStages
  <1>2. /\ runState[r] = "active" /\ Quiet(r) /\ TurnsAre(r, t) /\ t < MaxTurns
        /\ \A u \in Turns, j \in Calls : Unsettled(r, u, j) => u = t /\ k <= j
        /\ \A j \in Calls : k < j => toolFacts[<<r, t, j>>] = {}
    BY <1>1, BatchCall DEF InBatch, BatchStages
  <1>3. Len(toolCalls[<<r, t>>]) \in Nat /\ Len(toolCalls[<<r, t>>]) <= MaxCalls
    BY <1>1 DEF SupervisorInv, LedgerInv, LedgerTypeOK, LedgerShape
  <1>4. CASE k <= Len(toolCalls[<<r, t>>])
    <2>1. k \in Calls /\ IsCall(r, t, k)
      BY <1>1, <1>3, <1>4, BoundAssumption DEF Calls, IsCall
    <2>2. CanPrepareTool(r, t, k)
      <3>1. ASSUME NEW j \in 1..(k - 1) PROVE j \in Calls /\ IsCall(r, t, j) /\ j < k
        BY <1>1, <1>3, <1>4, BoundAssumption DEF Calls, IsCall
      <3> QED
        BY <1>1, <1>2, <2>1, <3>1 DEF CanPrepareTool
    <2>3. PrepareToolOperation(r, t, k) /\ TaskGoes(r, "tool_prepared") /\ UNCHANGED local
      BY <1>4, <2>2 DEF TaskTools
    <2>4. LedgerNext /\ RunTransaction(r)
      BY <1>1, <1>2, <2>1, <2>3, StepIsLocal DEF ToolStep, SupervisorInv, LedgerInv
    <2>5. AddToolFact(r, t, k, "prepared") /\ UNCHANGED <<runState, providerFacts>>
      BY <2>3 DEF PrepareToolOperation, runVars, providerVars
    <2>6. /\ Quiet(r)' /\ \A u \in Turns : providerFacts'[<<r, u>>] # {} <=> u <= t
          /\ toolFacts'[<<r, t, k>>] = {"prepared"} /\ IsCall(r, t, k)'
          /\ \A j \in Calls : k < j => toolFacts'[<<r, t, j>>] = {}
          /\ \A u \in Turns, j \in Calls : Unsettled(r, u, j)' => u = t /\ k <= j
      <3>1. LedgerTypeOK /\ toolFacts[<<r, t, k>>] \cup {"prepared"} = {"prepared"}
        BY <1>1, <2>1 DEF SupervisorInv, LedgerInv
      <3>2. /\ Quiet(r)' /\ TurnsAre(r, t)'
            /\ toolFacts'[<<r, t, k>>] = toolFacts[<<r, t, k>>] \cup {"prepared"}
            /\ IsCall(r, t, k)' <=> IsCall(r, t, k)
            /\ \A j \in Calls : k < j => toolFacts'[<<r, t, j>>] = {}
            /\ \A u \in Turns, j \in Calls : Unsettled(r, u, j)' => u = t /\ k <= j
        BY <1>1, <1>2, <2>1, <2>5, <3>1, CallAdvances
      <3> QED
        BY <2>1, <3>1, <3>2 DEF TurnsAre
    <2>7. InBatch(r, local[r].call)'
      BY <1>1, <1>2, <2>3, <2>5, <2>6 DEF InBatch, TurnsAre
    <2>8. CallIs(r, {"prepared"})'
      BY <2>1, <2>3, <2>6 DEF CallIs
    <2>9. StageAgrees(r)'
      BY <2>3, <2>7, <2>8, Goes DEF StageAgrees
    <2>10. runState'[r] # "none"
      BY <1>2, <2>5
    <2> QED
      BY <1>1, <2>3, <2>4, <2>6, <2>9, <2>10, SameLocal, TaskTransaction DEF TaskStages
  <1>5. CASE ~(k <= Len(toolCalls[<<r, t>>]))
    <2>1. AllSettled(r)
      <3>1. ASSUME NEW u \in Turns, NEW j \in Calls, Unsettled(r, u, j) PROVE FALSE
        <4>1. u = t /\ k <= j /\ j <= Len(toolCalls[<<r, t>>])
          BY <1>2, <3>1 DEF Unsettled, IsCall
        <4> QED
          BY <1>1, <1>3, <1>5, <4>1, BoundAssumption DEF Calls
      <3> QED
        BY <3>1 DEF AllSettled
    <2>2. CASE TaskFinishes(r, 0, "stopped")
      BY <1>1, <1>2, <2>1, <2>2, WorkingStages, TaskFinishesKeeps
    <2>3. CASE /\ TaskGoes(r, "boundary")
               /\ local' = [local EXCEPT ![r].call = 0]
               /\ UNCHANGED ledgerVars
      <3> DEFINE x == [local[r] EXCEPT !.call = 0]
      <3>1. x \in LocalType /\ x.turn = t
        BY <1>1 DEF LocalType
      <3>2. local' = [local EXCEPT ![r] = x] /\ local'[r] = x
        BY <2>3 DEF SupervisorInv, SupervisorTypeOK
      <3> HIDE DEF x
      <3>3. UNCHANGED <<runState, providerFacts, toolCalls, toolFacts>>
        BY <2>3 DEF ledgerVars, runVars, providerVars, toolVars
      <3>4. Quiet(r)' /\ AllSettled(r)'
        BY <1>2, <2>1, <3>3, OperationsKept
      <3>5. BetweenTurns(r)'
        BY <1>2, <3>1, <3>2, <3>3, <3>4 DEF BetweenTurns, TurnsAre
      <3>6. StageAgrees(r)'
        BY <2>3, <3>5, Goes DEF StageAgrees
      <3> QED
        BY <1>1, <2>3, <3>1, <3>2, <3>6, TaskThinks DEF TaskStages
    <2> QED
      BY <1>5, <2>2, <2>3 DEF TaskTools
  <1> QED
    BY <1>4, <1>5

\* A committed result settles the task's call: the next is begun, or the task stops.
LEMMA ResultKeeps ==
  ASSUME SupervisorInv, NEW r \in Runs, task[r] \in BatchStages \ {"tools"},
         NEW result \in ToolResults, TaskResult(r, result), TaskOnly,
         Evidenced(r, local[r].turn, local[r].call, result),
         result \in {"ok", "uncertain", "web_uncertain"} => task[r] # "tool_prepared"
  PROVE  SupervisorInv' /\ [LedgerNext]_ledgerVars
  <1> SUFFICES ASSUME NEW t, NEW k, t = local[r].turn, k = local[r].call
               PROVE  SupervisorInv' /\ [LedgerNext]_ledgerVars
    OBVIOUS
  <1>1. /\ Running(r) /\ IsLive(r) /\ local[r] \in LocalType
        /\ t \in Turns /\ k \in Calls /\ k \in Nat \ {0} /\ IsCall(r, t, k)
        /\ "prepared" \in toolFacts[<<r, t, k>>] /\ ~ToolSettled(r, t, k)
        /\ task[r] # "tool_prepared" => "dispatched" \in toolFacts[<<r, t, k>>]
    <2>1. Running(r) /\ IsLive(r) /\ local[r] \in LocalType /\ t \in Turns /\ k \in Nat \ {0}
      BY BatchCall
    <2>2. StageAgrees(r)
      BY DEF SupervisorInv
    <2>3. \/ task[r] = "tool_prepared" /\ CallIs(r, {"prepared"})
          \/ task[r] # "tool_prepared" /\ CallIs(r, {"prepared", "dispatched"})
      BY <2>2 DEF StageAgrees, BatchStages, DispatchedStages
    <2>4. /\ k \in Calls /\ IsCall(r, t, k)
          /\ toolFacts[<<r, t, k>>] \in {{"prepared"}, {"prepared", "dispatched"}}
          /\ task[r] # "tool_prepared" => toolFacts[<<r, t, k>>] = {"prepared", "dispatched"}
      BY <2>3 DEF CallIs
    <2>5. ~ToolSettled(r, t, k)
      BY <2>4 DEF ToolSettled, TerminalToolFacts
    <2> QED
      BY <2>1, <2>4, <2>5
  <1>2. /\ runState[r] = "active" /\ Quiet(r) /\ TurnsAre(r, t) /\ t < MaxTurns
        /\ \A u \in Turns, j \in Calls : Unsettled(r, u, j) => u = t /\ k <= j
        /\ \A j \in Calls : k < j => toolFacts[<<r, t, j>>] = {}
    BY <1>1, BatchCall DEF InBatch, BatchStages
  <1>3. CASE ~(CanCompleteTool(r, t, k, result) /\ Evidenced(r, t, k, result)) /\ Refused(r)
    <2>1. highWater[SessionOf[r]] + 1 > MaxEntries
      <3>1. highWater[SessionOf[r]] + 1 \in Nat
        BY SessionOfAssumption, BoundAssumption DEF SupervisorInv, LedgerInv, LedgerTypeOK
      <3> QED
        BY <1>1, <1>2, <1>3, <3>1, BoundAssumption DEF CanCompleteTool, ToolPending
    <2>2. TranscriptFull(SessionOf[r])
      BY <2>1, SessionOfAssumption, BoundAssumption
      DEF TranscriptFull, SupervisorInv, LedgerInv, LedgerTypeOK
    <2> QED
      BY <1>1, <1>3, <2>2, RefusedKeeps
  <1>4. CASE CompleteToolResult(r, t, k, result) /\ AfterResult(r, result)
    <2> DEFINE fact == ClassifyResult(result, "dispatched" \in toolFacts[<<r, t, k>>])
    <2>1. LedgerNext /\ RunTransaction(r)
      <3>1. ToolStep(r, t, k)
        BY <1>1, <1>2, <1>4 DEF ToolStep
      <3> QED
        BY <1>1, <3>1, StepIsLocal DEF SupervisorInv, LedgerInv
    <2>2. fact \in TerminalToolFacts
      BY DEF ClassifyResult, TerminalToolFacts
    <2>3. AddToolFact(r, t, k, fact) /\ UNCHANGED providerFacts
      BY <1>4 DEF CompleteToolResult, providerVars
    <2> HIDE DEF fact
    <2> DEFINE ended(n) == [local[r] EXCEPT !.call = n, !.binding = {}, !.route = "none"]
    <2>9. ASSUME NEW n \in Nat
          PROVE  ended(n) \in LocalType /\ ended(n).turn = t /\ ended(n).call = n
      BY <1>1 DEF LocalType
    <2>4. /\ Quiet(r)' /\ TurnsAre(r, t)'
          /\ \A j \in Calls : k < j => toolFacts'[<<r, t, j>>] = {}
          /\ \A u \in Turns, j \in Calls : Unsettled(r, u, j)' =>
               u = t /\ k <= j /\ (fact \in TerminalToolFacts => k < j)
      BY <1>1, <1>2, <2>3, CallAdvances DEF SupervisorInv, LedgerInv
    <2>5. NothingBegun(r)' /\ \A u \in Turns, j \in Calls : Unsettled(r, u, j)' => u = t /\ k < j
      BY <2>2, <2>4 DEF NothingBegun
    <2>6. CASE result = "uncertain"
      <3>1. runState'[r] = "uncertain"
        BY <1>4, <2>6 DEF CompleteToolResult, StopsRun, AppendRunTransition, SupervisorInv,
                         LedgerInv, LedgerTypeOK
      <3>2. TaskGoes(r, "exit") /\ local' = [local EXCEPT ![r] = ended(k)]
        BY <1>4, <2>6 DEF AfterResult, StopsRun
      <3>3. ended(k) \in LocalType
        BY <1>1, <2>9
      <3> HIDE DEF ended
      <3>4. StageAgrees(r)'
        BY <2>4, <2>5, <3>1, <3>2, Goes DEF StageAgrees, TerminalRunStates
      <3> QED
        BY <1>1, <2>1, <2>4, <3>1, <3>2, <3>3, <3>4, TaskTransaction DEF TaskStages
    <2>7. CASE result = "cancelled"
      <3>1. runState'[r] = "active"
        BY <1>2, <1>4, <2>7 DEF CompleteToolResult, StopsRun, runVars
      <3>2. TaskGoes(r, "tool_stop") /\ local' = [local EXCEPT ![r] = ended(k)]
        BY <1>4, <2>7 DEF AfterResult, StopsRun
      <3>3. ended(k) \in LocalType
        BY <1>1, <2>9
      <3> HIDE DEF ended
      <3>4. StageAgrees(r)'
        BY <2>4, <2>5, <3>1, <3>2, Goes DEF StageAgrees
      <3> QED
        BY <1>1, <2>1, <2>4, <3>1, <3>2, <3>3, <3>4, TaskTransaction DEF TaskStages
    <2>8. CASE result \notin {"uncertain", "cancelled"}
      <3>1. runState'[r] = "active"
        BY <1>2, <1>4, <2>8 DEF CompleteToolResult, StopsRun, runVars
      <3> DEFINE x == ended(k + 1)
      <3>2. TaskGoes(r, "tools") /\ local' = [local EXCEPT ![r] = x]
        BY <1>4, <2>8 DEF AfterResult, StopsRun
      <3>3. x \in LocalType /\ x.turn = t /\ x.call = k + 1
        <4>1. k + 1 \in Nat
          BY <1>1
        <4> QED
          BY <2>9, <4>1
      <3> HIDE DEF x
      <3>4. local' = [local EXCEPT ![r] = x] /\ local'[r] = x
        BY <3>2 DEF SupervisorInv, SupervisorTypeOK
      <3>5. k + 1 # 0 /\ \A j \in Calls : (k < j <=> k + 1 <= j) /\ (k + 1 < j => k < j)
        BY <1>1, BoundAssumption DEF Calls
      <3>6. \A j \in Calls : j = k + 1 => toolFacts'[<<r, t, j>>] = {}
        BY <1>1, <2>4, <3>5 DEF Calls
      <3>7. InBatch(r, local[r].call)'
        BY <1>1, <1>2, <2>4, <2>5, <3>1, <3>3, <3>4, <3>5 DEF InBatch, TurnsAre
      <3>8. StageAgrees(r)'
        BY <3>2, <3>3, <3>4, <3>6, <3>7, Goes DEF StageAgrees
      <3> QED
        BY <1>1, <2>1, <2>4, <3>1, <3>2, <3>3, <3>4, <3>8, TaskTransaction DEF TaskStages
    <2> QED
      BY <2>6, <2>7, <2>8
  <1> QED
    BY <1>3, <1>4 DEF TaskResult

\* A call that is prepared is dispatched, or answered without being dispatched.
LEMMA ToolPreparedKeeps ==
  ASSUME SupervisorInv, NEW r \in Runs, TaskToolPrepared(r)
  PROVE  SupervisorInv' /\ [LedgerNext]_ledgerVars
  <1> SUFFICES ASSUME NEW t, NEW k, t = local[r].turn, k = local[r].call
               PROVE  SupervisorInv' /\ [LedgerNext]_ledgerVars
    OBVIOUS
  <1>1. /\ task[r] = "tool_prepared" /\ Running(r) /\ IsLive(r) /\ TaskOnly
        /\ t \in Turns /\ k \in Calls /\ k # 0 /\ IsCall(r, t, k)
        /\ toolFacts[<<r, t, k>>] = {"prepared"} /\ ~ToolSettled(r, t, k)
    BY BatchCall
    DEF TaskToolPrepared, SupervisorInv, StageAgrees, CallIs, ToolSettled, TerminalToolFacts,
        BatchStages
  <1>2. /\ runState[r] = "active" /\ Quiet(r) /\ TurnsAre(r, t) /\ t < MaxTurns
        /\ \A u \in Turns, j \in Calls : Unsettled(r, u, j) => u = t /\ k <= j
        /\ \A j \in Calls : k < j => toolFacts[<<r, t, j>>] = {}
    BY <1>1, BatchCall DEF InBatch, BatchStages
  <1>3. CASE \E result \in {"cancelled", "failed"} : TaskResult(r, result)
    BY <1>1, <1>3, ResultKeeps DEF ToolResults, Evidenced, BatchStages
  <1>4. ASSUME NEW stage \in {"tool_execute", "web_admit"}, NEW x \in LocalType,
               MarkToolDispatched(r, t, k), TaskGoes(r, stage), local' = [local EXCEPT ![r] = x],
               x.turn = t, x.call = k, stage = "web_admit" <=> CallKind(r) = "web"
        PROVE  SupervisorInv' /\ [LedgerNext]_ledgerVars
    <2>1. LedgerNext /\ RunTransaction(r)
      <3>1. ToolStep(r, t, k)
        BY <1>1, <1>2, <1>4 DEF ToolStep
      <3> QED
        BY <1>1, <3>1, StepIsLocal DEF SupervisorInv, LedgerInv
    <2>2. AddToolFact(r, t, k, "dispatched") /\ UNCHANGED <<runState, providerFacts>>
      BY <1>4 DEF MarkToolDispatched, runVars, providerVars
    <2>3. /\ Quiet(r)' /\ TurnsAre(r, t)'
          /\ toolFacts'[<<r, t, k>>] = toolFacts[<<r, t, k>>] \cup {"dispatched"}
          /\ IsCall(r, t, k)' <=> IsCall(r, t, k)
          /\ \A j \in Calls : k < j => toolFacts'[<<r, t, j>>] = {}
          /\ \A u \in Turns, j \in Calls : Unsettled(r, u, j)' => u = t /\ k <= j
      BY <1>1, <1>2, <2>2, CallAdvances DEF SupervisorInv, LedgerInv
    <2>4. local'[r] = x /\ task'[r] = stage
      BY <1>4, Goes DEF SupervisorInv, SupervisorTypeOK
    <2>5. InBatch(r, local[r].call)'
      BY <1>1, <1>2, <1>4, <2>2, <2>3, <2>4 DEF InBatch, TurnsAre
    <2>6. CallIs(r, {"prepared", "dispatched"})'
      <3>1. toolFacts'[<<r, t, k>>] = {"prepared", "dispatched"} /\ IsCall(r, t, k)'
        BY <1>1, <2>3
      <3> QED
        BY <1>1, <1>4, <2>4, <3>1 DEF CallIs
    <2>7. CallKind(r)' = CallKind(r)
      BY <1>4, <2>2, <2>4 DEF CallKind, AddToolFact
    <2>8. stage = "web_admit" => searches'[TaskCall(r)'] = "none"
      <3>1. searches[<<r, t, k>>] = "none"
        BY <1>1 DEF SupervisorInv, SearchesFollowDispatch
      <3> QED
        BY <1>1, <1>4, <2>4, <3>1 DEF TaskCall, TaskOnly
    <2>9. StageAgrees(r)'
      BY <1>4, <2>4, <2>5, <2>6, <2>7, <2>8 DEF StageAgrees
    <2>10. runState'[r] # "none" /\ stage \in TaskStages \ {"none"}
      BY <1>2, <2>2 DEF TaskStages
    <2> QED
      BY <1>1, <1>4, <2>1, <2>3, <2>9, <2>10, TaskTransaction
  <1>5. CanMarkToolDispatched(r, t, k)
    BY <1>1, <1>2 DEF CanMarkToolDispatched, ToolPending
  <1>6. CASE MarkToolDispatched(r, t, k) /\ CallKind(r) # "web" /\ TaskGoes(r, "tool_execute")
             /\ UNCHANGED local
    BY <1>4, <1>6, SameLocal
  <1>7. ASSUME MarkToolDispatched(r, t, k), CallKind(r) = "web", TaskGoes(r, "web_admit"),
               NEW services \in SUBSET Services,
               local' = [local EXCEPT ![r].binding = services]
        PROVE  SupervisorInv' /\ [LedgerNext]_ledgerVars
    <2> DEFINE x == [local[r] EXCEPT !.binding = services]
    <2>1. x \in LocalType /\ x.turn = t /\ x.call = k
      BY <1>7, SameLocal, WorkingStages DEF LocalType
    <2>2. local' = [local EXCEPT ![r] = x]
      BY <1>7
    <2> HIDE DEF x
    <2> QED
      BY <1>4, <1>7, <2>1, <2>2
  <1> QED
    BY <1>3, <1>5, <1>6, <1>7 DEF TaskToolPrepared

\* The call a task has given to its tool.
LEMMA DispatchedCall ==
  ASSUME SupervisorInv, NEW r \in Runs, task[r] \in DispatchedStages
  PROVE  /\ local[r].turn \in Turns /\ local[r].call \in Calls
         /\ runState[r] = "active" /\ IsLive(r) /\ Running(r)
         /\ TaskCall(r) = <<r, local[r].turn, local[r].call>>
         /\ ToolPending(r, local[r].turn, local[r].call)
         /\ ~ToolSettled(r, local[r].turn, local[r].call)
         /\ "dispatched" \in toolFacts[TaskCall(r)]
         /\ CallKind(r) \in ToolKinds
         /\ TaskCall(r) \in DOMAIN searches
  <1>1. /\ InBatch(r, local[r].call) /\ CallIs(r, {"prepared", "dispatched"})
        /\ Running(r) /\ IsLive(r) /\ local[r].turn \in Turns
    BY BatchCall DEF BatchStages, DispatchedStages, SupervisorInv, StageAgrees
  <1>2. /\ local[r].call \in Calls /\ local[r].call <= Len(toolCalls[<<r, local[r].turn>>])
        /\ toolFacts[<<r, local[r].turn, local[r].call>>] = {"prepared", "dispatched"}
        /\ runState[r] = "active"
    BY <1>1 DEF CallIs, IsCall, InBatch
  <1>3. toolCalls[<<r, local[r].turn>>] \in Seq(ToolKinds)
    BY <1>1 DEF SupervisorInv, LedgerInv, LedgerTypeOK
  <1>4. local[r].call \in 1..Len(toolCalls[<<r, local[r].turn>>])
    BY <1>2, <1>3, BoundAssumption DEF Calls
  <1>5. CallKind(r) \in ToolKinds
    BY <1>3, <1>4 DEF CallKind
  <1> QED
    BY <1>1, <1>2, <1>5
    DEF TaskCall, ToolPending, ToolSettled, TerminalToolFacts, SupervisorInv, SupervisorTypeOK

\* A tool other than a web search answers.
LEMMA ToolAnsweredKeeps ==
  ASSUME SupervisorInv, NEW r \in Runs, TaskToolAnswered(r)
  PROVE  SupervisorInv' /\ [LedgerNext]_ledgerVars
  <1>1. task[r] = "tool_execute" /\ TaskOnly /\ CallKind(r) # "web"
    BY DEF TaskToolAnswered
  <1>2. PICK result \in Answers(CallKind(r)) : TaskResult(r, result)
    BY DEF TaskToolAnswered
  <1>3. result \in ToolResults
    BY <1>2, ToolKindsAssumption DEF Answers, ToolResults
  <1>4. Evidenced(r, local[r].turn, local[r].call, result)
    BY <1>1 DEF Evidenced, CallKind
  <1> QED
    BY <1>1, <1>2, <1>3, <1>4, ResultKeeps DEF BatchStages, DispatchedStages

\* A web search ends with a result that its rows need not support.
LEMMA SearchEnds ==
  ASSUME SupervisorInv, NEW r \in Runs, task[r] \in DispatchedStages, TaskOnly,
         \E result \in {"cancelled", "failed"} : TaskResult(r, result)
  PROVE  SupervisorInv' /\ [LedgerNext]_ledgerVars
  <1>1. PICK result \in {"cancelled", "failed"} : TaskResult(r, result)
    OBVIOUS
  <1>2. /\ Evidenced(r, local[r].turn, local[r].call, result) /\ result \in ToolResults
        /\ task[r] \in BatchStages \ {"tools"}
    BY DEF Evidenced, ToolResults, BatchStages, DispatchedStages
  <1> QED
    BY <1>1, <1>2, ResultKeeps

\* The binding of a search is admitted, and with it a route.
LEMMA SearchAdmitKeeps ==
  ASSUME SupervisorInv, NEW r \in Runs, TaskSearchAdmit(r)
  PROVE  SupervisorInv' /\ [LedgerNext]_ledgerVars
  <1>1. task[r] = "web_admit" /\ task[r] \in DispatchedStages /\ TaskOnly
    BY DEF TaskSearchAdmit, DispatchedStages
  <1>2. CASE \E result \in {"cancelled", "failed"} : TaskResult(r, result)
    BY <1>1, <1>2, SearchEnds
  <1>3. ASSUME NEW route \in WebRoutes, TaskGoes(r, "web_dispatch"), UNCHANGED ledgerVars,
               local' = [local EXCEPT ![r].route = route]
        PROVE  SupervisorInv' /\ [LedgerNext]_ledgerVars
    <2> DEFINE x == [local[r] EXCEPT !.route = route]
    <2>1. x \in LocalType /\ x.turn = local[r].turn /\ x.call = local[r].call
      BY <1>3, WorkingStages DEF LocalType
    <2>2. local' = [local EXCEPT ![r] = x] /\ local'[r] = x
      BY <1>3 DEF SupervisorInv, SupervisorTypeOK
    <2> HIDE DEF x
    <2>3. StageAgrees(r)'
      <3>1. /\ InBatch(r, local[r].call) /\ CallIs(r, {"prepared", "dispatched"})
            /\ CallKind(r) = "web" /\ searches[TaskCall(r)] = "none"
        BY <1>1 DEF SupervisorInv, StageAgrees
      <3>2. UNCHANGED <<runState, providerFacts, toolCalls, toolFacts, searches>>
        BY <1>1, <1>3 DEF TaskOnly, ledgerVars, runVars, providerVars, toolVars
      <3>3. Quiet(r)' /\ \A u \in Turns, j \in Calls : Unsettled(r, u, j)' <=> Unsettled(r, u, j)
        BY <3>1, <3>2, OperationsKept DEF InBatch
      <3>4. InBatch(r, local[r].call)'
        BY <2>1, <2>2, <3>1, <3>2, <3>3 DEF InBatch, TurnsAre
      <3>5. CallIs(r, {"prepared", "dispatched"})'
        BY <2>1, <2>2, <3>1, <3>2 DEF CallIs, IsCall
      <3>6. CallKind(r)' = "web" /\ searches'[TaskCall(r)'] = "none"
        BY <2>1, <2>2, <3>1, <3>2 DEF CallKind, TaskCall
      <3>7. task'[r] = "web_dispatch"
        BY <1>3, Goes
      <3> QED
        BY <3>4, <3>5, <3>6, <3>7 DEF StageAgrees
    <2> QED
      BY <1>1, <1>3, <2>1, <2>2, <2>3, DispatchedCall, TaskThinks DEF TaskStages
  <1>4. Routes(local[r].binding) \subseteq WebRoutes
    BY DEF Routes, WebRoutes
  <1> QED
    BY <1>2, <1>3, <1>4 DEF TaskSearchAdmit

\* The row of a search is written while its call stays as it is.
LEMMA SearchAdvances ==
  ASSUME SupervisorInv, NEW r \in Runs, task[r] \in DispatchedStages, TaskFrame,
         UNCHANGED <<ledgerVars, local>>, NEW v \in SearchStates,
         searches' = [searches EXCEPT ![TaskCall(r)] = v],
         NEW stage, TaskGoes(r, stage),
         \/ stage = "tool_execute" /\ v = "attempted"
         \/ stage = "web_succeeded" /\ v = "succeeded"
  PROVE  SupervisorInv' /\ [LedgerNext]_ledgerVars
  <1>1. /\ InBatch(r, local[r].call) /\ CallIs(r, {"prepared", "dispatched"})
    BY DEF SupervisorInv, StageAgrees, DispatchedStages
  <1>2. UNCHANGED <<runState, providerFacts, toolCalls, toolFacts>>
    BY DEF ledgerVars, runVars, providerVars, toolVars
  <1>3. Quiet(r)' /\ \A u \in Turns, j \in Calls : Unsettled(r, u, j)' <=> Unsettled(r, u, j)
    BY <1>1, <1>2, OperationsKept DEF InBatch
  <1>4. InBatch(r, local[r].call)'
    BY <1>1, <1>2, <1>3 DEF InBatch, TurnsAre
  <1>5. CallIs(r, {"prepared", "dispatched"})'
    BY <1>1, <1>2 DEF CallIs, IsCall
  <1>6. searches'[TaskCall(r)'] = v
    BY DispatchedCall DEF TaskCall
  <1>7. StageAgrees(r)'
    <2>1. task'[r] = stage
      BY Goes
    <2> QED
      BY <1>4, <1>5, <1>6, <2>1 DEF StageAgrees
  <1>8. SearchMove(r)
    <2>1. /\ TaskCall(r) = <<r, local[r].turn, local[r].call>>
          /\ local[r].turn \in Turns /\ local[r].call \in Calls
          /\ "dispatched" \in toolFacts[TaskCall(r)]
      BY DispatchedCall
    <2> QED
      BY <2>1 DEF SearchMove
  <1>9. stage \in TaskStages \ {"none"} /\ Running(r)
    BY DispatchedCall DEF TaskStages
  <1> QED
    BY <1>7, <1>8, <1>9, TaskSearches

\* The attempt of a search is admitted.  It is refused only for a route that the
\* policy turned away and does not turn away any more.
LEMMA SearchDispatchKeeps ==
  ASSUME SupervisorInv, NEW r \in Runs, TaskSearchDispatch(r)
  PROVE  SupervisorInv' /\ [LedgerNext]_ledgerVars
  <1>1. task[r] = "web_dispatch" /\ task[r] \in DispatchedStages
    BY DEF TaskSearchDispatch, DispatchedStages
  <1>2. CASE TaskOnly /\ \E result \in {"cancelled", "failed"} : TaskResult(r, result)
    BY <1>1, <1>2, SearchEnds
  <1>3. CASE ~CanDispatchSearch(r) /\ Refused(r) /\ TaskOnly
    <2>1. CallKind(r) = "web" /\ searches[TaskCall(r)] = "none"
      BY <1>1 DEF SupervisorInv, StageAgrees
    <2>2. local[r].route = "ExaPolicyDenied"
      BY <1>3, <2>1 DEF CanDispatchSearch
    <2>3. SearchNotAdmitted(r)
      BY <1>1, <2>1, DispatchedCall DEF SearchNotAdmitted, CallKind, TaskCall
    <2> QED
      BY <1>1, <1>3, <2>2, <2>3, DispatchedCall, RefusedKeeps
  <1>4. CASE /\ searches' = [searches EXCEPT ![TaskCall(r)] = "attempted"]
             /\ TaskGoes(r, "tool_execute")
             /\ UNCHANGED <<ledgerVars, local>>
             /\ TaskFrame
    BY <1>1, <1>4, SearchAdvances DEF SearchStates
  <1> QED
    BY <1>2, <1>3, <1>4 DEF TaskSearchDispatch

\* A search answers: with a result, or with the row of its success.
LEMMA SearchAnsweredKeeps ==
  ASSUME SupervisorInv, NEW r \in Runs, TaskSearchAnswered(r)
  PROVE  SupervisorInv' /\ [LedgerNext]_ledgerVars
  <1>1. /\ task[r] = "tool_execute" /\ task[r] \in DispatchedStages /\ CallKind(r) = "web"
        /\ searches[TaskCall(r)] = "attempted" /\ CanCompleteSearch(r)
    BY DispatchedCall
    DEF TaskSearchAnswered, DispatchedStages, SupervisorInv, StageAgrees, CanCompleteSearch
  <1>2. ASSUME TaskOnly, NEW result \in {"failed", "uncertain", "web_uncertain"},
               TaskResult(r, result)
        PROVE  SupervisorInv' /\ [LedgerNext]_ledgerVars
    <2>1. Evidenced(r, local[r].turn, local[r].call, result) /\ result \in ToolResults
      BY <1>1 DEF Evidenced, TaskCall, ToolResults
    <2> QED
      BY <1>1, <1>2, <2>1, ResultKeeps DEF BatchStages
  <1>3. CASE /\ searches' = [searches EXCEPT ![TaskCall(r)] = "succeeded"]
             /\ TaskGoes(r, "web_succeeded")
             /\ UNCHANGED <<ledgerVars, local>>
             /\ TaskFrame
    BY <1>1, <1>3, SearchAdvances DEF SearchStates
  <1>4. \A route : SearchFailures(route) \subseteq {"failed", "uncertain", "web_uncertain"}
    BY DEF SearchFailures
  <1> QED
    BY <1>1, <1>2, <1>3, <1>4 DEF TaskSearchAnswered

\* The result of a search that succeeded is committed.
LEMMA SearchResultKeeps ==
  ASSUME SupervisorInv, NEW r \in Runs, TaskSearchResult(r)
  PROVE  SupervisorInv' /\ [LedgerNext]_ledgerVars
  <1>1. /\ task[r] = "web_succeeded" /\ TaskOnly /\ TaskResult(r, "ok")
        /\ searches[TaskCall(r)] = "succeeded"
    BY DEF TaskSearchResult, SupervisorInv, StageAgrees
  <1>2. Evidenced(r, local[r].turn, local[r].call, "ok") /\ "ok" \in ToolResults
    BY <1>1 DEF Evidenced, TaskCall, ToolResults
  <1> QED
    BY <1>1, <1>2, ResultKeeps DEF BatchStages, DispatchedStages

\* A run whose call was cancelled ends.
LEMMA ToolStopKeeps ==
  ASSUME SupervisorInv, NEW r \in Runs, TaskToolStop(r)
  PROVE  SupervisorInv' /\ [LedgerNext]_ledgerVars
  <1>1. task[r] \in {"boundary", "compact", "prepare", "tool_stop"}
    BY DEF TaskToolStop
  <1> QED
    BY <1>1, FinishesBetweenTurns DEF TaskToolStop

\* A call, a compaction or a tool observes its cancelled handle.
LEMMA InterruptedKeeps ==
  ASSUME SupervisorInv, NEW r \in Runs, TaskInterrupted(r)
  PROVE  SupervisorInv' /\ [LedgerNext]_ledgerVars
  <1>1. CASE task[r] = "execute" /\ TaskFinishes(r, local[r].turn, "stopped") /\ TaskOnly
    <2>1. task[r] \in {"prepared", "dispatch", "execute"}
      BY <1>1
    <2> QED
      BY <1>1, <2>1, FinishesOperation
  <1>2. CASE task[r] = "compact" /\ TaskFinishes(r, 0, "stopped") /\ TaskOnly
    <2>1. task[r] \in {"boundary", "compact", "prepare", "tool_stop"}
      BY <1>2
    <2> QED
      BY <1>2, <2>1, FinishesBetweenTurns
  <1>3. ASSUME task[r] = "tool_execute", NEW result \in Interruptions(r), TaskResult(r, result),
               TaskOnly
        PROVE  SupervisorInv' /\ [LedgerNext]_ledgerVars
    <2>1. result \in {"cancelled", "uncertain", "web_uncertain"}
          /\ (result # "cancelled" => CallKind(r) = "web")
      BY <1>3 DEF Interruptions
    <2>2. CallKind(r) = "web" => searches[TaskCall(r)] = "attempted"
      BY <1>3 DEF SupervisorInv, StageAgrees
    <2>3. Evidenced(r, local[r].turn, local[r].call, result) /\ result \in ToolResults
      BY <2>1, <2>2 DEF Evidenced, TaskCall, CallKind, ToolResults
    <2> QED
      BY <1>3, <2>3, ResultKeeps DEF BatchStages, DispatchedStages
  <1> QED
    BY <1>1, <1>2, <1>3 DEF TaskInterrupted

\* A storage call that fails leaves the task with nothing to do but end.
LEMMA FaultKeeps ==
  ASSUME SupervisorInv, NEW r \in Runs, StorageFault(r)
  PROVE  SupervisorInv' /\ [LedgerNext]_ledgerVars
  <1>1. /\ Running(r) /\ TaskGoes(r, "fault") /\ task'[r] = "fault"
        /\ UNCHANGED <<ledgerVars, server, starts, admission, stopping, handlerVars, controlVars,
                       local, searches>>
    BY Goes DEF StorageFault, Running
  <1>2. faults \in Nat /\ faults' = faults + 1 /\ stopping' \in BOOLEAN
    BY <1>1 DEF StorageFault, SupervisorInv, SupervisorTypeOK
  <1>3. faults' \in Nat /\ faults' >= faults /\ faults' > 0
    BY <1>2
  <1>4. RunTransaction(r) /\ UNCHANGED <<runState, providerFacts, toolCalls, toolFacts>>
    BY <1>1, LedgerUntouched DEF SupervisorInv, LedgerInv
  <1>5. runState'[r] # "none"
    BY <1>1, <1>4 DEF SupervisorInv, Ownership
  <1>6. \A t \in Turns, k \in Calls : Unsettled(r, t, k)' => Quiet(r)'
    BY <1>4, OperationsKept DEF SupervisorInv, CallsBetweenTurns
  <1>7. StageAgrees(r)'
    BY <1>1, <1>3 DEF StageAgrees
  <1>8. local' \in [Runs -> LocalType] /\ \A q \in Runs \ {r} : local'[q] = local[q]
    BY <1>1 DEF SupervisorInv, SupervisorTypeOK
  <1> QED
    BY <1>1, <1>2, <1>3, <1>4, <1>5, <1>6, <1>7, <1>8, TaskMove DEF TaskStages, SearchMove

--------------------------------------------------------------------------------
(* Steps in the memory of the process. *)

\* What is read of an unchanged ledger is the same.
LEMMA SameLedger ==
  ASSUME UNCHANGED ledgerVars
  PROVE  \A q \in Runs :
           /\ RowKept(q) /\ runState'[q] = runState[q]
           /\ IsLive(q)' <=> IsLive(q)
           /\ Quiet(q)' <=> Quiet(q)
           /\ AllSettled(q)' <=> AllSettled(q)
           /\ NothingBegun(q)' <=> NothingBegun(q)
           /\ TranscriptFull(SessionOf[q])' <=> TranscriptFull(SessionOf[q])
           /\ UNCHANGED searches => (SearchNotAdmitted(q)' <=> SearchNotAdmitted(q))
           /\ \A t \in Turns, k \in Calls : Unsettled(q, t, k)' <=> Unsettled(q, t, k)
  <1>1. UNCHANGED <<runState, providerFacts, toolCalls, toolFacts, highWater>>
    BY DEF ledgerVars, runVars, providerVars, toolVars
  <1>2. \A q \in Runs : RowKept(q)
    BY <1>1 DEF RowKept
  <1>3. \A q \in Runs : UNCHANGED searches => (SearchNotAdmitted(q)' <=> SearchNotAdmitted(q))
    BY <1>1 DEF SearchNotAdmitted, ToolPending, ToolSettled
  <1> QED
    BY <1>1, <1>2, <1>3, RowFrame DEF TranscriptFull

\* A step that leaves the ledger alone has only the memory to account for.
LEMMA InMemory ==
  ASSUME SupervisorInv, UNCHANGED <<ledgerVars, searches>>, SupervisorTypeOK',
         \A r \in Runs : StageAgrees(r)' /\ Ownership(r)',
         MemoryNeedsProcess', ShutdownIsStopping', RecoveredSoFar', PermitsBounded',
         RefusalHasCause', LiveRunHasOwner'
  PROVE  SupervisorInv' /\ [LedgerNext]_ledgerVars
  <1>1. SearchesFollowDispatch'
    BY ToolFactsGrow DEF SupervisorInv, LedgerInv, SearchesFollowDispatch
  <1> QED
    BY <1>1, InvNext, ShapeNext, SameLedger DEF SupervisorInv, LedgerInv, CallsBetweenTurns

\* A task that is left alone in an unchanged ledger is where it was.
LEMMA TaskStays ==
  ASSUME SupervisorInv, UNCHANGED <<ledgerVars, faults, searches>>, NEW q \in Runs,
         task'[q] = task[q], local'[q] = local[q]
  PROVE  StageAgrees(q)'
  <1>1. RowKept(q) /\ StageAgrees(q) /\ (TranscriptFull(SessionOf[q]) => TranscriptFull(SessionOf[q])')
    BY SameLedger DEF SupervisorInv
  <1>2. faults \in Nat /\ faults' \in Nat /\ faults' >= faults
    BY DEF SupervisorInv, SupervisorTypeOK
  <1>3. highWater'[SessionOf[q]] = highWater[SessionOf[q]] /\ SearchesKept(q)
    BY DEF ledgerVars, SearchesKept
  <1> QED
    BY <1>1, <1>2, <1>3, StageFrame

\* A request takes the lock and a permit.
LEMMA ReserveKeeps ==
  ASSUME SupervisorInv, NEW r \in Runs, SubmitReserve(r)
  PROVE  SupervisorInv' /\ [LedgerNext]_ledgerVars
  <1> USE DEF SubmitReserve, serverVars, taskVars
  <1>1. /\ UNCHANGED <<ledgerVars, server, starts, faults, admission, stopping, signalling,
                       controls, signalled, task, local, searches>>
        /\ Up /\ Up'
    BY DEF Up
  <1>2. SupervisorTypeOK'
    BY <1>1 DEF SupervisorInv, SupervisorTypeOK
  <1>3. \A q \in Runs : StageAgrees(q)'
    BY <1>1, TaskStays
  <1>4. \A q \in Runs : handler'[q] = IF q = r THEN "reserved" ELSE handler[q]
    BY DEF SupervisorInv, SupervisorTypeOK
  <1>5. \A q \in Runs : Ownership(q)'
    BY <1>1, <1>4, SameLedger, SessionOfAssumption DEF SupervisorInv, Ownership, Running
  <1>6. MemoryNeedsProcess' /\ ShutdownIsStopping' /\ RefusalHasCause'
    BY <1>1 DEF MemoryNeedsProcess, ShutdownIsStopping, RefusalHasCause, SupervisorInv, Up
  <1>7. RecoveredSoFar'
    BY <1>1, SameLedger DEF RecoveredSoFar, SupervisorInv, Running, Up
  <1>8. PermitsBounded'
    <2>1. IsFiniteSet(permits) /\ Cardinality(permits) < MaxConcurrentRuns
      BY DEF SupervisorInv, PermitsBounded
    <2>2. /\ IsFiniteSet(permits \cup {r}) /\ Cardinality(permits) \in Nat
          /\ Cardinality(permits \cup {r}) = Cardinality(permits)
               \/ Cardinality(permits \cup {r}) = Cardinality(permits) + 1
      BY <2>1, FS_AddElement, FS_CardinalityType
    <2> QED
      BY <2>1, <2>2, SupervisorBoundAssumption DEF PermitsBounded
  <1>9. LiveRunHasOwner'
    <2>1. ~IsLive(r)
      BY DEF IsLive, LiveRunStates
    <2> QED
      BY <1>1, <1>4, <2>1, SameLedger DEF LiveRunHasOwner, SupervisorInv, Running
  <1> QED
    BY <1>1, <1>2, <1>3, <1>5, <1>6, <1>7, <1>8, <1>9, InMemory

\* Permits are only given back.
LEMMA PermitsShrink ==
  ASSUME PermitsBounded, permits' \subseteq permits
  PROVE  PermitsBounded'
  <1>1. /\ IsFiniteSet(permits') /\ Cardinality(permits') <= Cardinality(permits)
        /\ Cardinality(permits) \in Nat /\ Cardinality(permits') \in Nat
    BY FS_Subset, FS_CardinalityType DEF PermitsBounded
  <1> QED
    BY <1>1, SupervisorBoundAssumption DEF PermitsBounded

\* A transaction of run r by anyone but its task has only that run to account for.
LEMMA FromOutside ==
  ASSUME SupervisorInv, NEW r \in Runs, [LedgerNext]_ledgerVars, RunTransaction(r),
         UNCHANGED <<server, starts, faults, admission, stopping, controls, signalled, task, local, searches>>,
         server # "refused", SupervisorTypeOK', permits' \subseteq permits,
         ~Up => UNCHANGED <<permits, handler>>,
         \A q \in Runs \ {r} : handler'[q] = handler[q],
         StageAgrees(r)', \A q \in Runs : Ownership(q)',
         \A t \in Turns, k \in Calls : Unsettled(r, t, k)' => Quiet(r)',
         server \in {"recover_steering", "recover_runs"} => AllSettled(r)',
         Up /\ ~stopping /\ ~Running(r) => Quiet(r)' /\ NothingBegun(r)',
         Up /\ IsLive(r)' =>
           \/ handler'[r] \in {"accepted", "refused"} /\ ~Running(r)
           \/ Running(r) /\ handler'[r] = "idle"
           \/ stopping /\ (faults > 0 \/ TranscriptFull(SessionOf[r])' \/ SearchNotAdmitted(r)')
           \/ server = "aborted"
  PROVE  SupervisorInv'
  <1>1. LedgerInv' /\ LedgerTypeOK' /\ LedgerTypeOK /\ LedgerShape'
    BY InvNext, ShapeNext DEF LedgerInv, SupervisorInv
  <1>2. (Up' <=> Up) /\ \A q \in Runs : Running(q)' <=> Running(q)
    BY DEF Up, Running
  <1>3. \A q \in Runs \ {r} : RowKept(q)
    BY DEF RunTransaction
  <1>10. SearchesFollowDispatch' /\ \A q \in Runs : SearchesKept(q)
    BY <1>1, ToolFactsGrow DEF SupervisorInv, SearchesFollowDispatch, SearchesKept
  <1>4. \A q \in Runs : StageAgrees(q)'
    <2>1. faults \in Nat /\ faults' \in Nat /\ faults' >= faults
      BY DEF SupervisorInv, SupervisorTypeOK
    <2> QED
      BY <1>1, <1>10, <2>1, StagesOfOthers DEF SupervisorInv
  <1>5. MemoryNeedsProcess' /\ ShutdownIsStopping' /\ RefusalHasCause'
    BY <1>2 DEF MemoryNeedsProcess, ShutdownIsStopping, RefusalHasCause, SupervisorInv
  <1>6. CallsBetweenTurns'
    BY <1>3, RowFrame DEF CallsBetweenTurns, SupervisorInv
  <1>7. RecoveredSoFar'
    <2>1. \A q \in Runs \ {r} : /\ Quiet(q)' <=> Quiet(q)
                                /\ NothingBegun(q)' <=> NothingBegun(q)
                                /\ AllSettled(q)' <=> AllSettled(q)
      BY <1>3, RowFrame
    <2> QED
      BY <1>2, <2>1 DEF RecoveredSoFar, SupervisorInv
  <1>8. PermitsBounded'
    BY PermitsShrink DEF SupervisorInv
  <1>9. LiveRunHasOwner'
    <2> SUFFICES ASSUME NEW q \in Runs, Up, IsLive(q)'
                 PROVE  \/ handler'[q] \in {"accepted", "refused"} /\ ~Running(q)
                        \/ Running(q) /\ handler'[q] = "idle"
                        \/ /\ stopping
                           /\ \/ faults > 0
                              \/ TranscriptFull(SessionOf[q])'
                              \/ SearchNotAdmitted(q)'
                        \/ server = "aborted"
      BY <1>2 DEF LiveRunHasOwner
    <2>1. CASE q # r
      <3>1. IsLive(q)
        BY <1>3, <2>1, RowFrame
      <3>2. TranscriptFull(SessionOf[q]) => TranscriptFull(SessionOf[q])'
        BY <1>1, FullStaysFull, SessionOfAssumption DEF RunTransaction
      <3>3. SearchNotAdmitted(q)' <=> SearchNotAdmitted(q)
        BY <1>3, <1>10, <2>1, NotAdmittedFrame
      <3> QED
        BY <2>1, <3>1, <3>2, <3>3 DEF LiveRunHasOwner, SupervisorInv
    <2> QED
      BY <2>1
  <1> QED
    BY <1>1, <1>10, <1>4, <1>5, <1>6, <1>7, <1>8, <1>9 DEF SupervisorInv

\* The input is accepted, or refused and the permit given back.
LEMMA AcceptKeeps ==
  ASSUME SupervisorInv, NEW r \in Runs, SubmitAccept(r)
  PROVE  SupervisorInv' /\ [LedgerNext]_ledgerVars
  <1>1. /\ UNCHANGED <<server, starts, faults, admission, stopping, signalling, controls, signalled,
                       task, local, searches>>
        /\ Up /\ Up' /\ handler[r] = "reserved" /\ lifecycle' = NoRun
    BY DEF SubmitAccept, serverVars, taskVars, Up
  <1>2. /\ runState[r] = "none" /\ task[r] = "none" /\ lifecycle = r
        /\ Quiet(r) /\ AllSettled(r) /\ NothingBegun(r) /\ local[r] = NewTask
    BY <1>1, WorkingStages, FreshRun
    DEF SupervisorInv, LedgerInv, Ownership, Running, StageAgrees
  <1>3. CASE /\ AcceptSessionInput(r)
             /\ handler' = [handler EXCEPT ![r] = "accepted"]
             /\ UNCHANGED permits
    <2>1. LedgerNext /\ RunTransaction(r)
      BY <1>3, StepIsLocal DEF RunStep, SupervisorInv, LedgerInv
    <2>2. \A q \in Runs : handler'[q] = IF q = r THEN "accepted" ELSE handler[q]
      BY <1>3 DEF SupervisorInv, SupervisorTypeOK
    <2>3. /\ \A q \in Runs : runState'[q] = IF q = r THEN "accepted" ELSE runState[q]
          /\ UNCHANGED <<providerFacts, toolCalls, toolFacts>>
      BY <1>3 DEF AcceptSessionInput, SupervisorInv, LedgerInv, LedgerTypeOK, providerVars, toolVars
    <2>4. Quiet(r)' /\ AllSettled(r)' /\ NothingBegun(r)'
      BY <1>2, <2>3, OperationsKept
    <2>5. SupervisorTypeOK'
      BY <1>1, <1>3 DEF SupervisorInv, SupervisorTypeOK
    <2>6. \A q \in Runs : Ownership(q)'
      BY <1>1, <1>2, <1>3, <2>2, <2>3, SessionOfAssumption DEF SupervisorInv, Ownership, Running
    <2>7. StageAgrees(r)'
      BY <1>1, <1>2 DEF StageAgrees
    <2>8. server # "refused" /\ ~Running(r)
      BY <1>1, <1>2 DEF Up, Running
    <2> QED
      BY <1>1, <1>3, <2>1, <2>2, <2>4, <2>5, <2>6, <2>7, <2>8, FromOutside
  <1>4. CASE /\ handler' = [handler EXCEPT ![r] = "idle"]
             /\ permits' = permits \ {r}
             /\ UNCHANGED ledgerVars
    <2>1. RunTransaction(r)
      BY <1>4, LedgerUntouched DEF SupervisorInv, LedgerInv
    <2>2. \A q \in Runs : handler'[q] = IF q = r THEN "idle" ELSE handler[q]
      BY <1>4 DEF SupervisorInv, SupervisorTypeOK
    <2>3. Quiet(r)' /\ AllSettled(r)' /\ NothingBegun(r)' /\ ~IsLive(r)'
      BY <1>2, <1>4, SameLedger DEF IsLive, LiveRunStates
    <2>4. SupervisorTypeOK'
      BY <1>1, <1>4 DEF SupervisorInv, SupervisorTypeOK
    <2>5. \A q \in Runs : Ownership(q)'
      BY <1>1, <1>2, <1>4, <2>2, SameLedger, SessionOfAssumption
      DEF SupervisorInv, Ownership, Running
    <2>6. StageAgrees(r)'
      BY <1>1, <1>2 DEF StageAgrees
    <2>7. server # "refused" /\ ~Running(r)
      BY <1>1, <1>2 DEF Up, Running
    <2> QED
      BY <1>1, <1>4, <2>1, <2>2, <2>3, <2>4, <2>5, <2>6, <2>7, FromOutside
  <1> QED
    BY <1>3, <1>4 DEF SubmitAccept

\* The run gets its task, or its handler keeps it because the supervisor stops.
LEMMA StartKeeps ==
  ASSUME SupervisorInv, NEW r \in Runs, SubmitStart(r)
  PROVE  SupervisorInv' /\ [LedgerNext]_ledgerVars
  <1>1. /\ UNCHANGED <<ledgerVars, server, starts, faults, admission, stopping, lifecycle,
                       signalling, signalled, local, searches>>
        /\ Up /\ Up' /\ handler[r] = "accepted"
    BY DEF SubmitStart, serverVars, Up
  <1>2. /\ runState[r] = "accepted" /\ task[r] = "none" /\ local[r] = NewTask
        /\ r \in permits /\ r \notin controls /\ r \notin signalled
        /\ Quiet(r) /\ AllSettled(r) /\ NothingBegun(r)
    BY <1>1, WorkingStages, FreshRun
    DEF SupervisorInv, LedgerInv, Ownership, Running, StageAgrees
  <1>3. CASE /\ stopping
             /\ handler' = [handler EXCEPT ![r] = "refused"]
             /\ permits' = permits \ {r}
             /\ UNCHANGED <<controls, task>>
    <2>1. RunTransaction(r) /\ \A q \in Runs : runState'[q] = runState[q]
      BY <1>1, LedgerUntouched, SameLedger DEF SupervisorInv, LedgerInv
    <2>2. \A q \in Runs : handler'[q] = IF q = r THEN "refused" ELSE handler[q]
      BY <1>3 DEF SupervisorInv, SupervisorTypeOK
    <2>3. Quiet(r)' /\ AllSettled(r)' /\ NothingBegun(r)'
      BY <1>1, <1>2, SameLedger
    <2>4. SupervisorTypeOK'
      BY <1>1, <1>3 DEF SupervisorInv, SupervisorTypeOK
    <2>5. \A q \in Runs : Ownership(q)'
      BY <1>1, <1>2, <1>3, <2>1, <2>2 DEF SupervisorInv, Ownership, Running
    <2>6. StageAgrees(r)'
      BY <1>1, <1>2, <1>3 DEF StageAgrees
    <2>7. server # "refused" /\ ~Running(r)
      BY <1>1, <1>2 DEF Up, Running
    <2> QED
      BY <1>1, <1>3, <2>1, <2>2, <2>3, <2>4, <2>5, <2>6, <2>7, FromOutside
  <1>4. CASE /\ handler' = [handler EXCEPT ![r] = "idle"]
             /\ controls' = controls \cup {r}
             /\ task' = [task EXCEPT ![r] = "activate"]
             /\ UNCHANGED permits
    <2>1. \A q \in Runs : /\ handler'[q] = IF q = r THEN "idle" ELSE handler[q]
                          /\ task'[q] = IF q = r THEN "activate" ELSE task[q]
                          /\ local'[q] = local[q]
      BY <1>1, <1>4 DEF SupervisorInv, SupervisorTypeOK
    <2>2. SupervisorTypeOK'
      BY <1>1, <1>4 DEF SupervisorInv, SupervisorTypeOK, TaskStages
    <2>3. \A q \in Runs : Ownership(q)'
      BY <1>1, <1>2, <1>4, <2>1, SameLedger DEF SupervisorInv, Ownership, Running
    <2>4. StageAgrees(r)'
      BY <1>1, <1>2, <2>1, SameLedger DEF StageAgrees
    <2>5. \A q \in Runs : StageAgrees(q)'
      BY <1>1, <2>1, <2>4, TaskStays
    <2>6. MemoryNeedsProcess' /\ ShutdownIsStopping' /\ RefusalHasCause' /\ PermitsBounded'
      BY <1>1, <1>4
      DEF SupervisorInv, MemoryNeedsProcess, ShutdownIsStopping, RefusalHasCause, PermitsBounded, Up
    <2>7. RecoveredSoFar'
      BY <1>1, <2>1, SameLedger DEF RecoveredSoFar, SupervisorInv, Running, Up
    <2>8. LiveRunHasOwner'
      <3>1. \A q \in Runs \ {r} : Running(q)' <=> Running(q)
        BY <2>1 DEF Running
      <3>2. Running(r)' /\ handler'[r] = "idle"
        BY <2>1 DEF Running
      <3> QED
        BY <1>1, <2>1, <3>1, <3>2, SameLedger DEF LiveRunHasOwner, SupervisorInv
    <2> QED
      BY <1>1, <2>2, <2>3, <2>5, <2>6, <2>7, <2>8, InMemory
  <1> QED
    BY <1>3, <1>4 DEF SubmitStart

\* The handler ends the run that got no task.
LEMMA StoppedKeeps ==
  ASSUME SupervisorInv, NEW r \in Runs, SubmitStopped(r)
  PROVE  SupervisorInv' /\ [LedgerNext]_ledgerVars
  <1>1. /\ UNCHANGED <<server, starts, faults, admission, stopping, lifecycle, signalling, permits,
                       controls, signalled, task, local, searches>>
        /\ Up /\ Up' /\ handler[r] = "refused" /\ FinishRun(r, 0, "stopped")
        /\ handler' = [handler EXCEPT ![r] = "idle"]
    BY DEF SubmitStopped, serverVars, controlVars, taskVars, Up
  <1>2. /\ runState[r] = "accepted" /\ task[r] = "none" /\ local[r] = NewTask
        /\ r \notin permits /\ r \notin controls /\ r \notin signalled
        /\ Quiet(r) /\ AllSettled(r) /\ NothingBegun(r)
    BY <1>1, WorkingStages, FreshRun
    DEF SupervisorInv, LedgerInv, Ownership, Running, StageAgrees
  <1>3. LedgerNext /\ RunTransaction(r)
    BY <1>1, <1>2, StepIsLocal DEF RunStep, SupervisorInv, LedgerInv
  <1>4. /\ runState'[r] \in TerminalRunStates
        /\ \A q \in Runs \ {r} : runState'[q] = runState[q]
        /\ UNCHANGED <<providerFacts, toolCalls, toolFacts>>
    BY <1>1 DEF FinishRun, AppendRunTransition, TerminalRunStates, SupervisorInv, LedgerInv,
                LedgerTypeOK, providerVars, toolVars
  <1>5. ~IsLive(r)' /\ Quiet(r)' /\ AllSettled(r)' /\ NothingBegun(r)'
    BY <1>2, <1>4, OperationsKept DEF IsLive, LiveRunStates, TerminalRunStates
  <1>6. \A q \in Runs : handler'[q] = IF q = r THEN "idle" ELSE handler[q]
    BY <1>1 DEF SupervisorInv, SupervisorTypeOK
  <1>7. SupervisorTypeOK'
    BY <1>1 DEF SupervisorInv, SupervisorTypeOK
  <1>8. \A q \in Runs : Ownership(q)'
    BY <1>1, <1>2, <1>4, <1>6 DEF SupervisorInv, Ownership, Running, TerminalRunStates
  <1>9. StageAgrees(r)'
    BY <1>1, <1>2 DEF StageAgrees
  <1>10. server # "refused" /\ ~Running(r)
    BY <1>1, <1>2 DEF Up, Running
  <1> QED
    BY <1>1, <1>3, <1>5, <1>6, <1>7, <1>8, <1>9, <1>10, FromOutside

\* A cancellation is recorded, whatever the run's task is doing.
LEMMA CancelKeeps ==
  ASSUME SupervisorInv, NEW r \in Runs, CancelCommit(r)
  PROVE  SupervisorInv' /\ [LedgerNext]_ledgerVars
  <1>1. /\ UNCHANGED <<server, starts, faults, admission, stopping, lifecycle, handler, permits,
                       controls, signalled, task, local, searches>>
        /\ Up /\ Up'
    BY DEF CancelCommit, serverVars, controlVars, taskVars, Up
  <1>2. [LedgerNext]_ledgerVars /\ RunTransaction(r)
    BY StepIsLocal, LedgerUntouched DEF CancelCommit, RunStep, SupervisorInv, LedgerInv
  <1>3. UNCHANGED <<runState, highWater, providerFacts, toolCalls, toolFacts>>
    BY DEF CancelCommit, CancelRun, ledgerVars, runVars, providerVars, toolVars
  <1>4. SupervisorTypeOK'
    BY <1>1 DEF SupervisorInv, SupervisorTypeOK, CancelCommit
  <1>5. StageAgrees(r)'
    <2>1. RowKept(r) /\ StageAgrees(r)
      BY <1>3 DEF RowKept, SupervisorInv
    <2>2. faults \in Nat /\ faults' \in Nat /\ faults' >= faults
      BY <1>1 DEF SupervisorInv, SupervisorTypeOK
    <2> QED
      BY <1>1, <1>3, <2>1, <2>2, StageFrame DEF TranscriptFull, SearchesKept
  <1>6. \A q \in Runs : Ownership(q)'
    BY <1>1, <1>3 DEF SupervisorInv, Ownership, Running
  <1>7. \A t \in Turns, k \in Calls : Unsettled(r, t, k)' => Quiet(r)'
    BY <1>3, OperationsKept DEF SupervisorInv, CallsBetweenTurns
  <1>8. server \notin {"refused", "recover_steering", "recover_runs"}
    BY <1>1 DEF Up
  <1>9. Up /\ ~stopping /\ ~Running(r) => Quiet(r)' /\ NothingBegun(r)'
    BY <1>3, OperationsKept DEF SupervisorInv, RecoveredSoFar
  <1>10. /\ IsLive(r)' <=> IsLive(r)
         /\ TranscriptFull(SessionOf[r])' <=> TranscriptFull(SessionOf[r])
         /\ SearchNotAdmitted(r)' <=> SearchNotAdmitted(r)
    BY <1>1, <1>3 DEF IsLive, TranscriptFull, SearchNotAdmitted, ToolPending, ToolSettled
  <1> QED
    BY <1>1, <1>2, <1>4, <1>5, <1>6, <1>7, <1>8, <1>9, <1>10, FromOutside
    DEF SupervisorInv, LiveRunHasOwner

\* The handle of the run's task, if there is one, is cancelled.
LEMMA SignalKeeps ==
  ASSUME SupervisorInv, NEW r \in Runs, CancelSignal(r)
  PROVE  SupervisorInv' /\ [LedgerNext]_ledgerVars
  <1>1. /\ UNCHANGED <<ledgerVars, server, starts, faults, admission, stopping, lifecycle, handler,
                       permits, controls, task, local, searches>>
        /\ signalled' = signalled \cup ({r} \cap controls)
    BY DEF CancelSignal, serverVars, taskVars
  <1>2. SupervisorTypeOK'
    BY <1>1 DEF SupervisorInv, SupervisorTypeOK, CancelSignal
  <1>3. \A q \in Runs : StageAgrees(q)'
    BY <1>1, TaskStays
  <1>4. \A q \in Runs : Ownership(q)'
    BY <1>1, SameLedger DEF SupervisorInv, Ownership, Running
  <1>5. /\ MemoryNeedsProcess' /\ ShutdownIsStopping' /\ RefusalHasCause' /\ PermitsBounded'
        /\ RecoveredSoFar' /\ LiveRunHasOwner'
    BY <1>1, SameLedger
    DEF SupervisorInv, MemoryNeedsProcess, ShutdownIsStopping, RefusalHasCause, PermitsBounded,
        RecoveredSoFar, LiveRunHasOwner, Up, Running
  <1> QED
    BY <1>1, <1>2, <1>3, <1>4, <1>5, InMemory

\* A task that ends gives back what it held, and leaves a live run only to a server
\* that stops.
LEMMA EndKeeps ==
  ASSUME SupervisorInv, NEW r \in Runs, TaskEnd(r)
  PROVE  SupervisorInv' /\ [LedgerNext]_ledgerVars
  <1>1. /\ UNCHANGED <<ledgerVars, server, starts, faults, admission, lifecycle, handler, signalling,
                       searches>>
        /\ stopping' = (stopping \/ task[r] \in {"error", "fault"})
        /\ task[r] \in {"exit", "error", "fault"} /\ Running(r)
        /\ controls' = controls \ {r} /\ permits' = permits \ {r} /\ signalled' = signalled \ {r}
    BY DEF TaskEnd, handlerVars, Running
  <1>2. \A q \in Runs : /\ task'[q] = IF q = r THEN "none" ELSE task[q]
                        /\ local'[q] = IF q = r THEN NewTask ELSE local[q]
    BY DEF TaskEnd, TaskGoes, SupervisorInv, SupervisorTypeOK
  <1>3. Up /\ Up' /\ stopping \in BOOLEAN
    BY <1>1 DEF SupervisorInv, SupervisorTypeOK, MemoryNeedsProcess, Running, Up
  <1>4. SupervisorTypeOK'
    <2>1. NewTask \in LocalType
      BY BoundAssumption DEF NewTask, LocalType
    <2>2. task' = [task EXCEPT ![r] = "none"] /\ local' = [local EXCEPT ![r] = NewTask]
      BY DEF TaskEnd, TaskGoes
    <2> QED
      BY <1>1, <1>3, <2>1, <2>2 DEF SupervisorInv, SupervisorTypeOK, TaskStages
  <1>5. \A q \in Runs : StageAgrees(q)'
    <2>1. \A q \in Runs \ {r} : StageAgrees(q)'
      BY <1>1, <1>2, TaskStays
    <2>2. StageAgrees(r)'
      BY <1>2 DEF StageAgrees
    <2> QED
      BY <2>1, <2>2
  <1>6. \A q \in Runs : Ownership(q)'
    BY <1>1, <1>2, <1>3, SameLedger DEF SupervisorInv, Ownership, Running
  <1>7. MemoryNeedsProcess' /\ ShutdownIsStopping' /\ RefusalHasCause'
    BY <1>1, <1>3
    DEF SupervisorInv, MemoryNeedsProcess, ShutdownIsStopping, RefusalHasCause, Up
  <1>8. PermitsBounded'
    BY <1>1, PermitsShrink DEF SupervisorInv
  <1>9. RecoveredSoFar'
    <2>1. ~stopping' => Quiet(r) /\ NothingBegun(r)
      BY <1>1, <1>3 DEF SupervisorInv, StageAgrees
    <2>2. \A q \in Runs \ {r} : Running(q)' <=> Running(q)
      BY <1>2 DEF Running
    <2>3. server \notin {"recover_steering", "recover_runs"} /\ (stopping => stopping')
      BY <1>1, <1>3 DEF Up
    <2> QED
      BY <1>1, <1>3, <2>1, <2>2, <2>3, SameLedger DEF RecoveredSoFar, SupervisorInv
  <1>10. LiveRunHasOwner'
    <2>1. IsLive(r) =>
            stopping' /\ (faults > 0 \/ TranscriptFull(SessionOf[r]) \/ SearchNotAdmitted(r))
      BY <1>1, <1>3 DEF SupervisorInv, StageAgrees, IsLive, LiveRunStates, TerminalRunStates
    <2>2. \A q \in Runs \ {r} : Running(q)' <=> Running(q)
      BY <1>2 DEF Running
    <2>3. stopping => stopping'
      BY <1>1, <1>3
    <2> QED
      BY <1>1, <1>3, <2>1, <2>2, <2>3, SameLedger DEF LiveRunHasOwner, SupervisorInv
  <1> QED
    BY <1>1, <1>4, <1>5, <1>6, <1>7, <1>8, <1>9, <1>10, InMemory

--------------------------------------------------------------------------------
(* Shutdown, the end of the process and its next start. *)

\* A stage of shutdown that sets a flag or cancels handles.
LEMMA ShutdownMove ==
  ASSUME SupervisorInv, Up, Up', server' \in ServerStages, admission' \in BOOLEAN,
         stopping' \in BOOLEAN, stopping => stopping', ShutdownIsStopping',
         server = "aborted" => server' = "aborted",
         UNCHANGED <<ledgerVars, starts, faults, handlerVars, permits, controls, taskVars>>,
         signalled' = signalled \/ signalled' = signalled \cup controls
  PROVE  SupervisorInv' /\ [LedgerNext]_ledgerVars
  <1>1. UNCHANGED <<ledgerVars, starts, faults, lifecycle, handler, signalling, permits, controls,
                    task, local, searches>>
    BY DEF handlerVars, taskVars
  <1>2. SupervisorTypeOK'
    BY <1>1 DEF SupervisorInv, SupervisorTypeOK
  <1>3. \A q \in Runs : StageAgrees(q)'
    BY <1>1, TaskStays
  <1>4. \A q \in Runs : Ownership(q)'
    BY <1>1, SameLedger DEF SupervisorInv, Ownership, Running
  <1>5. MemoryNeedsProcess' /\ RefusalHasCause' /\ PermitsBounded'
    BY <1>1 DEF SupervisorInv, MemoryNeedsProcess, RefusalHasCause, PermitsBounded, Up
  <1>6. RecoveredSoFar'
    BY <1>1, SameLedger DEF SupervisorInv, RecoveredSoFar, Up, Running
  <1>7. LiveRunHasOwner'
    BY <1>1, SameLedger DEF SupervisorInv, LiveRunHasOwner, Running
  <1> QED
    BY <1>1, <1>2, <1>3, <1>4, <1>5, <1>6, <1>7, InMemory

\* A shutdown request, the end of the accept loop, and the stages up to the drain.
LEMMA ShutdownKeeps ==
  ASSUME SupervisorInv,
         StopServer \/ LeaveAcceptLoop \/ StopSupervisor \/ CancelAllTasks \/ TasksGone
  PROVE  SupervisorInv' /\ [LedgerNext]_ledgerVars
  <1> USE DEF ServerGoes, controlVars
  <1>0. /\ server \in ServerStages /\ admission \in BOOLEAN /\ stopping \in BOOLEAN
        /\ ShutdownIsStopping
    BY DEF SupervisorInv, SupervisorTypeOK
  <1>1. CASE StopServer
    BY <1>0, <1>1, ShutdownMove DEF StopServer, Up, ShutdownIsStopping
  <1>2. CASE LeaveAcceptLoop
    BY <1>0, <1>2, ShutdownMove DEF LeaveAcceptLoop, Up, ShutdownIsStopping, ServerStages
  <1>3. CASE StopSupervisor
    BY <1>0, <1>3, ShutdownMove DEF StopSupervisor, Up, ShutdownIsStopping, ServerStages
  <1>4. CASE CancelAllTasks
    BY <1>0, <1>4, ShutdownMove DEF CancelAllTasks, Up, ShutdownIsStopping, ServerStages
  <1>5. CASE TasksGone
    BY <1>0, <1>5, ShutdownMove DEF TasksGone, Up, ShutdownIsStopping, ServerStages
  <1> QED
    BY <1>1, <1>2, <1>3, <1>4, <1>5

\* A new process has no task.
LEMMA NoTasks ==
  ASSUME SupervisorInv, DropTasks
  PROVE  /\ task' \in [Runs -> TaskStages] /\ local' \in [Runs -> LocalType]
         /\ \A q \in Runs : StageAgrees(q)' /\ ~Running(q)'
         /\ controls' = {} /\ signalled' = {} /\ UNCHANGED searches
  <1>1. NewTask \in LocalType /\ "none" \in TaskStages
    BY BoundAssumption DEF NewTask, LocalType, TaskStages, Services
  <1>2. \A q \in Runs : task'[q] = "none" /\ local'[q] = NewTask
    BY DEF DropTasks, Idle
  <1> QED
    BY <1>1, <1>2 DEF DropTasks, Idle, StageAgrees, Running

\* The tasks that are left after the timeout are aborted.
LEMMA AbortKeeps ==
  ASSUME SupervisorInv, AbortTasks
  PROVE  SupervisorInv' /\ [LedgerNext]_ledgerVars
  <1>1. /\ server = "draining" /\ server' = "aborted" /\ stopping /\ stopping'
        /\ UNCHANGED <<ledgerVars, starts, faults, admission, stopping, lifecycle, handler,
                       signalling>>
        /\ permits' = {q \in permits : ~Running(q)}
        /\ DropTasks
    BY DEF AbortTasks, ServerGoes, handlerVars, SupervisorInv, ShutdownIsStopping
  <1>2. SupervisorTypeOK'
    BY <1>1, NoTasks DEF SupervisorInv, SupervisorTypeOK, ServerStages
  <1>3. \A q \in Runs : StageAgrees(q)'
    BY <1>1, NoTasks
  <1>4. \A q \in Runs : Ownership(q)'
    BY <1>1, NoTasks, SameLedger DEF SupervisorInv, Ownership
  <1>5. MemoryNeedsProcess' /\ ShutdownIsStopping' /\ RefusalHasCause' /\ RecoveredSoFar'
        /\ LiveRunHasOwner'
    BY <1>1
    DEF MemoryNeedsProcess, ShutdownIsStopping, RefusalHasCause, RecoveredSoFar, LiveRunHasOwner, Up
  <1>6. PermitsBounded'
    BY <1>1, PermitsShrink DEF SupervisorInv
  <1> QED
    BY <1>1, <1>2, <1>3, <1>4, <1>5, <1>6, NoTasks, InMemory

\* The process ends, in order or not, and its memory with it.
LEMMA DownKeeps ==
  ASSUME SupervisorInv, ExitServer \/ Crash
  PROVE  SupervisorInv' /\ [LedgerNext]_ledgerVars
  <1>1. /\ server' = "down" /\ LoseMemory /\ DropTasks
        /\ UNCHANGED <<ledgerVars, starts, faults>>
        /\ permits' = {} /\ stopping' = FALSE /\ lifecycle' = NoRun
    BY DEF ExitServer, Crash, ServerGoes, LoseMemory
  <1>2. \A q \in Runs : handler'[q] = "idle"
    BY <1>1 DEF LoseMemory, Idle
  <1>3. SupervisorTypeOK'
    BY <1>1, NoTasks DEF SupervisorInv, SupervisorTypeOK, LoseMemory, Idle, ServerStages
  <1>4. \A q \in Runs : StageAgrees(q)'
    BY <1>1, NoTasks
  <1>5. \A q \in Runs : Ownership(q)'
    BY <1>1, <1>2, NoTasks, SessionOfAssumption DEF Ownership
  <1>6. MemoryNeedsProcess' /\ ShutdownIsStopping' /\ RefusalHasCause' /\ RecoveredSoFar'
        /\ LiveRunHasOwner'
    BY <1>1, <1>2, NoTasks
    DEF MemoryNeedsProcess, ShutdownIsStopping, RefusalHasCause, RecoveredSoFar, LiveRunHasOwner, Up,
        Running
  <1>7. PermitsBounded'
    BY <1>1, PermitsShrink DEF SupervisorInv
  <1> QED
    BY <1>1, <1>3, <1>4, <1>5, <1>6, <1>7, NoTasks, InMemory

\* A stage of the startup, whatever it pauses.
LEMMA StartupMove ==
  ASSUME SupervisorInv, ~Up, [LedgerNext]_ledgerVars,
         UNCHANGED <<runState, highWater, providerFacts, toolCalls, toolFacts>>,
         server' \in ServerStages \ {"closing", "cancelling", "draining", "joined", "aborted"},
         starts' \in Nat, RecoveredSoFar', RefusalHasCause', Up' => \A r \in Runs : ~IsLive(r),
         UNCHANGED <<faults, admission, stopping, handlerVars, controlVars, taskVars>>
  PROVE  SupervisorInv' /\ [LedgerNext]_ledgerVars
  <1>1. UNCHANGED <<faults, admission, stopping, lifecycle, handler, signalling, permits, controls,
                    signalled, task, local, searches>>
    BY DEF handlerVars, controlVars, taskVars
  <1>2. LedgerInv' /\ LedgerShape' /\ CallsBetweenTurns'
    BY InvNext, ShapeNext, OperationsKept DEF SupervisorInv, LedgerInv, CallsBetweenTurns
  <1>3. SupervisorTypeOK'
    BY <1>1 DEF SupervisorInv, SupervisorTypeOK
  <1>4. \A q \in Runs : task[q] = "none" /\ handler[q] = "idle" /\ local[q] = NewTask
    BY DEF SupervisorInv, MemoryNeedsProcess, StageAgrees
  <1>5. \A q \in Runs : StageAgrees(q)'
    BY <1>1, <1>4 DEF StageAgrees
  <1>6. \A q \in Runs : Ownership(q)'
    BY <1>1 DEF SupervisorInv, Ownership, Running
  <1>7. MemoryNeedsProcess' /\ ShutdownIsStopping' /\ PermitsBounded'
    BY <1>1 DEF SupervisorInv, MemoryNeedsProcess, ShutdownIsStopping, PermitsBounded
  <1>8. LiveRunHasOwner'
    BY DEF LiveRunHasOwner, IsLive
  <1>9. SearchesFollowDispatch'
    BY <1>1 DEF SupervisorInv, SearchesFollowDispatch
  <1> QED
    BY <1>2, <1>3, <1>5, <1>6, <1>7, <1>8, <1>9 DEF SupervisorInv

\* The server starts, and each part of its recovery ends.
LEMMA StartupKeeps ==
  ASSUME SupervisorInv, Start \/ ToolsRecovered \/ RecoverSteering \/ RunsRecovered
  PROVE  SupervisorInv' /\ [LedgerNext]_ledgerVars
  <1>0. starts \in Nat /\ RefusalHasCause /\ RecoveredSoFar /\ ~Up
    BY DEF SupervisorInv, SupervisorTypeOK, Up, Start, ToolsRecovered, RecoverSteering,
           RunsRecovered, RecoveryStage
  <1>1. CASE Start
    <2>1. UNCHANGED <<runState, highWater, providerFacts, toolCalls, toolFacts>> /\ starts' \in Nat
      BY <1>0, <1>1 DEF Start, ledgerVars, runVars, providerVars, toolVars
    <2> QED
      BY <1>0, <1>1, <2>1, StartupMove DEF Start, ServerStages, RecoveredSoFar, RefusalHasCause, Up
  <1>2. CASE ToolsRecovered
    <2>1. UNCHANGED <<runState, highWater, providerFacts, toolCalls, toolFacts>>
      BY <1>2 DEF ToolsRecovered, ledgerVars, runVars, providerVars, toolVars
    <2>2. /\ server' = "recover_steering" /\ UNCHANGED <<starts, faults, ledgerVars>>
          /\ UNCHANGED <<admission, stopping, handlerVars, controlVars, taskVars>>
      BY <1>2 DEF ToolsRecovered, RecoveryStage, ServerGoes
    <2>3. RecoveredSoFar' /\ RefusalHasCause' /\ ~Up'
      BY <1>2, <2>2, SameLedger DEF ToolsRecovered, AllSettled, RecoveredSoFar, RefusalHasCause, Up
    <2> QED
      BY <1>0, <2>1, <2>2, <2>3, StartupMove DEF ServerStages
  <1>3. CASE RecoverSteering
    <2>1. UNCHANGED <<runState, highWater, providerFacts, toolCalls, toolFacts>> /\ LedgerNext
      BY <1>3
      DEF RecoverSteering, PauseSteeringForRecovery, LedgerNext, runVars, providerVars, toolVars
    <2>2. /\ server = "recover_steering" /\ server' = "recover_runs" /\ UNCHANGED <<starts, faults>>
          /\ UNCHANGED <<admission, stopping, handlerVars, controlVars, taskVars>>
      BY <1>3 DEF RecoverSteering, RecoveryStage, ServerGoes
    <2>3. RecoveredSoFar' /\ RefusalHasCause' /\ ~Up'
      BY <1>0, <2>1, <2>2, OperationsKept DEF RecoveredSoFar, RefusalHasCause, Up
    <2> QED
      BY <1>0, <2>1, <2>2, <2>3, StartupMove DEF ServerStages
  <1>4. CASE RunsRecovered
    <2>1. UNCHANGED <<runState, highWater, providerFacts, toolCalls, toolFacts>>
      BY <1>4 DEF RunsRecovered, ledgerVars, runVars, providerVars, toolVars
    <2>2. /\ server = "recover_runs" /\ server' = "serving" /\ UNCHANGED <<starts, faults, ledgerVars>>
          /\ UNCHANGED <<admission, stopping, handlerVars, controlVars, taskVars>>
          /\ \A r \in Runs : ~IsLive(r)
      BY <1>4 DEF RunsRecovered, RecoveryStage, ServerGoes
    <2>3. \A r \in Runs : Quiet(r) /\ NothingBegun(r)
      BY <1>0, <2>2, WorkingStages
      DEF SupervisorInv, LedgerInv, PendingOperationNeedsLiveRun, Quiet, RecoveredSoFar
    <2>4. RecoveredSoFar' /\ RefusalHasCause'
      BY <2>2, <2>3, SameLedger DEF RecoveredSoFar, RefusalHasCause
    <2> QED
      BY <1>0, <2>1, <2>2, <2>4, StartupMove DEF ServerStages
  <1> QED
    BY <1>1, <1>2, <1>3, <1>4

\* A transaction of recovery, which leaves the memory alone.
LEMMA RecoveryTransaction ==
  ASSUME SupervisorInv, NEW r \in Runs, LedgerNext, RunTransaction(r),
         NEW stage \in {"recover_tools", "recover_runs"}, RecoveryStage(stage, stage),
         \A t \in Turns, k \in Calls : Unsettled(r, t, k)' => Quiet(r)',
         stage = "recover_runs" => AllSettled(r)'
  PROVE  SupervisorInv' /\ [LedgerNext]_ledgerVars
  <1>1. /\ server = stage
        /\ UNCHANGED <<server, starts, faults, admission, stopping, lifecycle, handler, signalling,
                       permits, controls, signalled, task, local, searches>>
    BY DEF RecoveryStage, ServerGoes, handlerVars, controlVars, taskVars
  <1>2. ~Up /\ server # "refused" /\ server # "recover_steering"
    BY <1>1 DEF Up
  <1>3. \A q \in Runs : task[q] = "none" /\ handler[q] = "idle" /\ local[q] = NewTask
    BY <1>2 DEF SupervisorInv, MemoryNeedsProcess, StageAgrees
  <1>4. SupervisorTypeOK'
    BY <1>1 DEF SupervisorInv, SupervisorTypeOK
  <1>5. StageAgrees(r)' /\ \A q \in Runs : Ownership(q)'
    BY <1>1, <1>3 DEF StageAgrees, SupervisorInv, Ownership, Running
  <1> QED
    BY <1>1, <1>2, <1>4, <1>5, FromOutside

\* A live run is ended with what it left open.
LEMMA RecoverRunKeeps ==
  ASSUME SupervisorInv, NEW r \in Runs, RecoverRun(r)
  PROVE  SupervisorInv' /\ [LedgerNext]_ledgerVars
  <1>1. RecoveryStage("recover_runs", "recover_runs") /\ AllSettled(r)
    BY DEF RecoverRun, RecoveryStage, SupervisorInv, RecoveredSoFar
  <1>2. LedgerNext /\ RunTransaction(r)
    BY StepIsLocal DEF RecoverRun, RunStep, ProviderStep, SupervisorInv, LedgerInv
  <1>3. UNCHANGED <<toolCalls, toolFacts>>
    BY DEF RecoverRun, FinishRun, toolVars
  <1>4. AllSettled(r)' /\ \A t \in Turns, k \in Calls : ~Unsettled(r, t, k)'
    BY <1>1, <1>3, CallsKept DEF AllSettled
  <1> QED
    BY <1>1, <1>2, <1>4, RecoveryTransaction

\* The first call without a result is prepared or answered, or the start is refused
\* for a call that cannot be.
LEMMA RecoverToolKeeps ==
  ASSUME SupervisorInv, NEW r \in Runs, NEW t \in Turns, NEW k \in Calls, RecoverTool(r, t, k)
  PROVE  SupervisorInv' /\ [LedgerNext]_ledgerVars
  <1> DEFINE result == RecoveredResult(r, t, k)
  <1>1. Unsettled(r, t, k) /\ Quiet(r) /\ server = "recover_tools"
    BY DEF RecoverTool, FirstUnsettled, SupervisorInv, CallsBetweenTurns, RecoveryStage
  <1>2. /\ toolFacts[<<r, t, k>>] # {} => "prepared" \in toolFacts[<<r, t, k>>]
        /\ result \in ToolResults /\ result # "ok"
        /\ result \in {"uncertain", "web_uncertain"} => "dispatched" \in toolFacts[<<r, t, k>>]
    <2>1. toolFacts[<<r, t, k>>] # {} => "prepared" \in toolFacts[<<r, t, k>>]
      BY DEF SupervisorInv, LedgerShape
    <2>2. \/ result = "not_dispatched"
          \/ result \in {"uncertain", "interrupted"} /\ "dispatched" \in toolFacts[<<r, t, k>>]
      BY DEF RecoveredResult
    <2> QED
      BY <2>1, <2>2 DEF ToolResults
  <1> HIDE DEF result
  <1>3. ASSUME PrepareToolOperation(r, t, k) \/ CompleteToolResult(r, t, k, result),
               RecoveryStage("recover_tools", "recover_tools")
        PROVE  SupervisorInv' /\ [LedgerNext]_ledgerVars
    <2>1. ToolStep(r, t, k)
      BY <1>1, <1>2, <1>3 DEF ToolStep
    <2>2. LedgerNext /\ RunTransaction(r)
      BY <2>1, StepIsLocal DEF SupervisorInv, LedgerInv
    <2>3. UNCHANGED providerFacts
      BY <1>3 DEF PrepareToolOperation, CompleteToolResult, providerVars
    <2>4. Quiet(r)'
      BY <1>1, <2>3 DEF Quiet, ProviderPending
    <2> QED
      BY <1>3, <2>2, <2>4, RecoveryTransaction
  <1>4. ASSUME IF toolFacts[<<r, t, k>>] = {} THEN ~CanPrepareTool(r, t, k)
                                             ELSE ~CanCompleteTool(r, t, k, result),
               RecoveryStage("recover_tools", "refused"), UNCHANGED ledgerVars
        PROVE  SupervisorInv' /\ [LedgerNext]_ledgerVars
    <2>1. UNCHANGED <<runState, highWater, providerFacts, toolCalls, toolFacts>>
      BY <1>4 DEF ledgerVars, runVars, providerVars, toolVars
    <2>2. /\ server' = "refused" /\ UNCHANGED <<starts, faults>> /\ starts \in Nat /\ ~Up /\ ~Up'
          /\ UNCHANGED <<admission, stopping, handlerVars, controlVars, taskVars>>
      BY <1>1, <1>4 DEF RecoveryStage, ServerGoes, SupervisorInv, SupervisorTypeOK, Up
    <2>3. IsLive(r) => runState[r] = "active"
      BY <1>1, FreshRun
      DEF SupervisorInv, LedgerInv, IsLive, LiveRunStates, AllSettled
    <2>4. toolFacts[<<r, t, k>>] = {} => ~IsLive(r)
      <3>1. ASSUME NEW j \in 1..(k - 1) PROVE ToolSettled(r, t, j)
        <4>1. toolCalls[<<r, t>>] \in Seq(ToolKinds) /\ k <= Len(toolCalls[<<r, t>>])
          BY <1>1 DEF Unsettled, IsCall, SupervisorInv, LedgerInv, LedgerTypeOK
        <4>2. j \in Calls /\ j <= Len(toolCalls[<<r, t>>]) /\ ~(k <= j) /\ ~(t < t)
          BY <4>1, BoundAssumption DEF Calls, Turns
        <4>3. Unsettled(r, t, j) => t < t \/ (t = t /\ k <= j)
          BY <4>2 DEF RecoverTool, FirstUnsettled
        <4> QED
          BY <4>2, <4>3 DEF Unsettled, IsCall
      <3> QED
        BY <1>1, <1>4, <2>3, <3>1 DEF CanPrepareTool, Unsettled
    <2>5. toolFacts[<<r, t, k>>] # {} /\ IsLive(r) => TranscriptFull(SessionOf[r])
      <3>1. ASSUME toolFacts[<<r, t, k>>] # {}, IsLive(r)
            PROVE  ~(highWater[SessionOf[r]] + 1 <= MaxEntries)
        BY <1>1, <1>2, <1>4, <2>3, <3>1 DEF CanCompleteTool, ToolPending, Unsettled
      <3>2. highWater[SessionOf[r]] \in 0..MaxEntries
        BY SessionOfAssumption DEF SupervisorInv, LedgerInv, LedgerTypeOK
      <3> QED
        BY <3>1, <3>2, BoundAssumption DEF TranscriptFull
    <2>6. RefusalHasCause'
      BY <1>1, <1>4, <2>4, <2>5, SameLedger DEF RefusalHasCause
    <2>7. RecoveredSoFar'
      BY <2>2 DEF RecoveredSoFar
    <2> QED
      BY <1>4, <2>1, <2>2, <2>6, <2>7, StartupMove DEF ServerStages
  <1> QED
    BY <1>3, <1>4 DEF RecoverTool, result

--------------------------------------------------------------------------------
(* The invariant, and what follows from it. *)

\* A server that was never started satisfies the invariant.
LEMMA SupervisorInvInit == Init => SupervisorInv
  <1> SUFFICES ASSUME Init PROVE SupervisorInv
    OBVIOUS
  <1>1. LedgerInv
    BY InvInit DEF Init
  <1>2. \A r \in Runs, t \in Turns :
          /\ runState[r] = "none" /\ providerFacts[<<r, t>>] = {} /\ Len(toolCalls[<<r, t>>]) = 0
          /\ \A k \in Calls : toolFacts[<<r, t, k>>] = {}
    BY DEF Init, LedgerInit
  <1>3. LedgerShape
    <2>1. 0 <= MaxCalls
      BY BoundAssumption
    <2> QED
      BY <1>2, <2>1 DEF LedgerShape
  <1>4. \A r \in Runs, t \in Turns, k \in Calls : ~Unsettled(r, t, k)
    <2>1. \A k \in Calls : ~(k <= 0)
      BY BoundAssumption DEF Calls
    <2> QED
      BY <1>2, <2>1 DEF Unsettled, IsCall
  <1>5. SupervisorTypeOK
    <2>1. NewTask \in LocalType
      BY BoundAssumption DEF NewTask, LocalType
    <2> QED
      BY <2>1 DEF Init, SupervisorTypeOK, Idle, ServerStages, TaskStages, SearchStates
  <1>6. \A r \in Runs : StageAgrees(r) /\ Ownership(r)
    BY SessionOfAssumption DEF Init, Idle, StageAgrees, Ownership, Running
  <1>7. PermitsBounded
    BY FS_EmptySet, SupervisorBoundAssumption DEF Init, PermitsBounded
  <1>8. MemoryNeedsProcess /\ ShutdownIsStopping /\ CallsBetweenTurns /\ RecoveredSoFar
        /\ RefusalHasCause /\ LiveRunHasOwner /\ SearchesFollowDispatch
    BY <1>4
    DEF Init, SearchesFollowDispatch, Idle, MemoryNeedsProcess, ShutdownIsStopping, CallsBetweenTurns, RecoveredSoFar,
        RefusalHasCause, LiveRunHasOwner, Up
  <1> QED
    BY <1>1, <1>3, <1>5, <1>6, <1>7, <1>8 DEF SupervisorInv

\* Every step keeps it, and is a step of the ledger's protocol or none of the ledger.
LEMMA SupervisorInvNext == SupervisorInv /\ [Next]_vars => SupervisorInv' /\ [LedgerNext]_ledgerVars
  <1> SUFFICES ASSUME SupervisorInv, [Next]_vars PROVE SupervisorInv' /\ [LedgerNext]_ledgerVars
    OBVIOUS
  <1>1. ASSUME NEW r \in Runs, TaskStep(r) PROVE SupervisorInv' /\ [LedgerNext]_ledgerVars
    BY <1>1, ActivateKeeps, BoundaryKeeps, PrepareKeeps, PreparedKeeps, DispatchKeeps, ToolsKeeps,
       ToolPreparedKeeps, SearchAdmitKeeps, SearchDispatchKeeps, SearchResultKeeps, ToolStopKeeps,
       InterruptedKeeps, EndKeeps
    DEF TaskStep
  <1>2. ASSUME NEW r \in Runs, EnvironmentStep(r) PROVE SupervisorInv' /\ [LedgerNext]_ledgerVars
    BY <1>2, CompactsKeeps, CallFailedKeeps, AnsweredKeeps, ToolAnsweredKeeps,
       SearchAnsweredKeeps, FaultKeeps
    DEF EnvironmentStep
  <1>3. ASSUME NEW r \in Runs, RequestStep(r) \/ SubmitStep(r) \/ CancelSignal(r)
        PROVE  SupervisorInv' /\ [LedgerNext]_ledgerVars
    BY <1>3, ReserveKeeps, CancelKeeps, AcceptKeeps, StartKeeps, StoppedKeeps, SignalKeeps
    DEF RequestStep, SubmitStep
  <1>4. CASE StopServer \/ LeaveAcceptLoop \/ ShutdownStep \/ Crash
    BY <1>4, ShutdownKeeps, AbortKeeps, DownKeeps DEF ShutdownStep
  <1>5. CASE Start \/ RecoveryStep
    BY <1>5, StartupKeeps, RecoverRunKeeps, RecoverToolKeeps DEF RecoveryStep
  <1>6. CASE UNCHANGED vars
    <2>1. /\ UNCHANGED <<server, starts, faults, admission, stopping, lifecycle, handler, signalling,
                         permits, controls, signalled, task, local, searches>>
          /\ UNCHANGED ledgerVars
      BY <1>6 DEF vars, serverVars, handlerVars, controlVars, taskVars
    <2>2. SupervisorTypeOK'
      BY <2>1 DEF SupervisorInv, SupervisorTypeOK
    <2>3. \A q \in Runs : StageAgrees(q)'
      BY <2>1, TaskStays
    <2>4. \A q \in Runs : Ownership(q)'
      BY <2>1, SameLedger DEF SupervisorInv, Ownership, Running
    <2>5. /\ MemoryNeedsProcess' /\ ShutdownIsStopping' /\ RefusalHasCause' /\ PermitsBounded'
          /\ RecoveredSoFar' /\ LiveRunHasOwner'
      BY <2>1, SameLedger
      DEF SupervisorInv, MemoryNeedsProcess, ShutdownIsStopping, RefusalHasCause, PermitsBounded,
          RecoveredSoFar, LiveRunHasOwner, Up, Running
    <2> QED
      BY <2>1, <2>2, <2>3, <2>4, <2>5, InMemory
  <1> QED
    BY <1>1, <1>2, <1>3, <1>4, <1>5, <1>6 DEF Next

\* The invariant holds in every state of the server, across crashes and restarts.
THEOREM SupervisorTheorem == Spec => []SupervisorInv
  BY SupervisorInvInit, SupervisorInvNext, PTL DEF Spec

\* Whatever handlers, tasks, shutdown and recovery do, in any order, the ledger sees
\* only callers that keep its protocol: the server implements LedgerSpec.
THEOREM ProtocolTheorem == Spec => KeepsLedgerProtocol
  <1>1. Init => LedgerInit
    BY DEF Init
  <1> QED
    BY <1>1, SupervisorInvInit, SupervisorInvNext, PTL DEF Spec, KeepsLedgerProtocol

\* So every theorem about the ledger holds of the server: a run has one outcome for
\* ever, and what its clients were told of it never changes.
THEOREM ServerKeepsHistory == Spec => TerminalRunsAreFinal /\ ImplementsContract /\ []LedgerInv
  BY ProtocolTheorem, HistoryTheorem, Refinement, InvAlways DEF KeepsLedgerProtocol, LedgerSpec

\* No transaction of a task is refused, those of a web search included, and no start,
\* but for want of room, for a call of a run that ended inside its batch, or for a
\* policy lifted between the two transactions that decide the route of a search.
THEOREM RefusalTheorem == Spec => []NoTransactionRefused
  <1>1. SupervisorInv => NoTransactionRefused
    BY DEF SupervisorInv, StageAgrees, RefusalHasCause, NoTransactionRefused
  <1> QED
    BY <1>1, SupervisorTheorem, PTL

\* Every live run has one owner, every task a live run, every permit its holder.
THEOREM OwnershipTheorem == Spec => []RunsAreOwned
  <1>1. SupervisorInv => TaskOwnsLiveRun
    BY WorkingStages DEF TaskOwnsLiveRun
  <1>2. SupervisorInv => PermitsMatchOwners
    <2> SUFFICES ASSUME SupervisorInv PROVE PermitsMatchOwners
      OBVIOUS
    <2>1. permits = {r \in Runs : handler[r] \in {"reserved", "accepted"} \/ Running(r)}
      BY DEF SupervisorInv, SupervisorTypeOK, Ownership
    <2>2. {r \in Runs : Running(r)} \subseteq permits
      BY <2>1
    <2>3. IsFiniteSet(permits) /\ Cardinality(permits) <= MaxConcurrentRuns
      BY DEF SupervisorInv, PermitsBounded
    <2>4. /\ Cardinality({r \in Runs : Running(r)}) <= Cardinality(permits)
          /\ Cardinality({r \in Runs : Running(r)}) \in Nat /\ Cardinality(permits) \in Nat
      BY <2>2, <2>3, FS_Subset, FS_CardinalityType
    <2> QED
      BY <2>1, <2>3, <2>4, SupervisorBoundAssumption DEF PermitsMatchOwners
  <1> QED
    BY <1>1, <1>2, SupervisorTheorem, PTL DEF SupervisorInv, RunsAreOwned

\* Nothing is sent to a provider or given to a tool before its dispatch is durable, and
\* no web search goes out before its attempt is.
THEOREM JournalTheorem == Spec => []EffectsAreJournalled
  <1>1. ASSUME SupervisorInv, NEW r \in Runs, task[r] = "execute"
        PROVE  /\ ProviderInFlight(r, local[r].turn)
               /\ \A t \in Turns, k \in Calls : ~Unsettled(r, t, k)
    BY <1>1 DEF SupervisorInv, StageAgrees, AtOperation, AllSettled, ProviderInFlight
  <1>2. ASSUME SupervisorInv, NEW r \in Runs, task[r] = "tool_execute"
        PROVE  /\ ToolPending(r, local[r].turn, local[r].call)
               /\ "dispatched" \in toolFacts[TaskCall(r)]
               /\ CallKind(r) = "web" => searches[TaskCall(r)] = "attempted"
    BY <1>2, DispatchedCall DEF SupervisorInv, StageAgrees, DispatchedStages
  <1>3. SupervisorInv => EffectsAreJournalled
    BY <1>1, <1>2 DEF EffectsAreJournalled
  <1> QED
    BY <1>3, SupervisorTheorem, PTL

\* A server that serves has recovered what its predecessors left open.
THEOREM RecoveryTheorem == Spec => []ServesRecoveredState
  <1>1. SupervisorInv => ServesRecoveredState
    <2> SUFFICES ASSUME SupervisorInv, server = "serving", ~stopping, NEW r \in Runs, ~Running(r)
                 PROVE  /\ \A t \in Turns : ~ProviderPending(r, t)
                        /\ \A t \in Turns, k \in Calls :
                             Unsettled(r, t, k) => ~IsLive(r) /\ toolFacts[<<r, t, k>>] = {}
      BY DEF ServesRecoveredState
    <2>1. Up /\ Quiet(r) /\ NothingBegun(r)
      BY DEF Up, SupervisorInv, RecoveredSoFar
    <2>2. IsLive(r) => AllSettled(r)
      <3>1. ASSUME IsLive(r) PROVE runState[r] = "accepted"
        BY <2>1, <3>1
        DEF SupervisorInv, LiveRunHasOwner, Ownership
      <3> QED
        BY <3>1, FreshRun DEF SupervisorInv, LedgerInv
    <2> QED
      BY <2>1, <2>2 DEF Quiet, NothingBegun, AllSettled
  <1> QED
    BY <1>1, SupervisorTheorem, PTL
================================================================================

----------------------------- MODULE RunSupervisor -----------------------------
(***************************************************************************)
(* A server process above the ledger: request handlers that submit and     *)
(* cancel runs, one supervisor task per run, orderly shutdown, crashes and *)
(* the recovery that the next start performs before it serves.             *)
(*                                                                         *)
(* A step is the code between two awaits: one ledger transaction with the  *)
(* in-memory change that follows it, or an in-memory critical section.     *)
(* Sources: run_supervisor.rs, application.rs, main.rs, run_recovery.rs,   *)
(* tool_execution.rs, tools/web_search.rs, web_binding.rs.                 *)
(***************************************************************************)
EXTENDS SessionLedger, FiniteSets

CONSTANTS
  MaxConcurrentRuns,  \* MAX_CONCURRENT_RUNS
  MaxCompactions,     \* bound: compactions one run performs
  MaxStarts,          \* bound: times the server process is started
  MaxFaults           \* bound: storage calls that fail

ASSUME SupervisorBoundAssumption ==
  /\ MaxTurns # 0 /\ MaxConcurrentRuns \in Nat \ {0}
  /\ MaxCompactions \in Nat /\ MaxStarts \in Nat /\ MaxFaults \in Nat

VARIABLES
  server,        \* stage of the process, from start to exit
  starts,        \* number of starts so far
  faults,        \* number of failed storage calls so far
  admission,     \* no shutdown flag is set: inputs are admitted
  stopping,      \* RunSupervisor::is_stopping
  lifecycle,     \* holder of the lifecycle_mutations lock, NoRun if free
  handler,       \* where the SubmitSessionInput handler of a run is
  signalling,    \* a CancelRun handler has committed and not yet signalled
  permits,       \* runs that hold a permit
  controls,      \* runs with a cancellation handle in SupervisorState
  signalled,     \* runs whose handle was cancelled
  task,          \* where the run's supervisor task is
  local,         \* the task's local variables:
                 \*   turn: the provider operation it holds
                 \*   call: the index of the tool call it is at
                 \*   source: the high water of the context it loaded
                 \*   mustCompact: recovery_requires_compaction
                 \*   compactions: the compactions it performed
                 \*   binding: the services its web search is bound to
                 \*   route: the service its web search was admitted to
  searches       \* the rows of each web search: its attempt, its success

serverVars == <<server, starts, faults, admission, stopping>>
handlerVars == <<lifecycle, handler, signalling>>
controlVars == <<permits, controls, signalled>>
taskVars == <<task, local, searches>>
vars == <<ledgerVars, serverVars, handlerVars, controlVars, taskVars>>

ServerStages ==
  {"down", "recover_tools", "recover_steering", "recover_runs", "serving", "closing",
   "cancelling", "draining", "joined", "aborted", "refused"}
TaskStages ==
  {"none", "activate", "boundary", "compact", "prepare", "prepared", "dispatch", "execute",
   "tools", "tool_prepared", "web_admit", "web_dispatch", "web_succeeded", "tool_execute",
   "tool_stop", "exit", "error", "fault"}
Services == {"native", "exa"}
WebRoutes == {"OpenAi", "ExaMissingCredential", "ExaPolicyDenied"}
NewTask ==
  [turn |-> 0, call |-> 0, source |-> 0, mustCompact |-> FALSE, compactions |-> 0,
   binding |-> {}, route |-> "none"]

Idle(value) == [r \in Runs |-> value]

Init ==
  /\ LedgerInit
  /\ server = "down"
  /\ starts = 0
  /\ faults = 0
  /\ admission = TRUE
  /\ stopping = FALSE
  /\ lifecycle = NoRun
  /\ handler = Idle("idle")
  /\ signalling = Idle(FALSE)
  /\ permits = {}
  /\ controls = {}
  /\ signalled = {}
  /\ task = Idle("none")
  /\ local = Idle(NewTask)
  /\ searches = [c \in Runs \X Turns \X Calls |-> "none"]

\* Handlers and tasks run until the process ends.
Up == server \in {"serving", "closing", "cancelling", "draining", "joined", "aborted"}

Running(r) == task[r] # "none"

--------------------------------------------------------------------------------
(* The SubmitSessionInput handler. *)

\* Under the lifecycle lock, without an await: the shutdown flags and a permit.
SubmitReserve(r) ==
  /\ Up
  /\ handler[r] = "idle"
  /\ runState[r] = "none"
  /\ lifecycle = NoRun
  /\ admission /\ ~stopping
  /\ Cardinality(permits) < MaxConcurrentRuns
  /\ lifecycle' = r
  /\ handler' = [handler EXCEPT ![r] = "reserved"]
  /\ permits' = permits \cup {r}
  /\ UNCHANGED <<ledgerVars, serverVars, signalling, controls, signalled, taskVars>>

\* The lock is dropped with the ledger's answer.  A refusal (SessionBusy,
\* ResourceLimit, ...) drops the permit and is returned to the client.
SubmitAccept(r) ==
  /\ Up
  /\ handler[r] = "reserved"
  /\ lifecycle' = NoRun
  /\ \/ /\ AcceptSessionInput(r)
        /\ handler' = [handler EXCEPT ![r] = "accepted"]
        /\ UNCHANGED permits
     \/ /\ ~CanAcceptInput(r)
        /\ handler' = [handler EXCEPT ![r] = "idle"]
        /\ permits' = permits \ {r}
        /\ UNCHANGED ledgerVars
  /\ UNCHANGED <<serverVars, signalling, controls, signalled, taskVars>>

\* Mutant: a run that cannot start is left as it is.
SubmitStart_ForgetsRun(r) ==
  /\ Up
  /\ handler[r] = "accepted"
  /\ handler' = [handler EXCEPT ![r] = "idle"]
  /\ permits' = IF stopping THEN permits \ {r} ELSE permits
  /\ controls' = IF stopping THEN controls ELSE controls \cup {r}
  /\ task' = IF stopping THEN task ELSE [task EXCEPT ![r] = "activate"]
  /\ UNCHANGED <<ledgerVars, serverVars, lifecycle, signalling, signalled, local, searches>>

\* RunSupervisor::start, under the supervisor's state lock.
SubmitStart(r) ==
  /\ Up
  /\ handler[r] = "accepted"
  /\ IF stopping
       THEN /\ handler' = [handler EXCEPT ![r] = "refused"]
            /\ permits' = permits \ {r}
            /\ UNCHANGED <<controls, task>>
       ELSE /\ handler' = [handler EXCEPT ![r] = "idle"]
            /\ controls' = controls \cup {r}
            /\ task' = [task EXCEPT ![r] = "activate"]
            /\ UNCHANGED permits
  /\ UNCHANGED <<ledgerVars, serverVars, lifecycle, signalling, signalled, local, searches>>

\* A run that could not start is ended by its own handler.
SubmitStopped(r) ==
  /\ Up
  /\ handler[r] = "refused"
  /\ FinishRun(r, 0, "stopped")
  /\ handler' = [handler EXCEPT ![r] = "idle"]
  /\ UNCHANGED <<serverVars, lifecycle, signalling, controlVars, taskVars>>

--------------------------------------------------------------------------------
(* The CancelRun handler: the durable intent, then the in-memory signal. *)

\* A retry of a request whose intent was applied commits nothing and signals again.
CancelCommit(r) ==
  /\ Up
  /\ ~signalling[r]
  /\ \/ CancelRun(r)
     \/ cancelRequested[r] /\ UNCHANGED ledgerVars
  /\ signalling' = [signalling EXCEPT ![r] = TRUE]
  /\ UNCHANGED <<serverVars, lifecycle, handler, controlVars, taskVars>>

CancelSignal(r) ==
  /\ Up
  /\ signalling[r]
  /\ signalling' = [signalling EXCEPT ![r] = FALSE]
  /\ signalled' = signalled \cup ({r} \cap controls)
  /\ UNCHANGED <<ledgerVars, serverVars, lifecycle, handler, permits, controls, taskVars>>

--------------------------------------------------------------------------------
(* The supervisor task of a run: execute_run. *)

TaskGoes(r, stage) == task' = [task EXCEPT ![r] = stage]

\* A transition the task makes on its own: it touches no handler and no control.
TaskFrame == UNCHANGED <<serverVars, handlerVars, controlVars>>

\* Nor, unless it is at a web search, the rows of one.
TaskOnly == TaskFrame /\ UNCHANGED searches

\* A transaction that refuses its caller changes nothing; the task gives up.
Refused(r) == TaskGoes(r, "error") /\ UNCHANGED <<ledgerVars, local>>

\* A transaction that finds the run terminal changes nothing; the task is done.
AlreadyOver(r) == ~IsLive(r) /\ TaskGoes(r, "exit") /\ UNCHANGED <<ledgerVars, local>>

\* The task ends its run with the outcome kind, naming the operation t (0: none).
TaskFinishes(r, t, kind) ==
  \/ FinishRun(r, t, kind) /\ TaskGoes(r, "exit") /\ UNCHANGED local
  \/ IsLive(r) /\ t # 0 /\ ~ProviderPending(r, t) /\ Refused(r)
  \/ AlreadyOver(r)

\* A provider error fails the run; a credential store that cannot be read asks for
\* shutdown as well (classify_provider_failure).
ProviderFailure ==
  \/ TaskOnly
  \/ /\ stopping' = TRUE
     /\ UNCHANGED <<server, starts, faults, admission, handlerVars, controlVars, searches>>

TaskActivate(r) ==
  /\ task[r] = "activate"
  /\ \/ /\ ActivateRun(r)
        /\ TaskGoes(r, IF runState'[r] = "active" THEN "boundary" ELSE "exit")
        /\ UNCHANGED local
     \/ AlreadyOver(r)
  /\ TaskOnly

\* Between turns: stop if signalled, else load the context, which may need
\* compaction first.  A load that fails, or a rejected context with nothing left
\* to compact, fails the run.
TaskBoundary(r) ==
  /\ task[r] = "boundary"
  /\ \/ r \in signalled /\ TaskFinishes(r, 0, "stopped")
     \/ r \notin signalled /\ TaskFinishes(r, 0, "failed")
     \/ /\ r \notin signalled
        /\ ~local[r].mustCompact
        /\ TaskGoes(r, "prepare")
        /\ local' = [local EXCEPT ![r].source = highWater[SessionOf[r]]]
        /\ UNCHANGED ledgerVars
     \/ /\ r \notin signalled
        /\ local[r].compactions < MaxCompactions
        /\ TaskGoes(r, "compact")
        /\ UNCHANGED <<ledgerVars, local>>
  /\ TaskOnly

\* execute_compaction, whose own journal is not part of the ledger.
TaskCompacts(r) ==
  /\ task[r] = "compact"
  /\ \/ /\ TaskGoes(r, "boundary")
        /\ local' = [local EXCEPT ![r].compactions = @ + 1, ![r].mustCompact = FALSE]
        /\ UNCHANGED ledgerVars
        /\ TaskOnly
     \/ TaskFinishes(r, 0, "failed") /\ ProviderFailure

\* A request that cannot be built, or data use that is restricted, fails the run.
TaskPrepare(r) ==
  /\ task[r] = "prepare"
  /\ \/ TaskFinishes(r, 0, "failed") /\ ProviderFailure
     \/ /\ \E t \in Turns :
             /\ PrepareProviderOperation(r, t, local[r].source)
             /\ IF runState'[r] = "active"
                  THEN TaskGoes(r, "prepared") /\ local' = [local EXCEPT ![r].turn = t]
                  ELSE TaskGoes(r, "exit") /\ UNCHANGED local
        /\ TaskOnly
     \/ AlreadyOver(r) /\ TaskOnly
     \/ /\ IsLive(r) /\ ~cancelRequested[r]
        /\ \A t \in Turns : ~CanPrepareProvider(r, t, local[r].source)
        /\ Refused(r)
        /\ TaskOnly

\* Mutant: the request is sent before its dispatch is recorded.
TaskPrepared_SkipsDispatch(r) ==
  /\ task[r] = "prepared"
  /\ TaskGoes(r, "execute")
  /\ UNCHANGED <<ledgerVars, local>>
  /\ TaskOnly

\* prepare_dispatch
TaskPrepared(r) ==
  /\ task[r] = "prepared"
  /\ \/ r \in signalled /\ TaskFinishes(r, local[r].turn, "stopped") /\ TaskOnly
     \/ /\ r \notin signalled
        /\ TaskFinishes(r, local[r].turn, "failed")
        /\ ProviderFailure
     \/ /\ r \notin signalled
        /\ TaskGoes(r, "dispatch")
        /\ UNCHANGED <<ledgerVars, local>>
        /\ TaskOnly

TaskDispatch(r) ==
  /\ task[r] = "dispatch"
  /\ \/ /\ MarkProviderDispatched(r, local[r].turn)
        /\ TaskGoes(r, IF runState'[r] = "active" THEN "execute" ELSE "exit")
        /\ UNCHANGED local
     \/ IsLive(r) /\ ~ProviderPending(r, local[r].turn) /\ Refused(r)
     \/ TaskFinishes(r, local[r].turn, "failed")
  /\ TaskOnly

\* A failed call: the outcome is known to be nothing, or unknown.
TaskCallFailed(r) ==
  /\ task[r] = "execute"
  /\ \E kind \in {"failed", "uncertain"} : TaskFinishes(r, local[r].turn, kind)
  /\ ProviderFailure

\* Any other answer: a rejected context, a final text or tool calls.  The last
\* operation the bound allows is not followed by another.
TaskAnswered(r) ==
  LET t == local[r].turn IN
  /\ task[r] = "execute"
  /\ \/ /\ t < MaxTurns
        /\ SettleContextRejection(r, t)
        /\ TaskGoes(r, "boundary")
        /\ local' = [local EXCEPT ![r].mustCompact = TRUE]
     \/ /\ CompleteRunSuccess(r, t)
        /\ TaskGoes(r, "exit")
        /\ UNCHANGED local
     \/ \E calls \in CallBatches, commentary \in {0, 1} :
          /\ t < MaxTurns
          /\ CompleteProviderToolTurn(r, t, calls, commentary)
          /\ TaskGoes(r, "tools")
          /\ local' = [local EXCEPT ![r].call = 1]
     \/ /\ \/ ~ProviderInFlight(r, t)
           \/ ~SourceUnchanged(r, t)
           \/ ~cancelRequested[r] /\ highWater[SessionOf[r]] + 1 > MaxEntries
        /\ Refused(r)
  /\ TaskOnly

--------------------------------------------------------------------------------
(* execute_tool_calls *)

\* After the last call of the batch, stop if signalled, else start another turn.
TaskTools(r) ==
  LET t == local[r].turn k == local[r].call IN
  /\ task[r] = "tools"
  /\ IF k <= Len(toolCalls[<<r, t>>])
       THEN \/ /\ PrepareToolOperation(r, t, k)
               /\ TaskGoes(r, "tool_prepared")
               /\ UNCHANGED local
            \/ ~CanPrepareTool(r, t, k) /\ Refused(r)
       ELSE IF r \in signalled
         THEN TaskFinishes(r, 0, "stopped")
         ELSE /\ TaskGoes(r, "boundary")
              /\ local' = [local EXCEPT ![r].call = 0]
              /\ UNCHANGED ledgerVars
  /\ TaskOnly

\* Mutant: the next call is the same call.
AfterResult_SameCall(r, result) ==
  /\ TaskGoes(r, CASE result = "cancelled" -> "tool_stop"
                   [] StopsRun(result) -> "exit"
                   [] OTHER -> "tools")
  /\ UNCHANGED local

\* Where the task goes once the result of its call is committed.
AfterResult(r, result) ==
  /\ TaskGoes(r, CASE result = "cancelled" -> "tool_stop"
                   [] StopsRun(result) -> "exit"
                   [] OTHER -> "tools")
  /\ local' = [local EXCEPT
                  ![r].call = IF result = "cancelled" \/ StopsRun(result) THEN @ ELSE @ + 1,
                  ![r].binding = {}, ![r].route = "none"]

\* web_binding::validate_result: what a search reports has its rows.
Evidenced(r, t, k, result) ==
  toolCalls[<<r, t>>][k] = "web" =>
    /\ result = "ok" => searches[<<r, t, k>>] = "succeeded"
    /\ result \in {"uncertain", "web_uncertain"} => searches[<<r, t, k>>] # "none"

TaskResult(r, result) ==
  LET t == local[r].turn k == local[r].call IN
  \/ CompleteToolResult(r, t, k, result) /\ Evidenced(r, t, k, result) /\ AfterResult(r, result)
  \/ ~(CanCompleteTool(r, t, k, result) /\ Evidenced(r, t, k, result)) /\ Refused(r)

\* The kind of the call the task is at.
CallKind(r) == toolCalls[<<r, local[r].turn>>][local[r].call]

\* With its dispatch a web search is bound to the services that the login and the
\* policy allow at that moment.  With neither it fails without being dispatched.
TaskToolPrepared(r) ==
  LET t == local[r].turn k == local[r].call IN
  /\ task[r] = "tool_prepared"
  /\ IF r \in signalled
       THEN TaskResult(r, "cancelled")
       ELSE \/ /\ MarkToolDispatched(r, t, k)
               /\ \/ /\ CallKind(r) # "web"
                     /\ TaskGoes(r, "tool_execute")
                     /\ UNCHANGED local
                  \/ /\ CallKind(r) = "web"
                     /\ TaskGoes(r, "web_admit")
                     /\ \E services \in SUBSET Services \ {{}} :
                          local' = [local EXCEPT ![r].binding = services]
            \/ CallKind(r) = "web" /\ TaskResult(r, "failed")
            \/ ~CanMarkToolDispatched(r, t, k) /\ Refused(r)
  /\ TaskOnly

\* What a tool of each kind may answer.  An effect that may have happened is
\* uncertain; a kernel that is shutting down, or a lost reader, is interrupted.
Answers(kind) ==
  {"ok", "failed", "interrupted"} \cup (IF kind = "mutation" THEN {"uncertain"} ELSE {})

TaskToolAnswered(r) ==
  /\ task[r] = "tool_execute"
  /\ CallKind(r) # "web"
  /\ \E result \in Answers(CallKind(r)) : TaskResult(r, result)
  /\ TaskOnly

--------------------------------------------------------------------------------
(* A web search: WebSearchToolExecutor::execute.  Its login and the data   *)
(* use policy belong to the clients: what each transaction reads of them   *)
(* is any value.                                                           *)

TaskCall(r) == <<r, local[r].turn, local[r].call>>

\* The owner check of admit_web_route.  An owner that is no longer active is
\* answered like a cancelled handle.
SearchIsOwned(r) ==
  /\ runState[r] = "active" /\ ~cancelRequested[r]
  /\ ~ToolSettled(r, local[r].turn, local[r].call)

SearchGoesOn(r) == r \notin signalled /\ SearchIsOwned(r)

\* The services a binding has, and what the policy allows now, decide the route.
Routes(services) ==
  IF "native" \notin services THEN {"ExaMissingCredential"}
  ELSE IF "exa" \in services THEN {"OpenAi", "ExaPolicyDenied"} ELSE {"OpenAi"}

\* admit_web_binding.  A policy that denies the only service fails the call.
TaskSearchAdmit(r) ==
  /\ task[r] = "web_admit"
  /\ \/ ~SearchGoesOn(r) /\ TaskResult(r, "cancelled")
     \/ SearchGoesOn(r) /\ local[r].binding = {"native"} /\ TaskResult(r, "failed")
     \/ /\ SearchGoesOn(r)
        /\ TaskGoes(r, "web_dispatch")
        /\ \E route \in Routes(local[r].binding) : local' = [local EXCEPT ![r].route = route]
        /\ UNCHANGED ledgerVars
  /\ TaskOnly

\* validate_route, and one attempt for each invocation.
CanDispatchSearch(r) ==
  local[r].route # "ExaPolicyDenied" /\ searches[TaskCall(r)] = "none"

\* dispatch_web_search.  The call fails when its login cannot be prepared, or when
\* the policy denies its route now.
TaskSearchDispatch(r) ==
  /\ task[r] = "web_dispatch"
  /\ \/ /\ \/ ~SearchGoesOn(r) /\ TaskResult(r, "cancelled")
           \/ /\ r \notin signalled
              /\ local[r].route = "OpenAi" \/ SearchIsOwned(r)
              /\ TaskResult(r, "failed")
           \/ SearchGoesOn(r) /\ ~CanDispatchSearch(r) /\ Refused(r)
        /\ TaskOnly
     \/ /\ SearchGoesOn(r) /\ CanDispatchSearch(r)
        /\ searches' = [searches EXCEPT ![TaskCall(r)] = "attempted"]
        /\ TaskGoes(r, "tool_execute")
        /\ UNCHANGED <<ledgerVars, local>>
        /\ TaskFrame

\* The guard of complete_web_search, which ignores a cancellation.
CanCompleteSearch(r) ==
  /\ runState[r] = "active"
  /\ ~ToolSettled(r, local[r].turn, local[r].call)
  /\ searches[TaskCall(r)] = "attempted"

\* A native search that was sent is uncertain when it fails; Exa tells a failure
\* before the request from one after it.
SearchFailures(route) == IF route = "OpenAi" THEN {"web_uncertain"} ELSE {"failed", "uncertain"}

TaskSearchAnswered(r) ==
  /\ task[r] = "tool_execute"
  /\ CallKind(r) = "web"
  /\ \/ /\ \/ \E result \in SearchFailures(local[r].route) : TaskResult(r, result)
           \/ ~CanCompleteSearch(r) /\ Refused(r)
        /\ TaskOnly
     \/ /\ CanCompleteSearch(r)
        /\ searches' = [searches EXCEPT ![TaskCall(r)] = "succeeded"]
        /\ TaskGoes(r, "web_succeeded")
        /\ UNCHANGED <<ledgerVars, local>>
        /\ TaskFrame

\* complete_tool_result with the receipt of the search.
TaskSearchResult(r) ==
  /\ task[r] = "web_succeeded"
  /\ TaskResult(r, "ok")
  /\ TaskOnly

--------------------------------------------------------------------------------

TaskToolStop(r) ==
  /\ task[r] = "tool_stop"
  /\ TaskFinishes(r, 0, "stopped")
  /\ TaskOnly

\* What a tool answers that observes its cancelled handle.
Interruptions(r) ==
  IF CallKind(r) # "web" THEN {"cancelled"}
  ELSE IF local[r].route = "OpenAi" THEN {"web_uncertain"} ELSE {"cancelled", "uncertain"}

\* Mutant: the run of a cancelled provider call ends without naming the call.
TaskInterrupted_ForgetsOperation(r) ==
  /\ r \in signalled
  /\ \/ task[r] \in {"execute", "compact"} /\ TaskFinishes(r, 0, "stopped")
     \/ task[r] = "tool_execute" /\ \E result \in Interruptions(r) : TaskResult(r, result)
  /\ TaskOnly

\* Mutant: a compaction does not watch its handle.
TaskInterrupted_NotCompaction(r) ==
  /\ r \in signalled
  /\ \/ task[r] = "execute" /\ TaskFinishes(r, local[r].turn, "stopped")
     \/ task[r] = "tool_execute" /\ \E result \in Interruptions(r) : TaskResult(r, result)
  /\ TaskOnly

\* A provider call, a compaction or a tool that observes its cancelled handle.
TaskInterrupted(r) ==
  /\ r \in signalled
  /\ \/ task[r] = "execute" /\ TaskFinishes(r, local[r].turn, "stopped")
     \/ task[r] = "compact" /\ TaskFinishes(r, 0, "stopped")
     \/ task[r] = "tool_execute" /\ \E result \in Interruptions(r) : TaskResult(r, result)
  /\ TaskOnly

\* A storage call of the task, of its database or of the credential vault, fails
\* without committing.
StorageFault(r) ==
  /\ faults < MaxFaults
  /\ task[r] \notin {"none", "exit", "error", "fault"}
  /\ faults' = faults + 1
  /\ TaskGoes(r, "fault")
  /\ UNCHANGED <<ledgerVars, server, starts, admission, stopping, handlerVars, controlVars,
                 local, searches>>

\* The spawned future ends: an error asks for shutdown and leaves the run to the
\* next start.  Its control and permit go with it.
TaskEnd(r) ==
  /\ task[r] \in {"exit", "error", "fault"}
  /\ stopping' = (stopping \/ task[r] \in {"error", "fault"})
  /\ TaskGoes(r, "none")
  /\ local' = [local EXCEPT ![r] = NewTask]
  /\ controls' = controls \ {r}
  /\ permits' = permits \ {r}
  /\ signalled' = signalled \ {r}
  /\ UNCHANGED <<ledgerVars, server, starts, faults, admission, handlerVars, searches>>

TaskStep(r) ==
  \/ TaskActivate(r)
  \/ TaskBoundary(r)
  \/ TaskPrepare(r)
  \/ TaskPrepared(r)
  \/ TaskDispatch(r)
  \/ TaskTools(r)
  \/ TaskToolPrepared(r)
  \/ TaskSearchAdmit(r)
  \/ TaskSearchDispatch(r)
  \/ TaskSearchResult(r)
  \/ TaskToolStop(r)
  \/ TaskInterrupted(r)
  \/ TaskEnd(r)

\* Answers of the provider and of tools, which the code can only wait for.
EnvironmentStep(r) ==
  \/ TaskCompacts(r)
  \/ TaskCallFailed(r)
  \/ TaskAnswered(r)
  \/ TaskToolAnswered(r)
  \/ TaskSearchAnswered(r)
  \/ StorageFault(r)

--------------------------------------------------------------------------------
(* Orderly shutdown: StopServer, main, ServerApplication::shutdown and     *)
(* RunSupervisor::shutdown.                                                *)

ServerGoes(stage) == server' = stage /\ UNCHANGED <<starts, faults>>

\* The handler holds the lifecycle lock while it sets the flags.
StopServer ==
  /\ Up
  /\ lifecycle = NoRun
  /\ ~stopping
  /\ admission' = FALSE
  /\ stopping' = TRUE
  /\ UNCHANGED <<ledgerVars, server, starts, faults, handlerVars, controlVars, taskVars>>

\* Mutant: the loop of main misses a shutdown that was requested by a client.
LeaveAcceptLoop_MissesRequest ==
  /\ server = "serving"
  /\ admission
  /\ ServerGoes("closing")
  /\ admission' = FALSE
  /\ UNCHANGED <<ledgerVars, stopping, handlerVars, controlVars, taskVars>>

\* main leaves its accept loop, on a shutdown request or on ctrl-c.
LeaveAcceptLoop ==
  /\ server = "serving"
  /\ ServerGoes("closing")
  /\ admission' = FALSE
  /\ UNCHANGED <<ledgerVars, stopping, handlerVars, controlVars, taskVars>>

StopSupervisor ==
  /\ server = "closing"
  /\ ServerGoes("cancelling")
  /\ stopping' = TRUE
  /\ UNCHANGED <<ledgerVars, admission, handlerVars, controlVars, taskVars>>

CancelAllTasks ==
  /\ server = "cancelling"
  /\ ServerGoes("draining")
  /\ signalled' = signalled \cup controls
  /\ UNCHANGED <<ledgerVars, admission, stopping, handlerVars, permits, controls, taskVars>>

\* Every task is joined, or the timeout expires and the rest are aborted.
TasksGone ==
  /\ server = "draining"
  /\ \A r \in Runs : ~Running(r)
  /\ ServerGoes("joined")
  /\ UNCHANGED <<ledgerVars, admission, stopping, handlerVars, controlVars, taskVars>>

DropTasks ==
  /\ controls' = {}
  /\ signalled' = {}
  /\ task' = Idle("none")
  /\ local' = Idle(NewTask)
  /\ UNCHANGED searches

AbortTasks ==
  /\ server = "draining"
  /\ \E r \in Runs : Running(r)
  /\ ServerGoes("aborted")
  /\ DropTasks
  /\ permits' = {r \in permits : ~Running(r)}
  /\ UNCHANGED <<ledgerVars, admission, stopping, handlerVars>>

\* What a process loses when it ends.
LoseMemory ==
  /\ DropTasks
  /\ permits' = {}
  /\ admission' = TRUE
  /\ stopping' = FALSE
  /\ lifecycle' = NoRun
  /\ handler' = Idle("idle")
  /\ signalling' = Idle(FALSE)

\* The connections are drained, or aborted by a timeout with their handlers.
ExitServer ==
  /\ server \in {"joined", "aborted"}
  /\ ServerGoes("down")
  /\ LoseMemory
  /\ UNCHANGED ledgerVars

\* The process dies: every transaction is either committed or lost.
Crash ==
  /\ server \notin {"down", "refused"}
  /\ starts < MaxStarts
  /\ ServerGoes("down")
  /\ LoseMemory
  /\ UNCHANGED ledgerVars

--------------------------------------------------------------------------------
(* Startup: Backend::open recovers tools, then runs, before serving. *)

RecoveryStage(from, to) ==
  /\ server = from
  /\ ServerGoes(to)
  /\ UNCHANGED <<admission, stopping, handlerVars, controlVars, taskVars>>

Start ==
  /\ server = "down"
  /\ starts < MaxStarts
  /\ server' = "recover_tools"
  /\ starts' = starts + 1
  /\ UNCHANGED <<ledgerVars, faults, admission, stopping, handlerVars, controlVars, taskVars>>

\* incomplete_tool_operations: committed calls with no terminal fact, in order.
Unsettled(r, t, k) == IsCall(r, t, k) /\ ~ToolSettled(r, t, k)

FirstUnsettled(r, t, k) ==
  /\ Unsettled(r, t, k)
  /\ \A u \in Turns, j \in Calls :
       Unsettled(r, u, j) => t < u \/ (t = u /\ k <= j)

RecoveredResult(r, t, k) ==
  IF "dispatched" \notin toolFacts[<<r, t, k>>] THEN "not_dispatched"
  ELSE IF toolCalls[<<r, t>>][k] \in {"mutation", "web"} THEN "uncertain"
  ELSE "interrupted"

\* A call that was never prepared is prepared first.  An error of either
\* transaction makes open fail, and with it the start of the server.
RecoverTool(r, t, k) ==
  LET result == RecoveredResult(r, t, k) IN
  /\ FirstUnsettled(r, t, k)
  /\ \/ /\ toolFacts[<<r, t, k>>] = {}
        /\ PrepareToolOperation(r, t, k)
        /\ RecoveryStage("recover_tools", "recover_tools")
     \/ /\ toolFacts[<<r, t, k>>] # {}
        /\ CompleteToolResult(r, t, k, result)
        /\ RecoveryStage("recover_tools", "recover_tools")
     \/ /\ IF toolFacts[<<r, t, k>>] = {} THEN ~CanPrepareTool(r, t, k)
                                      ELSE ~CanCompleteTool(r, t, k, result)
        /\ RecoveryStage("recover_tools", "refused")
        /\ UNCHANGED ledgerVars

ToolsRecovered ==
  /\ \A r \in Runs, t \in Turns, k \in Calls : ~Unsettled(r, t, k)
  /\ RecoveryStage("recover_tools", "recover_steering")
  /\ UNCHANGED ledgerVars

RecoverSteering ==
  /\ RecoveryStage("recover_steering", "recover_runs")
  /\ PauseSteeringForRecovery

\* Mutant: recovery ends a run and overlooks the operation it left pending.
RecoverRun_ForgetsOperation(r) ==
  RecoveryStage("recover_runs", "recover_runs") /\ FinishRun(r, 0, "stopped")

\* A live run is stopped together with the operation it left pending.
RecoverRun(r) ==
  /\ RecoveryStage("recover_runs", "recover_runs")
  /\ \/ Quiet(r) /\ FinishRun(r, 0, "stopped")
     \/ \E t \in Turns : ProviderPending(r, t) /\ FinishRun(r, t, "stopped")

RunsRecovered ==
  /\ \A r \in Runs : ~IsLive(r)
  /\ RecoveryStage("recover_runs", "serving")
  /\ UNCHANGED ledgerVars

--------------------------------------------------------------------------------

\* The rest of a submit handler once it holds its permit.
SubmitStep(r) ==
  \/ SubmitAccept(r)
  \/ SubmitStart(r)
  \/ SubmitStopped(r)

RequestStep(r) == SubmitReserve(r) \/ CancelCommit(r)

ShutdownStep ==
  \/ StopSupervisor
  \/ CancelAllTasks
  \/ TasksGone
  \/ AbortTasks
  \/ ExitServer

RecoveryStep ==
  \/ \E r \in Runs :
       \/ RecoverRun(r)
       \/ \E t \in Turns, k \in Calls : RecoverTool(r, t, k)
  \/ ToolsRecovered
  \/ RecoverSteering
  \/ RunsRecovered

Next ==
  \/ \E r \in Runs :
       \/ TaskStep(r)
       \/ EnvironmentStep(r)
       \/ RequestStep(r)
       \/ SubmitStep(r)
       \/ CancelSignal(r)
  \/ StopServer
  \/ LeaveAcceptLoop
  \/ ShutdownStep
  \/ Start
  \/ RecoveryStep
  \/ Crash

Spec == Init /\ [][Next]_vars

\* tokio runs every ready task and handler, the loop of main sees a shutdown
\* request, timeouts bound the drains, and a start runs to its end.  Nothing is
\* assumed of clients, of providers, of tools or of whoever starts the server.
Fairness ==
  /\ \A r \in Runs :
       WF_vars(TaskStep(r)) /\ WF_vars(SubmitStep(r)) /\ WF_vars(CancelSignal(r))
  /\ WF_vars(stopping /\ LeaveAcceptLoop)
  /\ WF_vars(ShutdownStep)
  /\ WF_vars(RecoveryStep)

FairSpec == Spec /\ Fairness

--------------------------------------------------------------------------------
(* Properties. *)

\* Every call the handlers, the tasks and recovery make of the ledger keeps its
\* protocol: an outcome is reported for the operation that is pending, and tools
\* run only between provider operations.  So what holds of the ledger under that
\* protocol holds of the server, crashes and restarts included.
KeepsLedgerProtocol == LedgerInit /\ [][LedgerNext]_ledgerVars

\* No entry can be appended to the session's transcript any more.
TranscriptFull(s) == highWater[s] = MaxEntries

\* A web search of the run was given to a tool and its dispatch was never admitted.
SearchNotAdmitted(r) ==
  \E t \in Turns, k \in Calls :
    /\ ToolPending(r, t, k)
    /\ toolCalls[<<r, t>>][k] = "web"
    /\ "dispatched" \in toolFacts[<<r, t, k>>]
    /\ searches[<<r, t, k>>] = "none"

\* No transaction of a run task is refused by the ledger's checks (a context that
\* changed before preparation or before its outcome, an operation of a run that is
\* no longer active, a call out of order, a search with no attempt): the task meets
\* an error only when storage itself fails, when there is no room for an answer or
\* for the result of a call that was committed, or when a search that the policy
\* turned away from OpenAI finds the policy lifted at its dispatch, however handlers,
\* shutdown and the task interleave.
\* A start is refused only by a call of a run that ended inside its batch, or again
\* for want of room.
NoTransactionRefused ==
  /\ \A r \in Runs : task[r] = "error" =>
       \/ TranscriptFull(SessionOf[r])
       \/ local[r].route = "ExaPolicyDenied" /\ SearchNotAdmitted(r)
  /\ server = "refused" =>
       \E r \in Runs, t \in Turns, k \in Calls :
         Unsettled(r, t, k) /\ (~IsLive(r) \/ TranscriptFull(SessionOf[r]))

\* A live run has exactly one owner that will end it: the handler that accepted it or
\* its task.  After a task that met an error the server stops.
LiveRunHasOwner ==
  \A r \in Runs : Up /\ IsLive(r) =>
    \/ handler[r] \in {"accepted", "refused"} /\ ~Running(r)
    \/ Running(r) /\ handler[r] = "idle"
    \/ stopping /\ (faults > 0 \/ TranscriptFull(SessionOf[r]) \/ SearchNotAdmitted(r))
    \/ server = "aborted"

\* A task works only on a run that is live, so nothing it does comes after the
\* run's terminal event.
TaskOwnsLiveRun ==
  \A r \in Runs : task[r] \notin {"none", "exit", "error", "fault"} => IsLive(r)

\* A permit is held by a handler before its start or by a running task, and by
\* nothing else, so permits do not leak; at most MAX_CONCURRENT_RUNS tasks run.
PermitsMatchOwners ==
  /\ permits = {r \in Runs : handler[r] \in {"reserved", "accepted"} \/ Running(r)}
  /\ Cardinality({r \in Runs : Running(r)}) <= MaxConcurrentRuns

\* Over acceptance, refusal, the start of a task, its end, a storage failure and
\* shutdown, every live run keeps one owner, every task a live run, and every permit
\* its holder: no run is forgotten, none is worked on after its end, and the server
\* does not end up refusing all input (RunSupervisor::start, shutdown).
RunsAreOwned == LiveRunHasOwner /\ TaskOwnsLiveRun /\ PermitsMatchOwners

\* The external effect of a step is durable before it begins: a provider request
\* or a tool is executing only if the ledger says it was dispatched, a web search
\* only if its attempt was admitted as well, and a second provider request only once
\* every tool call of the earlier turns has its result.
EffectsAreJournalled ==
  \A r \in Runs :
    /\ task[r] = "execute" =>
         /\ ProviderInFlight(r, local[r].turn)
         /\ \A t \in Turns, k \in Calls : ~Unsettled(r, t, k)
    /\ task[r] = "tool_execute" =>
         /\ ToolPending(r, local[r].turn, local[r].call)
         /\ "dispatched" \in toolFacts[TaskCall(r)]
         /\ CallKind(r) = "web" => searches[TaskCall(r)] = "attempted"

\* A server serves only what it has recovered: no provider operation that an earlier
\* process left open is still open, and no tool call that was begun, whatever point
\* it died at.  What remains are calls of an ended run that nobody ever prepared.
ServesRecoveredState ==
  server = "serving" /\ ~stopping => \A r \in Runs : ~Running(r) =>
    /\ \A t \in Turns : ~ProviderPending(r, t)
    /\ \A t \in Turns, k \in Calls :
         Unsettled(r, t, k) => ~IsLive(r) /\ toolFacts[<<r, t, k>>] = {}

\* A cancelled run ends, or its process does: the task observes the signal
\* wherever it waits, even if the provider or the tool never answers.
CancelledRunEnds ==
  \A r \in Runs : cancelRequested[r] /\ Up ~> runState[r] \in TerminalRunStates \/ ~Up

\* A shutdown request is followed by the end of the process.
ShutdownCompletes == stopping ~> ~Up
================================================================================

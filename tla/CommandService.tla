---------------------------- MODULE CommandService -----------------------------
(***************************************************************************)
(* Local commands above the ledger: the handlers that execute and cancel   *)
(* them, one supervisor task per command, shutdown, exit, crash and the    *)
(* recovery of the next start.                                             *)
(*                                                                         *)
(* A step is the code between two awaits.  The handler that executes a     *)
(* command keeps the lifecycle lock from its reservation to the start of   *)
(* the task.  The shell runs on a blocking thread, which only its own end  *)
(* or its cancelled handle stops.                                          *)
(* Sources: command_supervisor.rs, application.rs, main.rs, tools/bash.rs, *)
(* local_command.rs.                                                       *)
(***************************************************************************)
EXTENDS SessionLedger, FiniteSets

CONSTANTS
  MaxConcurrentCommands,  \* MAX_CONCURRENT_COMMANDS
  MaxStarts,              \* bound: times the server process is started
  MaxFaults,              \* bound: storage calls that fail
  NoCommand               \* the lifecycle lock is free

ASSUME CommandBoundAssumption ==
  /\ MaxConcurrentCommands \in Nat \ {0}
  /\ MaxStarts \in Nat /\ MaxFaults \in Nat
  /\ NoCommand \notin Commands

VARIABLES
  server,       \* stage of the process, from start to exit
  starts,       \* number of starts so far
  faults,       \* number of failed storage calls so far
  admission,    \* ServerApplication::stopping is not set
  stopping,     \* CommandSupervisor::stopping
  lifecycle,    \* holder of the lifecycle_mutations lock
  handler,      \* where the ExecuteLocalCommand handler of a command is
  signalling,   \* a CancelLocalCommand handler has committed and not yet signalled
  permits,      \* commands that hold a permit
  controls,     \* commands with a handle in SupervisorState
  signalled,    \* commands whose handle was cancelled
  task,         \* where the command's supervisor task is
  result,       \* the terminal state the task's result stands for
  awaited       \* tasks that shutdown took over and joins

serverVars == <<server, starts, faults, admission, stopping>>
handlerVars == <<lifecycle, handler, signalling>>
controlVars == <<permits, controls, signalled>>
taskVars == <<task, result, awaited>>
vars == <<ledgerVars, serverVars, handlerVars, controlVars, taskVars>>

ServerStages ==
  {"down", "recovering", "refused", "serving", "closing", "joining", "joined", "exiting"}
TaskStages == {"none", "activate", "execute", "settle", "exit", "orphan"}

Each(value) == [c \in Commands |-> value]

Init ==
  /\ LedgerInit
  /\ server = "down"
  /\ starts = 0
  /\ faults = 0
  /\ admission = TRUE
  /\ stopping = FALSE
  /\ lifecycle = NoCommand
  /\ handler = Each("idle")
  /\ signalling = Each(FALSE)
  /\ permits = {}
  /\ controls = {}
  /\ signalled = {}
  /\ task = Each("none")
  /\ result = Each("none")
  /\ awaited = {}

\* Handlers and tasks run until main returns.
Up == server \in {"serving", "closing", "joining", "joined"}

IsLiveCommand(c) == commandState[c] \in LiveCommandStates

--------------------------------------------------------------------------------
(* The ExecuteLocalCommand handler. *)

\* A request whose command exists is answered with it.  try_reserve reads the
\* supervisor's flag and takes a permit.
ExecuteReserve(c) ==
  /\ Up
  /\ handler[c] = "idle"
  /\ commandState[c] = "none"
  /\ lifecycle = NoCommand
  /\ admission /\ ~stopping
  /\ Cardinality(permits) < MaxConcurrentCommands
  /\ lifecycle' = c
  /\ handler' = [handler EXCEPT ![c] = "reserved"]
  /\ permits' = permits \cup {c}
  /\ UNCHANGED <<ledgerVars, serverVars, signalling, controls, signalled, taskVars>>

\* The handler returns, with the lock and the permit it still holds.
Returns(c) ==
  /\ lifecycle' = NoCommand
  /\ handler' = [handler EXCEPT ![c] = "idle"]
  /\ permits' = permits \ {c}

ExecuteAccept(c) ==
  /\ Up
  /\ handler[c] = "reserved"
  /\ \/ /\ AcceptLocalCommand(c)
        /\ handler' = [handler EXCEPT ![c] = "accepted"]
        /\ UNCHANGED <<lifecycle, permits>>
     \/ /\ ~CanAcceptCommand(c)
        /\ Returns(c)
        /\ UNCHANGED ledgerVars
  /\ UNCHANGED <<serverVars, signalling, controls, signalled, taskVars>>

\* CommandSupervisor::start takes the permit over.  It does not look at stopping.
ExecuteStart(c) ==
  /\ Up
  /\ handler[c] = "accepted"
  /\ lifecycle' = NoCommand
  /\ handler' = [handler EXCEPT ![c] = "idle"]
  /\ controls' = controls \cup {c}
  /\ task' = [task EXCEPT ![c] = "activate"]
  /\ UNCHANGED <<ledgerVars, serverVars, signalling, permits, signalled, result, awaited>>

\* get_session fails after the acceptance committed: the handler gives up.
ExecuteFault(c) ==
  /\ Up
  /\ faults < MaxFaults
  /\ handler[c] = "accepted"
  /\ faults' = faults + 1
  /\ Returns(c)
  /\ UNCHANGED <<ledgerVars, server, starts, admission, stopping, signalling, controls,
                 signalled, taskVars>>

--------------------------------------------------------------------------------
(* The CancelLocalCommand handler: a request that applies the intent       *)
(* signals afterwards; a retry, or one that finds it applied, does not.    *)

CancelCommit(c) ==
  /\ Up
  /\ CancelLocalCommand(c)
  /\ signalling' = [signalling EXCEPT ![c] = TRUE]
  /\ UNCHANGED <<serverVars, lifecycle, handler, controlVars, taskVars>>

CancelSignal(c) ==
  /\ Up
  /\ signalling[c]
  /\ signalling' = [signalling EXCEPT ![c] = FALSE]
  /\ signalled' = signalled \cup ({c} \cap controls)
  /\ UNCHANGED <<ledgerVars, serverVars, lifecycle, handler, permits, controls, taskVars>>

--------------------------------------------------------------------------------
(* The supervisor task of a command: execute. *)

TaskGoes(c, stage, outcome) ==
  /\ task' = [task EXCEPT ![c] = stage]
  /\ result' = [result EXCEPT ![c] = outcome]
  /\ UNCHANGED <<serverVars, handlerVars, controlVars, awaited>>

\* Mutant: the shell is started without the durable activation.
TaskActivate_SkipsRecord(c) ==
  /\ Up
  /\ task[c] = "activate"
  /\ TaskGoes(c, "execute", "none")
  /\ UNCHANGED ledgerVars

\* Mutant: activation does not read the cancellation flag.
TaskActivate_IgnoresCancel(c) ==
  /\ Up
  /\ task[c] = "activate"
  /\ commandState' = [commandState EXCEPT ![c] = "active"]
  /\ TaskGoes(c, "execute", "none")
  /\ UNCHANGED <<runVars, highWater, providerVars, toolVars, commandCancel, steeringVars,
                 archiveVars>>

\* A command that was cancelled before it is activated is completed as cancelled.
TaskActivate(c) ==
  /\ Up
  /\ task[c] = "activate"
  /\ \/ ActivateLocalCommand(c) /\ TaskGoes(c, "execute", "none")
     \/ /\ commandCancel[c] \/ ~IsLiveCommand(c)
        /\ TaskGoes(c, "settle", "interrupted")
        /\ UNCHANGED ledgerVars

\* The shell exits, exceeds its output limit, or is lost.
TaskExecuted(c) ==
  /\ Up
  /\ task[c] = "execute"
  /\ \E outcome \in TerminalCommandStates : TaskGoes(c, "settle", outcome)
  /\ UNCHANGED ledgerVars

\* Mutant: the shell's loop polls the shutdown flag instead of its handle.
TaskInterrupted_OnShutdown(c) ==
  /\ Up
  /\ task[c] = "execute"
  /\ stopping
  /\ \E outcome \in {"interrupted", "uncertain"} : TaskGoes(c, "settle", outcome)
  /\ UNCHANGED ledgerVars

\* The shell's loop polls its handle; a tree it cannot terminate is uncertain.
TaskInterrupted(c) ==
  /\ Up
  /\ task[c] = "execute"
  /\ c \in signalled
  /\ \E outcome \in {"interrupted", "uncertain"} : TaskGoes(c, "settle", outcome)
  /\ UNCHANGED ledgerVars

\* A refused completion (the transcript is full) is only printed.
TaskSettle(c) ==
  /\ Up
  /\ task[c] = "settle"
  /\ \/ CompleteLocalCommand(c, result[c])
     \/ ~CanCompleteCommand(c) /\ UNCHANGED ledgerVars
  /\ TaskGoes(c, "exit", "none")

\* A failed storage call is only printed as well.
StorageFault(c) ==
  /\ Up
  /\ faults < MaxFaults
  /\ task[c] \in {"activate", "settle"}
  /\ faults' = faults + 1
  /\ task' = [task EXCEPT ![c] = "exit"]
  /\ result' = [result EXCEPT ![c] = "none"]
  /\ UNCHANGED <<ledgerVars, server, starts, admission, stopping, handlerVars, controlVars,
                 awaited>>

TaskEnd(c) ==
  /\ Up
  /\ task[c] = "exit"
  /\ task' = [task EXCEPT ![c] = "none"]
  /\ controls' = controls \ {c}
  /\ signalled' = signalled \ {c}
  /\ permits' = permits \ {c}
  /\ awaited' = awaited \ {c}
  /\ UNCHANGED <<ledgerVars, serverVars, handlerVars, result>>

--------------------------------------------------------------------------------
(* Shutdown, exit and restart. *)

ServerGoes(stage) == server' = stage /\ UNCHANGED <<starts, faults>>

\* StopServer sets the flag under the lifecycle lock.
StopServer ==
  /\ Up
  /\ lifecycle = NoCommand
  /\ admission
  /\ admission' = FALSE
  /\ UNCHANGED <<ledgerVars, server, starts, faults, stopping, handlerVars, controlVars,
                 taskVars>>

\* main leaves its loop, on a request or on ctrl-c; the other supervisors go first.
LeaveAcceptLoop ==
  /\ server = "serving"
  /\ ServerGoes("closing")
  /\ admission' = FALSE
  /\ UNCHANGED <<ledgerVars, stopping, handlerVars, controlVars, taskVars>>

\* CommandSupervisor::shutdown cancels every handle and takes the tasks over.
StopSupervisor ==
  /\ server = "closing"
  /\ ServerGoes("joining")
  /\ stopping' = TRUE
  /\ signalled' = signalled \cup controls
  /\ awaited' = {c \in Commands : task[c] # "none"}
  /\ UNCHANGED <<ledgerVars, admission, handlerVars, permits, controls, task, result>>

\* It joins them without a timeout and clears the handles.
TasksJoined ==
  /\ server = "joining"
  /\ awaited = {}
  /\ ServerGoes("joined")
  /\ controls' = {}
  /\ signalled' = {}
  /\ UNCHANGED <<ledgerVars, admission, stopping, handlerVars, permits, taskVars>>

\* What the end of main drops.  A blocking thread keeps the process until it ends.
ForgetRequests ==
  /\ admission' = TRUE
  /\ stopping' = FALSE
  /\ lifecycle' = NoCommand
  /\ handler' = Each("idle")
  /\ signalling' = Each(FALSE)
  /\ permits' = {}
  /\ controls' = {}
  /\ signalled' = {}
  /\ result' = Each("none")
  /\ awaited' = {}

ExitServer ==
  /\ server = "joined"
  /\ ServerGoes("exiting")
  /\ ForgetRequests
  /\ task' = [c \in Commands |-> IF task[c] = "execute" THEN "orphan" ELSE "none"]
  /\ UNCHANGED ledgerVars

OrphanEnds(c) ==
  /\ task[c] = "orphan"
  /\ task' = [task EXCEPT ![c] = "none"]
  /\ UNCHANGED <<ledgerVars, serverVars, handlerVars, controlVars, result, awaited>>

ProcessEnds ==
  /\ server = "exiting"
  /\ \A c \in Commands : task[c] = "none"
  /\ ServerGoes("down")
  /\ UNCHANGED <<ledgerVars, admission, stopping, handlerVars, controlVars, taskVars>>

Crash ==
  /\ server \notin {"down", "refused"}
  /\ starts < MaxStarts
  /\ ServerGoes("down")
  /\ ForgetRequests
  /\ task' = Each("none")
  /\ UNCHANGED ledgerVars

Start ==
  /\ server = "down"
  /\ starts < MaxStarts
  /\ server' = "recovering"
  /\ starts' = starts + 1
  /\ UNCHANGED <<ledgerVars, faults, admission, stopping, handlerVars, controlVars, taskVars>>

RecoveryStage(stage) ==
  /\ server = "recovering"
  /\ ServerGoes(stage)
  /\ UNCHANGED <<admission, stopping, handlerVars, controlVars, taskVars>>

\* A command that was active may have had effects; one that was not had none.
\* A completion that is refused makes open fail.
RecoverCommands ==
  \/ \E c \in Commands :
       /\ IsLiveCommand(c)
       /\ \/ /\ CompleteLocalCommand(c, IF commandState[c] = "active" THEN "uncertain"
                                        ELSE "interrupted")
             /\ RecoveryStage("recovering")
          \/ ~CanCompleteCommand(c) /\ RecoveryStage("refused") /\ UNCHANGED ledgerVars
  \/ /\ \A c \in Commands : ~IsLiveCommand(c)
     /\ RecoveryStage("serving")
     /\ UNCHANGED ledgerVars

--------------------------------------------------------------------------------

HandlerStep(c) == ExecuteAccept(c) \/ ExecuteStart(c)

TaskStep(c) == TaskActivate(c) \/ TaskInterrupted(c) \/ TaskSettle(c) \/ TaskEnd(c)

ShutdownStep == StopSupervisor \/ TasksJoined \/ ExitServer \/ ProcessEnds

Next ==
  \/ \E c \in Commands :
       \/ ExecuteReserve(c)
       \/ HandlerStep(c)
       \/ ExecuteFault(c)
       \/ CancelCommit(c)
       \/ CancelSignal(c)
       \/ TaskStep(c)
       \/ TaskExecuted(c)
       \/ StorageFault(c)
       \/ OrphanEnds(c)
  \/ StopServer
  \/ LeaveAcceptLoop
  \/ ShutdownStep
  \/ Start
  \/ RecoverCommands
  \/ Crash

Spec == Init /\ [][Next]_vars

\* tokio runs ready handlers and tasks, the shell's loop polls its handle, the
\* loop of main sees a stop request, the drain of connections is bounded by its
\* timeout and a start runs to its end.  Nothing is assumed of clients or of the
\* commands themselves.
Fairness ==
  /\ \A c \in Commands :
       WF_vars(HandlerStep(c)) /\ WF_vars(CancelSignal(c)) /\ WF_vars(TaskStep(c))
  /\ WF_vars(~admission /\ LeaveAcceptLoop)
  /\ WF_vars(ShutdownStep)
  /\ WF_vars(RecoverCommands)

FairSpec == Spec /\ Fairness

--------------------------------------------------------------------------------
(* Properties. *)

\* The in-memory state of the service has its types, and a handle is cancelled
\* only while it is kept.
CommandTypeOK ==
  /\ server \in ServerStages
  /\ starts \in 0..MaxStarts /\ faults \in 0..MaxFaults
  /\ admission \in BOOLEAN /\ stopping \in BOOLEAN
  /\ lifecycle \in Commands \cup {NoCommand}
  /\ handler \in [Commands -> {"idle", "reserved", "accepted"}]
  /\ signalling \in [Commands -> BOOLEAN]
  /\ permits \subseteq Commands /\ awaited \subseteq Commands
  /\ signalled \subseteq controls /\ controls \subseteq Commands
  /\ task \in [Commands -> TaskStages]
  /\ result \in [Commands -> TerminalCommandStates \cup {"none"}]

\* While the server is up a live command has the handler that accepted it or its
\* task to end it, so its session does not stay busy; but for a failed storage call
\* and a full transcript, which the code only prints.
LiveCommandHasOwner ==
  \A c \in Commands : Up /\ IsLiveCommand(c) =>
    \/ handler[c] = "accepted"
    \/ task[c] # "none"
    \/ faults > 0
    \/ highWater[SessionOf[c]] = MaxEntries

\* A permit is held by a handler or by the task it was handed to and by nothing
\* else, and a handle is kept only for a task, so neither leaks over refusals,
\* failures, shutdown and restarts.
CommandPermitsMatchOwners ==
  /\ permits = {c \in Commands : \/ handler[c] # "idle"
                                 \/ task[c] \notin {"none", "orphan"}}
  /\ controls \subseteq {c \in Commands : task[c] # "none"}

\* The shell runs only for a command the ledger records as active, also when the
\* process is ending, so that a crash at any point recovers it as uncertain.
ShellRunsOnlyIfActive ==
  \A c \in Commands : task[c] \in {"execute", "orphan"} => commandState[c] = "active"

\* A cancellation is not lost between the ledger and the shell: a shell that runs
\* for a cancelled command has its handle cancelled or a handler about to do so.
\* After shutdown has cleared the handles there is nothing left to signal.
CommandCancellationReachesShell ==
  \A c \in Commands :
    commandCancel[c] /\ task[c] = "execute" /\ server # "joined" =>
      c \in signalled \/ signalling[c]

\* A cancelled command ends, or its process does, even if its shell never exits;
\* unless a storage call has failed or its transcript is full.
CancelledCommandEnds ==
  \A c \in Commands :
    commandCancel[c] /\ Up ~>
      \/ commandState[c] \in TerminalCommandStates
      \/ ~Up
      \/ faults > 0
      \/ highWater[SessionOf[c]] = MaxEntries
================================================================================

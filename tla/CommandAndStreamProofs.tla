------------------------ MODULE CommandAndStreamProofs -------------------------
(***************************************************************************)
(* Theorems about CommandService, for every number of commands, sessions,  *)
(* permits, entries, starts and storage failures, and about EventStream,   *)
(* for any number of subscribers, events, requests and restarts and any    *)
(* page size.  The two modules share nothing.                              *)
(***************************************************************************)
EXTENDS CommandService, EventStream, SequenceTheorems, WellFoundedInduction, TLAPS

--------------------------------------------------------------------------------
(* CommandService. *)

(* The inductive invariant. *)

\* What the ledger holds of commands has its types.
CommandTables ==
  /\ commandState \in [Commands -> CommandStates]
  /\ commandCancel \in [Commands -> BOOLEAN]
  /\ highWater \in [Sessions -> 0..MaxEntries]

Working(c) == task[c] \notin {"none", "orphan"}

\* A task works only in a process that is up; what outlives main is a shell.
TasksNeedProcess ==
  \A c \in Commands :
    /\ Working(c) => Up
    /\ task[c] = "orphan" => server = "exiting"

\* A command has a handler or a task, one after the other, once it is accepted; a
\* task that settles has a result.
HandlersPrecedeTasks ==
  \A c \in Commands :
    /\ handler[c] # "idle" => task[c] = "none"
    /\ task[c] # "none" \/ handler[c] = "accepted" => commandState[c] # "none"
    /\ task[c] = "settle" => result[c] \in TerminalCommandStates

\* CommandPermitsMatchOwners, a command at a time.
PermitsOfOwners ==
  \A c \in Commands : c \in permits <=> handler[c] # "idle" \/ Working(c)

\* Until shutdown clears them, every task has its handle, and no other has one.
TasksHaveHandles ==
  \A c \in Commands :
    /\ Working(c) /\ server # "joined" => c \in controls
    /\ c \in controls => Working(c)

Unsettleable(c) == faults > 0 \/ highWater[SessionOf[c]] = MaxEntries

\* A task that is done has settled its command, if that was possible.
EndedTasksSettled ==
  \A c \in Commands : task[c] = "exit" /\ IsLiveCommand(c) => Unsettleable(c)

CommandInv ==
  /\ CommandTypeOK
  /\ CommandTables
  /\ TasksNeedProcess
  /\ HandlersPrecedeTasks
  /\ PermitsOfOwners
  /\ TasksHaveHandles
  /\ EndedTasksSettled
  /\ ShellRunsOnlyIfActive
  /\ CommandCancellationReachesShell
  /\ LiveCommandHasOwner

\* Nothing has happened and nobody is at work.
LEMMA InvInit == Init => CommandInv
  <1> SUFFICES ASSUME Init PROVE CommandInv
    OBVIOUS
  <1>1. \A c \in Commands :
          /\ task[c] = "none" /\ handler[c] = "idle"
          /\ commandState[c] = "none" /\ ~commandCancel[c]
    BY DEF Init, LedgerInit, Each
  <1>2. CommandTypeOK
    <2>1. starts \in 0..MaxStarts /\ faults \in 0..MaxFaults
      BY CommandBoundAssumption DEF Init
    <2>2. task \in [Commands -> TaskStages]
      BY DEF Init, Each, TaskStages
    <2>3. /\ handler \in [Commands -> {"idle", "reserved", "accepted"}]
          /\ signalling \in [Commands -> BOOLEAN]
          /\ result \in [Commands -> TerminalCommandStates \cup {"none"}]
      BY DEF Init, Each
    <2> QED
      BY <2>1, <2>2, <2>3 DEF Init, CommandTypeOK, ServerStages
  <1>3. CommandTables
    BY BoundAssumption DEF Init, LedgerInit, CommandTables, CommandStates
  <1>4. TasksNeedProcess /\ HandlersPrecedeTasks /\ EndedTasksSettled /\ ShellRunsOnlyIfActive
    BY <1>1 DEF TasksNeedProcess, HandlersPrecedeTasks, EndedTasksSettled,
                ShellRunsOnlyIfActive, Working
  <1>5. PermitsOfOwners /\ TasksHaveHandles
    BY <1>1 DEF Init, PermitsOfOwners, TasksHaveHandles, Working
  <1>6. CommandCancellationReachesShell /\ LiveCommandHasOwner
    BY <1>1 DEF CommandCancellationReachesShell, LiveCommandHasOwner, IsLiveCommand,
                LiveCommandStates
  <1> QED
    BY <1>2, <1>3, <1>4, <1>5, <1>6 DEF CommandInv

--------------------------------------------------------------------------------
(* The transactions, as far as the invariant sees them. *)

\* A step without a transaction leaves the tables of commands alone.
LEMMA LedgerKept ==
  UNCHANGED ledgerVars => UNCHANGED <<commandState, commandCancel, highWater>>
  BY DEF ledgerVars, commandVars

\* Acceptance.
LEMMA AcceptEffect ==
  ASSUME NEW c \in Commands, AcceptLocalCommand(c)
  PROVE  /\ commandState' = [commandState EXCEPT ![c] = "accepted"]
         /\ UNCHANGED <<commandCancel, highWater>>
  BY DEF AcceptLocalCommand

\* Completion: the command is terminal and its entry is within the limit.
LEMMA CompleteEffect ==
  ASSUME NEW c \in Commands, NEW state, CompleteLocalCommand(c, state), CommandTables
  PROVE  /\ commandState' = [commandState EXCEPT ![c] = state]
         /\ UNCHANGED commandCancel
         /\ highWater' \in [Sessions -> 0..MaxEntries]
         /\ \A d \in Commands :
              highWater[SessionOf[d]] = MaxEntries => highWater'[SessionOf[d]] = MaxEntries
  <1>1. \A d \in Commands : SessionOf[d] \in Sessions
    BY SessionOfAssumption
  <1>2. /\ highWater[SessionOf[c]] + 1 <= MaxEntries
        /\ highWater' = [highWater EXCEPT ![SessionOf[c]] = @ + 1]
    BY DEF CompleteLocalCommand, CanCompleteCommand, AppendEntries
  <1> QED
    BY <1>1, <1>2, BoundAssumption DEF CompleteLocalCommand, CommandTables

--------------------------------------------------------------------------------
(* Every action keeps the invariant. *)

USE DEF CommandInv, CommandTypeOK, CommandTables, TasksNeedProcess, HandlersPrecedeTasks,
  PermitsOfOwners, TasksHaveHandles, EndedTasksSettled, ShellRunsOnlyIfActive,
  CommandCancellationReachesShell, LiveCommandHasOwner, Working, Unsettleable, Up,
  IsLiveCommand, LiveCommandStates, TerminalCommandStates, CommandStates, TaskStages,
  ServerStages, serverVars, handlerVars, controlVars, taskVars

\* The handler that executes a command.
LEMMA ReserveKeepsInv ==
  ASSUME CommandInv, NEW c \in Commands, ExecuteReserve(c)
  PROVE  CommandInv'
  BY LedgerKept DEF ExecuteReserve

LEMMA AcceptKeepsInv ==
  ASSUME CommandInv, NEW c \in Commands, ExecuteAccept(c)
  PROVE  CommandInv'
  <1>1. CASE AcceptLocalCommand(c) /\ handler' = [handler EXCEPT ![c] = "accepted"]
                                  /\ UNCHANGED <<lifecycle, permits>>
    BY <1>1, AcceptEffect DEF ExecuteAccept, AcceptLocalCommand, CanAcceptCommand
  <1>2. CASE Returns(c) /\ UNCHANGED ledgerVars
    BY <1>2, LedgerKept DEF ExecuteAccept, Returns
  <1> QED
    BY <1>1, <1>2 DEF ExecuteAccept

LEMMA StartKeepsInv ==
  ASSUME CommandInv, NEW c \in Commands, ExecuteStart(c)
  PROVE  CommandInv'
  <1>1. CommandTypeOK' /\ CommandTables' /\ TasksNeedProcess' /\ EndedTasksSettled'
    BY LedgerKept DEF ExecuteStart
  <1>2. HandlersPrecedeTasks'
    BY LedgerKept DEF ExecuteStart
  <1>3. PermitsOfOwners' /\ TasksHaveHandles'
    BY LedgerKept DEF ExecuteStart
  <1>4. ShellRunsOnlyIfActive' /\ CommandCancellationReachesShell' /\ LiveCommandHasOwner'
    BY LedgerKept DEF ExecuteStart
  <1> QED
    BY <1>1, <1>2, <1>3, <1>4

LEMMA FaultKeepsInv ==
  ASSUME CommandInv, NEW c \in Commands, ExecuteFault(c)
  PROVE  CommandInv'
  BY LedgerKept, CommandBoundAssumption DEF ExecuteFault, Returns

\* The handler that cancels one.
LEMMA CancelKeepsInv ==
  ASSUME CommandInv, NEW c \in Commands, CancelCommit(c) \/ CancelSignal(c)
  PROVE  CommandInv'
  <1>1. CASE CancelCommit(c)
    BY <1>1 DEF CancelCommit, CancelLocalCommand
  <1>2. CASE CancelSignal(c)
    BY <1>2, LedgerKept DEF CancelSignal
  <1> QED
    BY <1>1, <1>2

\* The task.
LEMMA ActivateKeepsInv ==
  ASSUME CommandInv, NEW c \in Commands, TaskActivate(c)
  PROVE  CommandInv'
  <1>1. CASE ActivateLocalCommand(c) /\ TaskGoes(c, "execute", "none")
    BY <1>1 DEF TaskActivate, ActivateLocalCommand, TaskGoes
  <1>2. CASE TaskGoes(c, "settle", "interrupted") /\ UNCHANGED ledgerVars
    BY <1>2, LedgerKept DEF TaskActivate, TaskGoes
  <1> QED
    BY <1>1, <1>2 DEF TaskActivate

LEMMA ExecuteKeepsInv ==
  ASSUME CommandInv, NEW c \in Commands, TaskExecuted(c) \/ TaskInterrupted(c)
  PROVE  CommandInv'
  <1>1. PICK outcome \in TerminalCommandStates : TaskGoes(c, "settle", outcome)
    BY DEF TaskExecuted, TaskInterrupted
  <1>2. Up /\ task[c] = "execute" /\ UNCHANGED ledgerVars
    BY DEF TaskExecuted, TaskInterrupted
  <1> QED
    BY <1>1, <1>2, LedgerKept DEF TaskGoes

LEMMA SettleKeepsInv ==
  ASSUME CommandInv, NEW c \in Commands, TaskSettle(c)
  PROVE  CommandInv'
  <1>1. CASE CompleteLocalCommand(c, result[c])
    <2>1. CommandTypeOK'
      BY <1>1 DEF TaskSettle, TaskGoes
    <2>2. CommandTables' /\ TasksNeedProcess' /\ HandlersPrecedeTasks' /\ PermitsOfOwners'
      BY <1>1, CompleteEffect DEF TaskSettle, TaskGoes
    <2>3. TasksHaveHandles' /\ ShellRunsOnlyIfActive' /\ CommandCancellationReachesShell'
      BY <1>1, CompleteEffect DEF TaskSettle, TaskGoes
    <2>4. EndedTasksSettled' /\ LiveCommandHasOwner'
      BY <1>1, CompleteEffect DEF TaskSettle, TaskGoes
    <2> QED
      BY <2>1, <2>2, <2>3, <2>4
  <1>2. CASE ~CanCompleteCommand(c) /\ UNCHANGED ledgerVars
    <2>1. IsLiveCommand(c) => highWater[SessionOf[c]] = MaxEntries
      BY <1>2, SessionOfAssumption, BoundAssumption DEF CanCompleteCommand
    <2>2. CommandTypeOK'
      BY <1>2 DEF TaskSettle, TaskGoes
    <2>3. CommandTables' /\ TasksNeedProcess' /\ HandlersPrecedeTasks' /\ PermitsOfOwners'
      BY <1>2, LedgerKept DEF TaskSettle, TaskGoes
    <2>4. TasksHaveHandles' /\ ShellRunsOnlyIfActive' /\ CommandCancellationReachesShell'
      BY <1>2, LedgerKept DEF TaskSettle, TaskGoes
    <2>5. EndedTasksSettled' /\ LiveCommandHasOwner'
      BY <1>2, <2>1, LedgerKept DEF TaskSettle, TaskGoes
    <2> QED
      BY <2>2, <2>3, <2>4, <2>5
  <1> QED
    BY <1>1, <1>2 DEF TaskSettle

LEMMA StorageFaultKeepsInv ==
  ASSUME CommandInv, NEW c \in Commands, StorageFault(c)
  PROVE  CommandInv'
  BY LedgerKept, CommandBoundAssumption DEF StorageFault

LEMMA TaskEndKeepsInv ==
  ASSUME CommandInv, NEW c \in Commands, TaskEnd(c) \/ OrphanEnds(c)
  PROVE  CommandInv'
  <1>1. CASE TaskEnd(c)
    BY <1>1, LedgerKept DEF TaskEnd
  <1>2. CASE OrphanEnds(c)
    <2>1. CommandTypeOK'
      BY <1>2 DEF OrphanEnds
    <2>2. CommandTables' /\ TasksNeedProcess' /\ HandlersPrecedeTasks' /\ PermitsOfOwners'
      BY <1>2, LedgerKept DEF OrphanEnds
    <2>3. TasksHaveHandles' /\ EndedTasksSettled' /\ ShellRunsOnlyIfActive'
      BY <1>2, LedgerKept DEF OrphanEnds
    <2>4. CommandCancellationReachesShell' /\ LiveCommandHasOwner'
      BY <1>2, LedgerKept DEF OrphanEnds
    <2> QED
      BY <2>1, <2>2, <2>3, <2>4
  <1> QED
    BY <1>1, <1>2

\* Shutdown, exit and restart.
LEMMA ShutdownKeepsInv ==
  ASSUME CommandInv,
         StopServer \/ LeaveAcceptLoop \/ StopSupervisor \/ TasksJoined
  PROVE  CommandInv'
  <1>1. CASE StopServer
    <2>1. CommandTypeOK'
      BY <1>1 DEF StopServer
    <2>2. CommandTables' /\ TasksNeedProcess' /\ HandlersPrecedeTasks' /\ PermitsOfOwners'
      BY <1>1, LedgerKept DEF StopServer
    <2>3. TasksHaveHandles' /\ EndedTasksSettled' /\ ShellRunsOnlyIfActive'
      BY <1>1, LedgerKept DEF StopServer
    <2>4. CommandCancellationReachesShell' /\ LiveCommandHasOwner'
      BY <1>1, LedgerKept DEF StopServer
    <2> QED
      BY <2>1, <2>2, <2>3, <2>4
  <1>2. CASE LeaveAcceptLoop
    <2>1. CommandTypeOK'
      BY <1>2 DEF LeaveAcceptLoop, ServerGoes
    <2>2. CommandTables' /\ TasksNeedProcess' /\ HandlersPrecedeTasks' /\ PermitsOfOwners'
      BY <1>2, LedgerKept DEF LeaveAcceptLoop, ServerGoes
    <2>3. TasksHaveHandles' /\ EndedTasksSettled' /\ ShellRunsOnlyIfActive'
      BY <1>2, LedgerKept DEF LeaveAcceptLoop, ServerGoes
    <2>4. CommandCancellationReachesShell' /\ LiveCommandHasOwner'
      BY <1>2, LedgerKept DEF LeaveAcceptLoop, ServerGoes
    <2> QED
      BY <2>1, <2>2, <2>3, <2>4
  <1>3. CASE StopSupervisor
    BY <1>3, LedgerKept DEF StopSupervisor, ServerGoes
  <1>4. CASE TasksJoined
    BY <1>4, LedgerKept DEF TasksJoined, ServerGoes
  <1> QED
    BY <1>1, <1>2, <1>3, <1>4

LEMMA EndKeepsInv ==
  ASSUME CommandInv, ExitServer \/ ProcessEnds \/ Crash
  PROVE  CommandInv'
  <1>1. CASE ExitServer
    <2>1. CommandTypeOK'
      BY <1>1 DEF ExitServer, ServerGoes, ForgetRequests, Each
    <2>2. CommandTables' /\ TasksNeedProcess' /\ HandlersPrecedeTasks' /\ PermitsOfOwners'
      BY <1>1, LedgerKept DEF ExitServer, ServerGoes, ForgetRequests, Each
    <2>3. TasksHaveHandles' /\ EndedTasksSettled' /\ ShellRunsOnlyIfActive'
      BY <1>1, LedgerKept DEF ExitServer, ServerGoes, ForgetRequests, Each
    <2>4. CommandCancellationReachesShell' /\ LiveCommandHasOwner'
      BY <1>1, LedgerKept DEF ExitServer, ServerGoes, ForgetRequests, Each
    <2> QED
      BY <2>1, <2>2, <2>3, <2>4
  <1>2. CASE ProcessEnds
    BY <1>2, LedgerKept DEF ProcessEnds, ServerGoes
  <1>3. CASE Crash
    <2>1. CommandTypeOK'
      BY <1>3 DEF Crash, ServerGoes, ForgetRequests, Each
    <2>2. CommandTables' /\ TasksNeedProcess' /\ HandlersPrecedeTasks' /\ PermitsOfOwners'
      BY <1>3, LedgerKept DEF Crash, ServerGoes, ForgetRequests, Each
    <2>3. TasksHaveHandles' /\ EndedTasksSettled' /\ ShellRunsOnlyIfActive'
      BY <1>3, LedgerKept DEF Crash, ServerGoes, ForgetRequests, Each
    <2>4. CommandCancellationReachesShell' /\ LiveCommandHasOwner'
      BY <1>3, LedgerKept DEF Crash, ServerGoes, ForgetRequests, Each
    <2> QED
      BY <2>1, <2>2, <2>3, <2>4
  <1> QED
    BY <1>1, <1>2, <1>3

LEMMA RestartKeepsInv ==
  ASSUME CommandInv, Start \/ RecoverCommands
  PROVE  CommandInv'
  <1>1. CASE Start
    BY <1>1, LedgerKept, CommandBoundAssumption DEF Start
  <1>2. ASSUME NEW c \in Commands, NEW state \in TerminalCommandStates,
               CompleteLocalCommand(c, state), RecoveryStage("recovering")
        PROVE  CommandInv'
    BY <1>2, CompleteEffect, SessionOfAssumption DEF RecoveryStage, ServerGoes
  <1>3. CASE UNCHANGED ledgerVars /\ RecoveryStage("refused")
    BY <1>3, LedgerKept DEF RecoveryStage, ServerGoes
  <1>4. CASE /\ \A c \in Commands : ~IsLiveCommand(c)
             /\ UNCHANGED ledgerVars /\ RecoveryStage("serving")
    BY <1>4, LedgerKept DEF RecoveryStage, ServerGoes
  <1> QED
    BY <1>1, <1>2, <1>3, <1>4 DEF RecoverCommands

HIDE DEF CommandInv, CommandTypeOK, CommandTables, TasksNeedProcess, HandlersPrecedeTasks,
  PermitsOfOwners, TasksHaveHandles, EndedTasksSettled, ShellRunsOnlyIfActive,
  CommandCancellationReachesShell, LiveCommandHasOwner, Working, Unsettleable, Up,
  IsLiveCommand, LiveCommandStates, TerminalCommandStates, CommandStates, TaskStages,
  ServerStages, serverVars, handlerVars, controlVars, taskVars

LEMMA InvNext == CommandInv /\ [Next]_vars => CommandInv'
  <1> SUFFICES ASSUME CommandInv, [Next]_vars PROVE CommandInv'
    OBVIOUS
  <1>1. ASSUME NEW c \in Commands,
               \/ ExecuteReserve(c) \/ HandlerStep(c) \/ ExecuteFault(c)
               \/ CancelCommit(c) \/ CancelSignal(c)
        PROVE  CommandInv'
    BY <1>1, ReserveKeepsInv, AcceptKeepsInv, StartKeepsInv, FaultKeepsInv, CancelKeepsInv
       DEF HandlerStep
  <1>2. ASSUME NEW c \in Commands,
               TaskStep(c) \/ TaskExecuted(c) \/ StorageFault(c) \/ OrphanEnds(c)
        PROVE  CommandInv'
    BY <1>2, ActivateKeepsInv, ExecuteKeepsInv, SettleKeepsInv, StorageFaultKeepsInv,
       TaskEndKeepsInv
       DEF TaskStep
  <1>3. CASE \/ StopServer \/ LeaveAcceptLoop \/ ShutdownStep \/ Start
             \/ RecoverCommands \/ Crash
    BY <1>3, ShutdownKeepsInv, EndKeepsInv, RestartKeepsInv DEF ShutdownStep
  <1>4. CASE UNCHANGED vars
    BY <1>4, LedgerKept
       DEF vars, CommandInv, CommandTypeOK, CommandTables, TasksNeedProcess, HandlersPrecedeTasks,
  PermitsOfOwners, TasksHaveHandles, EndedTasksSettled, ShellRunsOnlyIfActive,
  CommandCancellationReachesShell, LiveCommandHasOwner, Working, Unsettleable, Up,
  IsLiveCommand, LiveCommandStates, TerminalCommandStates, CommandStates, TaskStages,
  ServerStages, serverVars, handlerVars, controlVars, taskVars
  <1> QED
    BY <1>1, <1>2, <1>3, <1>4 DEF Next

--------------------------------------------------------------------------------
(* The theorems. *)

\* The invariant holds throughout, over crashes, shutdowns, restarts and failed
\* storage calls.
THEOREM CommandInvAlways == Spec => []CommandInv
  BY InvInit, InvNext, PTL DEF Spec

\* The supervisor's state has its types, and only a kept handle is cancelled.
THEOREM CommandTypeAlways == Spec => []CommandTypeOK
  <1>1. CommandInv => CommandTypeOK
    BY DEF CommandInv
  <1> QED
    BY <1>1, CommandInvAlways, PTL

\* A command that is live while the server is up has a handler or a task to end it
\* (application.rs, command_supervisor.rs), but for the failures that are only printed.
THEOREM LiveCommandAlwaysHasOwner == Spec => []LiveCommandHasOwner
  <1>1. CommandInv => LiveCommandHasOwner
    BY DEF CommandInv
  <1> QED
    BY <1>1, CommandInvAlways, PTL

\* The permits that bound the concurrent commands are held by handlers and tasks and
\* by nothing else.
THEOREM CommandPermitsNeverLeak == Spec => []CommandPermitsMatchOwners
  <1>1. CommandInv => CommandPermitsMatchOwners
    BY DEF CommandInv, CommandTypeOK, PermitsOfOwners, TasksHaveHandles, Working,
           CommandPermitsMatchOwners
  <1> QED
    BY <1>1, CommandInvAlways, PTL

\* A shell runs only for a command that is durably active, also after main returned.
THEOREM ShellAlwaysRunsActive == Spec => []ShellRunsOnlyIfActive
  <1>1. CommandInv => ShellRunsOnlyIfActive
    BY DEF CommandInv
  <1> QED
    BY <1>1, CommandInvAlways, PTL

\* The shell of a cancelled command has its handle cancelled, or a handler about to.
THEOREM CommandCancellationNeverLost == Spec => []CommandCancellationReachesShell
  <1>1. CommandInv => CommandCancellationReachesShell
    BY DEF CommandInv
  <1> QED
    BY <1>1, CommandInvAlways, PTL

--------------------------------------------------------------------------------
(* EventStream.  No stream sleeps through an event; and no client misses   *)
(* an event whose sequence was not reserved before it was there.           *)

\* A set of bounded numbers has a highest one.
LEMMA HighestExists ==
  ASSUME NEW N \in Nat, NEW S \in SUBSET (1..N), S # {}
  PROVE  \E n \in S : \A m \in S : m <= n
<1> DEFINE T == {k \in Nat : N - k \in S}
<1>1. T \subseteq Nat
  OBVIOUS
<1>2. PICK s \in S : s \in 1..N
  OBVIOUS
<1>3. N - s \in Nat /\ N - (N - s) = s
  BY <1>2
<1>4. T # {}
  BY <1>2, <1>3
<1> HIDE DEF T
<1>5. PICK x \in T : \A y \in T : <<y, x>> \notin OpToRel(<, Nat)
  BY <1>1, <1>4, NatLessThanWellFounded, WFMin
<1>6. \A y \in T : ~(y < x)
  BY <1>1, <1>5 DEF OpToRel
<1>7. N - x \in S /\ x \in Nat
  BY DEF T
<1>8. ASSUME NEW m \in S PROVE m <= N - x
  <2>1. m \in 1..N /\ N - m \in Nat /\ N - (N - m) = m
    OBVIOUS
  <2>2. N - m \in T
    BY <2>1 DEF T
  <2> QED
    BY <1>6, <1>7, <2>1, <2>2
<1> QED
  BY <1>7, <1>8

LEMMA HighestBounds ==
  ASSUME NEW N \in Nat, NEW S \in SUBSET (1..N)
  PROVE  /\ Highest(S) \in 0..N
         /\ \A m \in S : m <= Highest(S)
<1>1. CASE S = {}
  BY <1>1 DEF Highest
<1>2. CASE S # {}
  <2>1. \E n \in S : \A m \in S : m <= n
    BY <1>2, HighestExists
  <2> DEFINE top == CHOOSE n \in S : \A m \in S : m <= n
  <2>2. top \in S /\ \A m \in S : m <= top
    BY <2>1
  <2>3. Highest(S) = top
    BY <1>2 DEF Highest
  <2> HIDE DEF top
  <2>4. top \in 0..N
    BY <2>2
  <2> QED
    BY <2>2, <2>3, <2>4
<1> QED
  BY <1>1, <1>2

--------------------------------------------------------------------------------
(* The inductive invariant. *)

\* A stream that writes has something to write.
WritersHavePages ==
  \A s \in Subscribers : stage[s] = "write" => page[s] # <<>>

\* No stream outlives its process, and none has seen a version that is yet to come.
StreamsFollowChannel ==
  \A s \in Subscribers :
    stage[s] # "off" => worker # "recovery" /\ seen[s] <= version

\* What the worker owes will change the version: a forced notification always does,
\* another one if the last event is beyond the number in the channel.
WillNotify ==
  \/ worker = "force"
  \/ worker = "notify" /\ sequence \in scoped \cup others /\ value < sequence

\* A stream that sleeps, or is about to, has read everything or will be woken.
RestersAreWoken ==
  \A s \in Subscribers :
    stage[s] \in {"check", "asleep"} /\ Unread(s) # {} => version # seen[s] \/ WillNotify

StreamInv ==
  StreamTypeOK /\ WritersHavePages /\ StreamsFollowChannel /\ RestersAreWoken

USE StreamBoundAssumption

LEMMA StreamInvInit == StreamInit => StreamInv
<1> SUFFICES ASSUME StreamInit PROVE StreamInv
  OBVIOUS
<1>1. StreamTypeOK
  BY DEF StreamInit, StreamTypeOK, Stages
<1> QED
  BY <1>1 DEF StreamInit, StreamInv, WritersHavePages, StreamsFollowChannel, RestersAreWoken

\* A commit of the worker reaches every stream that rests.
LEMMA CommitKeepsInv ==
  ASSUME StreamInv, Commit \/ Reserve PROVE StreamInv'
<1> USE DEF StreamInv
<1>1. sequence' = sequence + 1 /\ sequence' \in 0..MaxSequence /\ sequence \in Nat
  BY DEF Commit, Reserve, StreamTypeOK
<1>2. StreamTypeOK'
  <2> DEFINE new == sequence + 1
  <2>a. /\ new \in 1..sequence' /\ 1..sequence \subseteq 1..sequence' /\ new \notin 1..sequence
    BY <1>1
  <2>b. /\ scoped' \in {scoped, scoped \cup {new}} /\ others' \in {others, others \cup {new}}
        /\ reserved' \in {reserved, reserved \cup {new}}
        /\ \/ others' = others /\ reserved' = reserved
           \/ scoped' = scoped /\ reserved' = reserved
           \/ scoped' = scoped /\ others' = others
        /\ \/ late' = late /\ reserved' = reserved
           \/ late' = late \cup {new} /\ reserved' = reserved \cup {new}
    BY DEF Commit, Reserve
  <2>c. /\ scoped \subseteq 1..sequence /\ others \subseteq 1..sequence
        /\ reserved \subseteq late /\ late \subseteq 1..sequence
        /\ scoped \cap others = {} /\ (scoped \cup others) \cap reserved = {}
    BY DEF StreamTypeOK
  <2> HIDE DEF new
  <2>1. /\ scoped' \subseteq 1..sequence' /\ others' \subseteq 1..sequence'
        /\ reserved' \subseteq late' /\ late' \subseteq 1..sequence'
    BY <2>a, <2>b, <2>c
  <2>2. scoped' \cap others' = {} /\ (scoped' \cup others') \cap reserved' = {}
    BY <2>a, <2>b, <2>c
  <2>3. requests' \in 0..MaxReserved /\ worker' = "notify" /\ value' \in 0..sequence'
    BY <1>1 DEF Commit, Reserve, StreamTypeOK
  <2>4. /\ cursor' \in [Subscribers -> 0..sequence'] /\ observed' \in [Subscribers -> 0..sequence']
        /\ known' \in [Subscribers -> SUBSET (1..sequence')]
    BY <1>1 DEF Commit, Reserve, StreamTypeOK, streamVars
  <2>5. page' \in [Subscribers -> Seq(1..sequence')]
    <3>1. page' = page /\ 1..sequence \subseteq 1..sequence'
      BY <1>1 DEF Commit, Reserve, streamVars
    <3>2. ASSUME NEW s \in Subscribers PROVE page[s] \in Seq(1..sequence')
      <4>1. page[s] \in Seq(1..sequence)
        BY DEF StreamTypeOK
      <4> QED
        BY <3>1, <4>1, SeqMonotonic
    <3> QED
      BY <3>1, <3>2 DEF StreamTypeOK
  <2> QED
    BY <1>1, <2>1, <2>2, <2>3, <2>4, <2>5 DEF Commit, Reserve, StreamTypeOK, streamVars
<1>3. WritersHavePages' /\ StreamsFollowChannel'
  BY DEF Commit, Reserve, WritersHavePages, StreamsFollowChannel, streamVars
<1>4. ASSUME NEW s \in Subscribers, stage'[s] \in {"check", "asleep"}, Unread(s)' # {}
      PROVE  version' # seen'[s] \/ WillNotify'
  <2>1. stage' = stage /\ cursor' = cursor /\ seen' = seen /\ version' = version /\ value' = value
    BY DEF Commit, Reserve, streamVars
  <2>2. CASE Unread(s) # {}
    BY <2>1, <2>2, <1>4 DEF RestersAreWoken, WillNotify, Commit, Reserve
  <2>3. CASE Unread(s) = {}
    <3>1. scoped' = scoped \cup {sequence + 1}
      BY <2>1, <2>3, <1>4 DEF Commit, Reserve, Unread
    <3>2. worker' = "notify"
      BY DEF Commit, Reserve
    <3> QED
      BY <1>1, <2>1, <3>1, <3>2 DEF WillNotify, StreamTypeOK
  <2> QED
    BY <2>2, <2>3
<1> QED
  BY <1>2, <1>3, <1>4 DEF RestersAreWoken

LEMMA CompleteKeepsInv ==
  ASSUME StreamInv, NEW n \in reserved, CompleteArchive(n) \/ CompleteDelete(n)
  PROVE  StreamInv'
<1> USE DEF StreamInv
<1>1. PICK gone : Applied(n, gone) /\ reserved' = reserved \ {n}
  BY DEF CompleteArchive, CompleteDelete
<1>2. StreamTypeOK'
  BY <1>1 DEF Applied, StreamTypeOK, streamVars
<1>3. WritersHavePages'
  BY <1>1 DEF Applied, WritersHavePages, streamVars
<1>4. StreamsFollowChannel'
  BY <1>1 DEF Applied, StreamsFollowChannel, streamVars
<1>5. RestersAreWoken'
  BY <1>1 DEF Applied, RestersAreWoken, StreamsFollowChannel, WillNotify, streamVars
<1> QED
  BY <1>2, <1>3, <1>4, <1>5

LEMMA HighWaterBounds ==
  ASSUME StreamTypeOK
  PROVE  HighWater \in 0..sequence /\ \A m \in scoped \cup others : m <= HighWater
<1>1. sequence \in Nat /\ scoped \cup others \in SUBSET (1..sequence)
  BY DEF StreamTypeOK
<1> QED
  BY <1>1, HighestBounds DEF HighWater

LEMMA NotifyKeepsInv ==
  ASSUME StreamInv, Notify PROVE StreamInv'
<1> USE DEF StreamInv
<1>1. HighWater \in 0..sequence /\ \A m \in scoped \cup others : m <= HighWater
  BY HighWaterBounds
<1>2. /\ UNCHANGED <<storeVars, streamVars>> /\ worker' = "idle"
      /\ value' \in 0..sequence /\ version' \in Nat /\ version' >= version
  BY <1>1 DEF Notify, StreamTypeOK
<1>3. StreamTypeOK'
  BY <1>2 DEF Notify, StreamTypeOK, storeVars, streamVars
<1>4. WritersHavePages' /\ StreamsFollowChannel'
  BY <1>2 DEF StreamTypeOK, WritersHavePages, StreamsFollowChannel, streamVars
<1>5. WillNotify => version' = version + 1
  BY <1>1 DEF WillNotify, Notify, StreamTypeOK
<1>6. ASSUME NEW s \in Subscribers, stage'[s] \in {"check", "asleep"}, Unread(s)' # {}
      PROVE  version' # seen'[s]
  <2>1. version # seen[s] \/ WillNotify
    BY <1>2, <1>6 DEF RestersAreWoken, Unread, storeVars, streamVars
  <2>2. seen[s] \in Nat /\ version \in Nat /\ seen[s] <= version
    BY <1>2, <1>6 DEF StreamsFollowChannel, StreamTypeOK, streamVars
  <2>3. seen'[s] = seen[s]
    BY <1>2 DEF streamVars
  <2> QED
    BY <1>2, <1>5, <2>1, <2>2, <2>3
<1> QED
  BY <1>3, <1>4, <1>6 DEF RestersAreWoken

LEMMA ProcessKeepsInv ==
  ASSUME StreamInv, Restart \/ Serve PROVE StreamInv'
<1> USE DEF StreamInv
<1>1. CASE Restart
  <2>1. StreamTypeOK'
    BY <1>1 DEF Restart, StreamTypeOK, storeVars, Stages
  <2> QED
    BY <1>1, <2>1 DEF Restart, WritersHavePages, StreamsFollowChannel, RestersAreWoken
<1>2. CASE Serve
  <2>1. StreamTypeOK'
    BY <1>2, HighWaterBounds DEF Serve, StreamTypeOK, storeVars, streamVars
  <2>2. \A s \in Subscribers : stage'[s] = "off"
    BY <1>2 DEF Serve, StreamsFollowChannel, streamVars
  <2> QED
    BY <2>1, <2>2 DEF WritersHavePages, StreamsFollowChannel, RestersAreWoken
<1> QED
  BY <1>1, <1>2

LEMMA ClientKeepsInv ==
  ASSUME StreamInv, NEW s \in Subscribers, Snapshot(s) \/ Subscribe(s) \/ Disconnect(s)
  PROVE  StreamInv'
<1> USE DEF StreamInv
<1>1. CASE Snapshot(s)
  <2>1. sequence \in Nat /\ scoped \in SUBSET (1..sequence)
    BY DEF StreamTypeOK
  <2>2. Highest(scoped) \in 0..sequence
    BY <2>1, HighestBounds
  <2>3. StreamTypeOK'
    BY <1>1, <2>2 DEF Snapshot, StreamTypeOK, storeVars, channelVars
  <2>4. stage' = stage /\ \A t \in Subscribers : stage[t] # "off" => cursor'[t] = cursor[t]
    BY <1>1 DEF Snapshot, StreamTypeOK
  <2> QED
    BY <1>1, <2>3, <2>4
    DEF Snapshot, WritersHavePages, StreamsFollowChannel, RestersAreWoken, Unread,
        WillNotify, storeVars, channelVars
<1>2. CASE Subscribe(s)
  <2>1. StreamTypeOK'
    BY <1>2 DEF Subscribe, StreamGoes, StreamTypeOK, storeVars, channelVars, Stages
  <2>2. stage'[s] = "turn" /\ seen'[s] = version /\ worker = "idle"
    BY <1>2 DEF Subscribe, StreamGoes, StreamTypeOK
  <2>3. \A t \in Subscribers : t # s => stage'[t] = stage[t] /\ seen'[t] = seen[t]
    BY <1>2 DEF Subscribe, StreamGoes, StreamTypeOK
  <2>4. UNCHANGED <<scoped, others, sequence, worker, value, version, cursor, page>>
    BY <1>2 DEF Subscribe, storeVars, channelVars
  <2>a. version \in Nat /\ version <= version
    BY DEF StreamTypeOK
  <2>b. WritersHavePages'
    BY <2>2, <2>3, <2>4 DEF WritersHavePages
  <2>5. StreamsFollowChannel'
    BY <2>2, <2>3, <2>4, <2>a DEF StreamsFollowChannel
  <2>6. RestersAreWoken'
    BY <2>2, <2>3, <2>4 DEF RestersAreWoken, Unread, WillNotify
  <2> QED
    BY <2>1, <2>b, <2>5, <2>6
<1>3. CASE Disconnect(s)
  <2>1. StreamTypeOK'
    BY <1>3 DEF Disconnect, StreamGoes, StreamTypeOK, storeVars, channelVars, Stages
  <2> QED
    BY <1>3, <2>1
    DEF Disconnect, StreamGoes, StreamTypeOK, WritersHavePages, StreamsFollowChannel,
        RestersAreWoken, Unread, WillNotify, storeVars, channelVars
<1> QED
  BY <1>1, <1>2, <1>3

LEMMA ReadKeepsInv ==
  ASSUME StreamInv, NEW s \in Subscribers, Read(s) PROVE StreamInv'
<1> USE DEF StreamInv
<1>0. PICK n \in 0..PageLimit : \E events \in [1..n -> Unread(s)] :
        IsPage(events, s) /\ page' = [page EXCEPT ![s] = events]
  BY DEF Read
<1>1. PICK events \in [1..n -> Unread(s)] :
        IsPage(events, s) /\ page' = [page EXCEPT ![s] = events]
  BY <1>0
<1>2. Unread(s) \subseteq 1..sequence
  BY DEF Unread, StreamTypeOK
<1>3. events \in Seq(1..sequence) /\ Len(events) = n
  <2>1. n \in Nat /\ events \in [1..n -> 1..sequence]
    BY <1>2
  <2>2. events \in Seq(1..sequence)
    <3>1. [i \in 1..n |-> events[i]] \in Seq(1..sequence)
      BY <2>1
    <3> QED
      BY <2>1, <3>1
  <2> QED
    BY <2>1, <2>2, LenProperties
<1>4. Unread(s) # {} => events # <<>>
  BY <1>1, <1>3 DEF IsPage
<1>5. StreamTypeOK'
  BY <1>1, <1>3 DEF Read, StreamGoes, StreamTypeOK, storeVars, channelVars, Stages
<1>6. WritersHavePages'
  BY <1>1, <1>4 DEF Read, StreamGoes, StreamTypeOK, WritersHavePages
<1> QED
  BY <1>5, <1>6
  DEF Read, StreamGoes, StreamTypeOK, StreamsFollowChannel, RestersAreWoken, Unread,
      WillNotify, storeVars, channelVars

LEMMA WriteKeepsInv ==
  ASSUME StreamInv, NEW s \in Subscribers, Write(s) PROVE StreamInv'
<1> USE DEF StreamInv
<1>1. page[s] \in Seq(1..sequence) /\ page[s] # <<>>
  BY DEF StreamTypeOK, WritersHavePages, Write
<1>2. Head(page[s]) \in 1..sequence /\ Tail(page[s]) \in Seq(1..sequence)
  BY <1>1, HeadTailProperties
<1>3. Len(page[s]) # 1 => Tail(page[s]) # <<>>
  <2>1. Len(Tail(page[s])) = Len(page[s]) - 1
    BY <1>1, HeadTailProperties
  <2>2. Len(page[s]) \in Nat
    BY <1>1
  <2>3. Tail(page[s]) = <<>> => Len(Tail(page[s])) = 0
    <3>1. Len(<<>>) = 0
      OBVIOUS
    <3> QED
      BY <3>1, Zenon
  <2> QED
    BY <2>1, <2>2, <2>3
<1>4. StreamTypeOK'
  <2>1. /\ cursor' \in [Subscribers -> 0..sequence]
        /\ page' \in [Subscribers -> Seq(1..sequence)]
    BY <1>2 DEF Write, StreamTypeOK
  <2>2. known' \in [Subscribers -> SUBSET (1..sequence)]
    BY <1>2 DEF Write, StreamTypeOK
  <2>3. stage' \in [Subscribers -> Stages]
    BY DEF Write, StreamGoes, StreamTypeOK, Stages
  <2> QED
    BY <2>1, <2>2, <2>3 DEF Write, StreamTypeOK, storeVars, channelVars
<1>5. WritersHavePages'
  BY <1>3 DEF Write, StreamGoes, StreamTypeOK, WritersHavePages
<1> QED
  BY <1>4, <1>5
  DEF Write, StreamGoes, StreamTypeOK, StreamsFollowChannel, RestersAreWoken, Unread,
      WillNotify, storeVars, channelVars

LEMMA TurnKeepsInv ==
  ASSUME StreamInv, NEW s \in Subscribers,
         Observe(s) \/ ReadRefused(s) \/ Check(s) \/ Wake(s)
  PROVE  StreamInv'
<1> USE DEF StreamInv
<1>1. /\ UNCHANGED <<storeVars, channelVars, cursor, known, page, restarts>>
      /\ \E next \in Stages \ {"write"} : stage' = [stage EXCEPT ![s] = next]
      /\ stage[s] # "off"
  BY DEF Observe, ReadRefused, Check, Wake, StreamGoes, Stages
<1>2. StreamTypeOK'
  <2>1. stage' \in [Subscribers -> Stages]
    BY <1>1 DEF StreamTypeOK
  <2>2. \/ observed' = observed /\ seen' = seen
        \/ /\ observed' = [observed EXCEPT ![s] = value]
           /\ seen' = [seen EXCEPT ![s] = version]
    BY DEF Observe, ReadRefused, Check, Wake
  <2>3. observed' \in [Subscribers -> 0..sequence] /\ seen' \in [Subscribers -> Nat]
    BY <2>2 DEF StreamTypeOK
  <2> QED
    BY <1>1, <2>1, <2>3 DEF StreamTypeOK, storeVars, channelVars
<1>3. WritersHavePages'
  BY <1>1 DEF StreamTypeOK, WritersHavePages
<1>4. StreamsFollowChannel'
  BY <1>1 DEF Observe, ReadRefused, Check, Wake, StreamTypeOK, StreamsFollowChannel, channelVars
<1>5. RestersAreWoken'
  BY <1>1 DEF Observe, ReadRefused, Check, Wake, StreamGoes, StreamTypeOK, RestersAreWoken,
              Unread, WillNotify, storeVars, channelVars
<1> QED
  BY <1>2, <1>3, <1>4, <1>5

LEMMA StreamInvStep == StreamInv /\ [StreamNext]_eventVars => StreamInv'
<1> SUFFICES ASSUME StreamInv, [StreamNext]_eventVars PROVE StreamInv'
  OBVIOUS
<1>1. CASE UNCHANGED eventVars
  BY <1>1
  DEF eventVars, storeVars, channelVars, streamVars, StreamInv, StreamTypeOK, WritersHavePages,
      StreamsFollowChannel, RestersAreWoken, Unread, WillNotify
<1>2. CASE StreamNext
  BY <1>2, CommitKeepsInv, CompleteKeepsInv, NotifyKeepsInv, ProcessKeepsInv,
     ClientKeepsInv, ReadKeepsInv, WriteKeepsInv, TurnKeepsInv
  DEF StreamNext, StreamStep
<1> QED
  BY <1>1, <1>2

\* The inductive invariant of the streams, which the others follow from.
THEOREM StreamInvAlways == StreamSpec => []StreamInv
  BY StreamInvInit, StreamInvStep, PTL DEF StreamSpec

\* The state keeps its types, and no two events or requests share a sequence.
THEOREM StreamTypeAlways == StreamSpec => []StreamTypeOK
<1>1. StreamInv => StreamTypeOK
  BY DEF StreamInv
<1> QED
  BY <1>1, StreamInvAlways, PTL

\* No wakeup is lost: a stream that sleeps before an event it has not read is woken by
\* the channel, over commits, completions below the high water, deletions and restarts.
THEOREM NoLostWakeup == StreamSpec => []SleepersAreWoken
<1>1. StreamInv => SleepersAreWoken
  BY DEF StreamInv, RestersAreWoken, WillNotify, SleepersAreWoken
<1> QED
  BY <1>1, StreamInvAlways, PTL

--------------------------------------------------------------------------------
(* What a client has missed. *)

\* A page goes up from the cursor, and no event of the set lies between the two or
\* inside it.
NoGaps(events, last, q) ==
  /\ \A i \in 1..Len(q) : last < q[i]
  /\ \A i, j \in 1..Len(q) : i < j => q[i] < q[j]
  /\ \A n \in events : \/ n <= last
                       \/ \E i \in 1..Len(q) : q[i] = n
                       \/ \A i \in 1..Len(q) : q[i] < n

PagesHaveNoGaps ==
  \A s \in Subscribers :
    stage[s] = "write" => NoGaps(scoped \ late, cursor[s], page[s])

OrderInv == StreamInv /\ CommittedAreKnown /\ PagesHaveNoGaps

LEMMA OrderInvInit == StreamInit => OrderInv
  BY StreamInvInit DEF StreamInit, OrderInv, CommittedAreKnown, PagesHaveNoGaps

LEMMA CommitKeepsOrder ==
  ASSUME OrderInv, Commit PROVE CommittedAreKnown' /\ PagesHaveNoGaps'
<1> USE DEF OrderInv, StreamInv
<1>1. UNCHANGED streamVars /\ sequence \in Nat
      /\ scoped' \ late' \subseteq (scoped \ late) \cup {sequence + 1}
  BY DEF Commit, StreamTypeOK
<1>2. CommittedAreKnown'
  <2>1. \A s \in Subscribers : cursor[s] \in 0..sequence
    BY DEF StreamTypeOK
  <2>2. \A s \in Subscribers : ~(sequence + 1 <= cursor[s])
    BY <1>1, <2>1
  <2>3. cursor' = cursor /\ known' = known
    BY <1>1 DEF streamVars
  <2> QED
    BY <1>1, <2>2, <2>3 DEF CommittedAreKnown
<1>3. \A s \in Subscribers : \A i \in 1..Len(page[s]) : page[s][i] < sequence + 1
  <2> TAKE s \in Subscribers
  <2>1. page[s] \in Seq(1..sequence)
    BY DEF StreamTypeOK
  <2>2. \A i \in 1..Len(page[s]) : page[s][i] \in 1..sequence
    BY <2>1, ElementOfSeq
  <2> QED
    BY <1>1, <2>2
<1>4. PagesHaveNoGaps'
  BY <1>1, <1>3 DEF PagesHaveNoGaps, NoGaps, streamVars
<1> QED
  BY <1>2, <1>4

LEMMA ReadKeepsOrder ==
  ASSUME OrderInv, NEW s \in Subscribers, Read(s)
  PROVE  CommittedAreKnown' /\ PagesHaveNoGaps'
<1> USE DEF OrderInv, StreamInv
<1>1. CommittedAreKnown'
  BY DEF Read, CommittedAreKnown, storeVars
<1>2. PICK events : IsPage(events, s) /\ page' = [page EXCEPT ![s] = events]
  BY DEF Read
<1>3. page'[s] = events /\ cursor' = cursor /\ scoped' = scoped /\ late' = late
  BY <1>2 DEF Read, StreamTypeOK, storeVars
<1>4. \A n \in scoped \ late : n <= cursor[s] \/ n \in Unread(s)
  BY DEF Unread, StreamTypeOK
<1>5. ASSUME NEW t \in Subscribers, t # s
      PROVE  page'[t] = page[t] /\ stage'[t] = stage[t]
  BY <1>2, <1>5 DEF Read, StreamGoes, StreamTypeOK
<1>6. NoGaps(scoped \ late, cursor[s], events)
  BY <1>2, <1>4 DEF NoGaps, IsPage, Unread
<1> QED
  BY <1>1, <1>3, <1>5, <1>6 DEF PagesHaveNoGaps

LEMMA WriteKeepsOrder ==
  ASSUME OrderInv, NEW s \in Subscribers, Write(s)
  PROVE  CommittedAreKnown' /\ PagesHaveNoGaps'
<1> USE DEF OrderInv, StreamInv
<1> DEFINE q == page[s]
<1>1. q \in Seq(1..sequence) /\ q # <<>> /\ stage[s] = "write"
  BY DEF StreamTypeOK, WritersHavePages, Write
<1>2. /\ Len(q) \in Nat \ {0} /\ Len(Tail(q)) = Len(q) - 1
      /\ \A i \in 1..Len(Tail(q)) : Tail(q)[i] = q[i + 1]
      /\ Head(q) = q[1]
  <2>1. /\ Len(Tail(q)) = Len(q) - 1
        /\ \A i \in 1..Len(Tail(q)) : Tail(q)[i] = q[i + 1]
    BY <1>1, HeadTailProperties
  <2>2. Len(q) \in Nat \ {0} /\ Head(q) = q[1]
    BY <1>1
  <2> QED
    BY <2>1, <2>2
<1>3. \A i \in 1..Len(q) : q[i] \in 1..sequence
  BY <1>1, ElementOfSeq
<1>4. /\ NoGaps(scoped \ late, cursor[s], q)
      /\ \A i \in 1..Len(q) : cursor[s] < q[i]
      /\ \A i, j \in 1..Len(q) : i < j => q[i] < q[j]
      /\ \A n \in scoped \ late : \/ n <= cursor[s]
                                  \/ \E i \in 1..Len(q) : q[i] = n
                                  \/ \A i \in 1..Len(q) : q[i] < n
  BY <1>1 DEF PagesHaveNoGaps, NoGaps
<1>5. /\ cursor' = [cursor EXCEPT ![s] = q[1]] /\ page' = [page EXCEPT ![s] = Tail(q)]
      /\ known' = [known EXCEPT ![s] = @ \cup {q[1]}] /\ scoped' = scoped /\ late' = late
  BY <1>2 DEF Write, storeVars
<1>6. scoped \subseteq Nat /\ cursor[s] \in Nat /\ sequence \in Nat
  BY DEF StreamTypeOK
<1> HIDE DEF q
<1>7. ASSUME NEW n \in scoped \ late, n <= q[1] PROVE n <= cursor[s] \/ n = q[1]
  <2>1. 1 \in 1..Len(q)
    BY <1>2
  <2>2. ASSUME NEW i \in 1..Len(q), q[i] = n, i # 1 PROVE FALSE
    BY <1>3, <1>4, <1>7, <2>1, <2>2
  <2> QED
    BY <1>3, <1>4, <1>6, <1>7, <2>1, <2>2
<1>8. CommittedAreKnown'
  BY <1>5, <1>7 DEF CommittedAreKnown, StreamTypeOK
<1>9. ASSUME NEW t \in Subscribers, stage'[t] = "write", t # s
      PROVE  page'[t] = page[t] /\ cursor'[t] = cursor[t] /\ stage[t] = "write"
  BY <1>5, <1>9 DEF Write, StreamGoes, StreamTypeOK
<1>10. NoGaps(scoped \ late, q[1], Tail(q))
  <2>1. \A i \in 1..Len(Tail(q)) : i + 1 \in 1..Len(q)
    BY <1>2
  <2>2. \A i, j \in 1..Len(Tail(q)) : i < j => Tail(q)[i] < Tail(q)[j]
    BY <1>2, <1>4, <2>1
  <2>3. ASSUME NEW n \in scoped \ late, ~(n <= q[1])
        PROVE  \/ \E i \in 1..Len(Tail(q)) : Tail(q)[i] = n
               \/ \A i \in 1..Len(Tail(q)) : Tail(q)[i] < n
    <3>1. 1 \in 1..Len(q) /\ ~(n <= cursor[s])
      BY <1>2, <1>3, <1>4, <1>6, <2>3
    <3>2. CASE \A i \in 1..Len(q) : q[i] < n
      BY <1>2, <2>1, <3>2
    <3>3. CASE \E i \in 1..Len(q) : q[i] = n
      <4>1. PICK i \in 1..Len(q) : q[i] = n
        BY <3>3
      <4>2. i # 1
        BY <1>3, <2>3, <4>1, <3>1
      <4>3. i - 1 \in 1..Len(Tail(q)) /\ (i - 1) + 1 = i
        BY <1>2, <4>2
      <4>4. Tail(q)[i - 1] = n
        BY <1>2, <4>1, <4>3
      <4> QED
        BY <4>3, <4>4
    <3> QED
      BY <1>4, <3>1, <3>2, <3>3
  <2>4. \A i \in 1..Len(Tail(q)) : q[1] < Tail(q)[i]
    BY <1>2, <1>4, <2>1
  <2> QED
    BY <2>2, <2>3, <2>4 DEF NoGaps
<1>11. page'[s] = Tail(q) /\ cursor'[s] = q[1]
  BY <1>5 DEF StreamTypeOK
<1> QED
  BY <1>5, <1>8, <1>9, <1>10, <1>11 DEF PagesHaveNoGaps

\* The other steps move no cursor of a stream that writes, and add no event whose
\* sequence was not reserved.
LEMMA OthersKeepOrder ==
  ASSUME OrderInv,
         \/ Notify \/ Restart \/ Serve \/ Reserve \/ UNCHANGED eventVars
         \/ \E n \in reserved : CompleteArchive(n) \/ CompleteDelete(n)
         \/ \E s \in Subscribers : \/ Snapshot(s) \/ Subscribe(s) \/ Disconnect(s)
                                   \/ Observe(s) \/ ReadRefused(s) \/ Check(s) \/ Wake(s)
  PROVE  CommittedAreKnown' /\ PagesHaveNoGaps'
<1> USE DEF OrderInv, StreamInv
<1>0. ASSUME NEW n \in reserved, CompleteArchive(n) \/ CompleteDelete(n)
      PROVE  UNCHANGED streamVars /\ scoped' \ late' \subseteq scoped \ late
  <2>1. PICK gone : Applied(n, gone)
    BY <1>0 DEF CompleteArchive, CompleteDelete
  <2> QED
    BY <2>1 DEF Applied, StreamTypeOK
<1>1. scoped' \ late' \subseteq scoped \ late
  BY <1>0
  DEF Notify, Restart, Serve, eventVars, Reserve, Snapshot, Subscribe, Disconnect, Observe,
      ReadRefused, Check, Wake, storeVars
<1>2. ASSUME NEW s \in Subscribers, Snapshot(s) PROVE CommittedAreKnown' /\ PagesHaveNoGaps'
  <2>1. stage' = stage /\ page' = page /\ scoped' = scoped /\ late' = late /\ stage[s] = "off"
    BY <1>2 DEF Snapshot, storeVars
  <2>2. known'[s] = scoped
    BY <1>2 DEF Snapshot, StreamTypeOK
  <2>3. \A t \in Subscribers : t # s => cursor'[t] = cursor[t] /\ known'[t] = known[t]
    BY <1>2 DEF Snapshot, StreamTypeOK
  <2> QED
    BY <2>1, <2>2, <2>3 DEF CommittedAreKnown, PagesHaveNoGaps
<1>3. CASE UNCHANGED <<cursor, known>>
  <2>1. ASSUME NEW s \in Subscribers, stage'[s] = "write"
        PROVE  stage[s] = "write" /\ page'[s] = page[s]
    BY <1>0, <2>1
    DEF Notify, Restart, Serve, eventVars, Reserve, Snapshot, Subscribe, Disconnect, Observe,
        ReadRefused, Check, Wake, StreamGoes, StreamTypeOK, streamVars
  <2> QED
    BY <1>1, <1>3, <2>1 DEF CommittedAreKnown, PagesHaveNoGaps, NoGaps
<1>4. UNCHANGED <<cursor, known>> \/ \E s \in Subscribers : Snapshot(s)
  BY <1>0 DEF Notify, Restart, Serve, eventVars, Reserve, Subscribe, Disconnect, Observe,
              ReadRefused, Check, Wake, streamVars
<1> QED
  BY <1>2, <1>3, <1>4

LEMMA OrderInvStep == OrderInv /\ [StreamNext]_eventVars => OrderInv'
<1> SUFFICES ASSUME OrderInv, [StreamNext]_eventVars PROVE OrderInv'
  OBVIOUS
<1>1. StreamInv'
  BY StreamInvStep DEF OrderInv
<1>2. CommittedAreKnown' /\ PagesHaveNoGaps'
  BY CommitKeepsOrder, ReadKeepsOrder, WriteKeepsOrder, OthersKeepOrder
  DEF StreamNext, StreamStep
<1> QED
  BY <1>1, <1>2 DEF OrderInv

\* A client knows every event up to its cursor but for those whose sequence an archive
\* or deletion took in advance, for any page size, reconnects and restarts.
THEOREM NoCommitIsSkipped == StreamSpec => []CommittedAreKnown
<1>1. OrderInv => CommittedAreKnown
  BY DEF OrderInv
<1> QED
  BY <1>1, OrderInvInit, OrderInvStep, PTL DEF StreamSpec
================================================================================

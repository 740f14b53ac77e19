------------------------------ MODULE Compaction ------------------------------
(***************************************************************************)
(* Context compaction of one session.  A run that finds its context under  *)
(* pressure compacts a prefix of the transcript in the foreground; after a *)
(* run has succeeded one background task may prepare, send and keep a      *)
(* summary ("job") that the first turn of a later run installs.  Both      *)
(* write the chain of context checkpoints, and both journal what they sent.*)
(*                                                                         *)
(* The database serves one call at a time, so a backend call is one step.  *)
(* Sizes are counted in entries; a summary counts as one entry.            *)
(***************************************************************************)
EXTENDS Integers, Sequences, FiniteSets, FiniteSetsExt

CONSTANTS
    MaxRuns,        \* runs accepted in the session
    MaxEntries,     \* entries of the transcript
    MaxEvents,      \* restarts, shutdowns, archives and changes of the settings, together
    MaxManual,      \* runs started with /compact
    MaxCompactions, \* MAX_COMPACTIONS: compaction operations of one run
    MaxInput,       \* entries the model's context window holds
    Soft,           \* entries at which a run is under pressure
    Early           \* entries at which background work is worth starting

ASSUME ThresholdsAssumption ==
    /\ {MaxRuns, MaxEntries, MaxEvents, MaxManual} \subseteq Nat
    /\ MaxCompactions \in Nat \ {0}
    /\ Early \in Nat /\ Soft \in Nat /\ MaxInput \in Nat
    /\ Early <= Soft /\ Soft <= MaxInput

VARIABLES
    entries,     \* the transcript: [kind, run]
    runs,        \* runs in the order of acceptance
    checkpoints, \* context checkpoints: [source, parent]
    jobs,        \* background jobs in the order of preparation
    operations,  \* foreground compaction operations in the order of preparation
    credential,  \* the generation of the model credential
    policy,      \* the sequence of the data-use policy
    archive,     \* "open", "prepared" or "done"
    enabled,     \* Backend::maintenance_enabled
    phase,       \* where the active run's loop is
    loop,        \* what the loop knows: its loop, and its provider turns since
    starters,    \* ended runs whose task has yet to call maybe_start
    task,        \* the background task
    holder,      \* who holds MaintenanceSupervisor::task locked, and for what
    stopping,    \* the supervisors' shutdown has begun
    failed,      \* a persistence error made a task request the shutdown
    events       \* restarts, shutdowns, archives and changes of the settings so far

ledger == <<entries, runs, checkpoints, jobs, operations, archive>>
settings == <<credential, policy>>
memory == <<enabled, phase, loop, starters, task, holder, stopping, failed>>
vars == <<ledger, settings, memory, events>>

NoTask == [stage |-> "none", run |-> 0, job |-> 0]
NoHolder == [who |-> "none", stage |-> "free"]
NewLoop == [source |-> 0, parent |-> 0, begun |-> FALSE, advanced |-> FALSE, rejected |-> FALSE]

\* One of the events the instance bounds.
CountEvent == events < MaxEvents /\ events' = events + 1

through == Len(entries)
Last == Len(runs)
HasActive == Last > 0 /\ runs[Last].state = "active"

\* load_latest_checkpoint, latest_parent: the checkpoint with the highest source, 0 if none.
LatestParent ==
    IF checkpoints = <<>> THEN 0
    ELSE CHOOSE c \in DOMAIN checkpoints :
            \A d \in DOMAIN checkpoints : checkpoints[d].source <= checkpoints[c].source

Covered(parent) == IF parent = 0 THEN 0 ELSE checkpoints[parent].source

\* context_budget: the entries after `covered`, and the summary before them if there is one.
Budget(covered, high) == (high - covered) + (IF covered = 0 THEN 0 ELSE 1)
Fits(n) == n <= MaxInput
Pressure(n) == n >= Soft
EarlyPressure(n) == Pressure(n) \/ n >= Early
ReadyBudget(n) == n <= Early /\ ~Pressure(n)
Useful(before, after) == before > after

\* State::permits
Permits(from, to) ==
    \/ from = "Prepared" /\ to \in {"Dispatched", "Failed", "Cancelled"}
    \/ from = "Dispatched" /\ to \in {"Ready", "Uncertain"}
    \/ from = "Ready" /\ to \in {"Discarded", "Installed"}

OpenJobs == {j \in DOMAIN jobs : jobs[j].state \in {"Prepared", "Dispatched", "Ready"}}
Dispatched == {j \in DOMAIN jobs : jobs[j].state = "Dispatched"}

\* transition: the job moves, and the call fails when its state does not permit the target.
Transition(j, target) ==
    IF Permits(jobs[j].state, target)
    THEN /\ jobs' = [jobs EXCEPT ![j].state = target]
         /\ UNCHANGED failed
    ELSE failed' = TRUE /\ UNCHANGED jobs

\* compaction_prefix_was_attempted
PrefixWasAttempted(source) ==
    \/ \E j \in DOMAIN jobs : jobs[j].source = source
    \/ \E o \in DOMAIN operations : operations[o].source = source

\* Mutant: a job that was sent without an answer does not block its prefix.
PrefixBlocksForeground_SettledOnly(source) ==
    \/ \E j \in DOMAIN jobs : /\ jobs[j].source = source
                              /\ jobs[j].state \in {"Ready", "Discarded", "Installed"}
    \/ \E o \in DOMAIN operations : operations[o].source = source

\* compaction_prefix_blocks_foreground: a job that never left the server does not count.
PrefixBlocksForeground(source) ==
    \/ \E j \in DOMAIN jobs : /\ jobs[j].source = source
                              /\ jobs[j].state \notin {"Failed", "Cancelled"}
    \/ \E o \in DOMAIN operations : operations[o].source = source

\* select_compaction_prefix_fitting: two prior turns are kept, then one, then none, as long as
\* the tail that is left is accepted.
SelectPrefix(covered, protected, high, accepted) ==
    LET users == {i \in (covered + 1)..(protected - 1) : entries[i].kind = "user"}
        kept == {i \in users : Cardinality({k \in users : k >= i}) <= 2}
        cuts == {b - 1 : b \in {b \in kept \cup {protected} :
                            /\ b - 1 > covered
                            /\ Budget(b - 1, high) \in accepted}}
    IN IF protected <= covered + 1 \/ protected > high \/ cuts = {} THEN 0 ELSE Min(cuts)

\* complete_cut: no call of the run is cut off from its result (a batch is one call here).
CompleteCut(r, cut) ==
    \A i \in 1..cut : entries[i] = [kind |-> "call", run |-> r] => i + 1 <= cut

\* select_within_run_cut: the first completed batch of the run that leaves a tail of at least
\* two entries, fits with the user's message restored, and was not attempted before.
WithinRunCut(r, covered) ==
    LET cuts == {i \in 1..(through - 1) :
                    /\ entries[i] = [kind |-> "result", run |-> r]
                    /\ i > covered
                    /\ CompleteCut(r, i)
                    /\ through - i >= 2
                    /\ Fits(Budget(i, through) + 1)
                    /\ ~PrefixBlocksForeground(i)}
    IN IF cuts = {} THEN 0 ELSE Min(cuts)

\* source_allowed
SourceAllowed(r, cut) ==
    \/ cut < runs[r].source
    \/ /\ cut < through
       /\ entries[cut] = [kind |-> "result", run |-> r]
       /\ CompleteCut(r, cut)

\* can_compact: at most MaxCompactions, every earlier one complete, and a provider turn since.
CanCompact(r) ==
    LET own == {o \in DOMAIN operations : operations[o].run = r}
    IN \/ own = {}
       \/ /\ Cardinality(own) < MaxCompactions
          /\ \A o \in own : operations[o].state = "complete"
          /\ loop.advanced

(***************************************************************************)
(* The session's runs.                                                     *)
(***************************************************************************)
\* A run is accepted with its user message; /compact makes it a manual one.
AcceptRun(manual) ==
    /\ ~stopping /\ ~failed
    /\ archive = "open" /\ ~HasActive
    /\ Last < MaxRuns /\ through < MaxEntries
    /\ manual => Cardinality({r \in DOMAIN runs : runs[r].manual}) < MaxManual
    /\ runs' = Append(runs, [source |-> through + 1, state |-> "active", manual |-> manual,
                             credential |-> credential])
    /\ entries' = Append(entries, [kind |-> "user", run |-> Last + 1])
    /\ phase' = "head"
    /\ UNCHANGED <<checkpoints, jobs, operations, archive, settings, enabled, loop, starters,
                   task, holder, stopping, failed, events>>

\* The run ends: its task removes the control and then calls maybe_start.
EndRun(state, keep) ==
    /\ runs' = [runs EXCEPT ![Last].state = state]
    /\ phase' = "idle" /\ loop' = NewLoop
    /\ starters' = starters \cup {Last}
    /\ UNCHANGED keep

\* A cancelled run stops between two turns; like a failed run, it did not succeed.
StopRun ==
    /\ HasActive /\ phase = "head"
    /\ EndRun("failed", <<entries, checkpoints, jobs, operations, archive, settings, enabled,
                           task, holder, stopping, failed, events>>)

\* maintenance_boundary: a kept summary still fits the run that is about to start.
Compatible(j, r) ==
    /\ policy = jobs[j].policy
    /\ credential = runs[r].credential /\ runs[r].credential = jobs[j].credential
    /\ jobs[j].source < runs[r].source
    /\ LatestParent = jobs[j].parent
    /\ ReadyBudget(Budget(jobs[j].source, through))
    /\ Useful(Budget(Covered(jobs[j].parent), through), Budget(jobs[j].source, through))

\* The head of the run's loop: a manual run cancels the background work; the first turn of any
\* other run installs or discards the summary that is kept.
MaintenanceBoundary ==
    LET r == Last
        ready == {j \in DOMAIN jobs : jobs[j].state = "Ready"}
        looks == enabled /\ ~loop.begun /\ through = runs[r].source
    IN /\ HasActive /\ phase = "head"
       /\ phase' = IF runs[r].manual THEN "cancelHead" ELSE "load"
       /\ IF runs[r].manual \/ ~looks \/ ready = {} THEN UNCHANGED <<jobs, checkpoints>>
          ELSE \E j \in ready :
                IF Compatible(j, r)
                THEN /\ checkpoints' = Append(checkpoints, [source |-> jobs[j].source,
                                                            parent |-> jobs[j].parent])
                     /\ jobs' = [jobs EXCEPT ![j] = [@ EXCEPT
                                    !.state = "Installed",
                                    !.checkpoint = Len(checkpoints) + 1,
                                    !.receiver = r]]
                ELSE /\ jobs' = [jobs EXCEPT ![j].state = "Discarded"]
                     /\ UNCHANGED checkpoints
       /\ UNCHANGED <<entries, runs, operations, archive, settings, enabled, loop, starters,
                      task, holder, stopping, failed, events>>

\* plan_context_compaction: the prefix to compact now, 0 if none.
PlanSource(r, parent) ==
    LET covered == Covered(parent)
        whole == SelectPrefix(covered, runs[r].source, through, {n \in 0..MaxEntries + 1 : Fits(n)})
        cut == IF whole # 0 THEN whole ELSE WithinRunCut(r, covered)
    IN IF /\ CanCompact(r)
          /\ runs[r].manual \/ loop.rejected \/ Pressure(Budget(covered, through))
          /\ cut # 0
          /\ runs[r].manual \/ ~PrefixBlocksForeground(cut)
       THEN cut ELSE 0

\* load_run_context: the loop goes on with a plan or with a provider turn; it fails the run
\* when the context does not fit, or was rejected and cannot be compacted.
LoadRunContext ==
    LET parent == LatestParent
        source == PlanSource(Last, parent)
    IN /\ HasActive /\ phase = "load"
       /\ \/ /\ source # 0
             /\ loop' = [loop EXCEPT !.source = source, !.parent = parent]
             /\ phase' = "cancelPlan"
             /\ UNCHANGED <<runs, starters>>
          \/ /\ source = 0 /\ ~loop.rejected /\ Fits(Budget(Covered(parent), through))
             /\ phase' = "turn"
             /\ UNCHANGED <<runs, starters, loop>>
          \/ /\ source = 0 /\ (loop.rejected \/ ~Fits(Budget(Covered(parent), through)))
             /\ EndRun("failed", <<>>)
       /\ UNCHANGED <<entries, checkpoints, jobs, operations, archive, settings, enabled,
                      task, holder, stopping, failed, events>>

\* A provider turn: an answer ends the run, a batch of tool calls extends the transcript, a
\* rejected context asks for a compaction, anything else fails the run.
ProviderTurn ==
    LET begun == [loop EXCEPT !.begun = TRUE]
    IN /\ HasActive /\ phase = "turn"
       /\ \/ /\ through < MaxEntries
             /\ entries' = Append(entries, [kind |-> "answer", run |-> Last])
             /\ EndRun("succeeded", <<>>)
          \/ /\ through + 1 < MaxEntries
             /\ entries' = entries \o <<[kind |-> "call", run |-> Last],
                                        [kind |-> "result", run |-> Last]>>
             /\ loop' = [begun EXCEPT !.advanced = TRUE]
             /\ phase' = "head" /\ UNCHANGED <<runs, starters>>
          \/ /\ loop' = [begun EXCEPT !.rejected = TRUE]
             /\ phase' = "head" /\ UNCHANGED <<entries, runs, starters>>
          \/ EndRun("failed", <<entries>>)
       /\ UNCHANGED <<checkpoints, jobs, operations, archive, settings, enabled, task,
                      holder, stopping, failed, events>>

(***************************************************************************)
(* Foreground compaction.                                                  *)
(***************************************************************************)
\* prepare_auto_compaction: the plan is checked again; a plan that no longer holds is an error
\* that stops the server.
PrepareAutoCompaction ==
    LET r == Last
        holds == /\ CanCompact(r)
                 /\ SourceAllowed(r, loop.source)
                 /\ LatestParent = loop.parent
                 /\ IF runs[r].manual THEN Dispatched = {}
                    ELSE ~PrefixBlocksForeground(loop.source)
    IN /\ HasActive /\ phase = "prepare"
       /\ IF holds
          THEN /\ operations' = Append(operations,
                    [run |-> r, parent |-> loop.parent, source |-> loop.source,
                     high |-> through, state |-> "prepared", checkpoint |-> 0, sent |-> FALSE])
               /\ loop' = [loop EXCEPT !.advanced = FALSE]
               /\ phase' = "send" /\ UNCHANGED failed
          ELSE failed' = TRUE /\ phase' = "dead" /\ UNCHANGED <<operations, loop>>
       /\ UNCHANGED <<entries, runs, checkpoints, jobs, archive, settings, enabled, starters,
                      task, holder, stopping, events>>

\* mark_compaction_dispatched
MarkCompactionDispatched ==
    /\ HasActive /\ phase = "send"
    /\ operations' = [operations EXCEPT ![Len(operations)].state = "dispatched",
                                        ![Len(operations)].sent = TRUE]
    /\ phase' = "reply"
    /\ UNCHANGED <<entries, runs, checkpoints, jobs, archive, settings, enabled, loop, starters,
                   task, holder, stopping, failed, events>>

\* complete_compaction: the checkpoint is written and the loop starts over.
CompleteCompaction ==
    LET o == Len(operations)
    IN /\ HasActive /\ phase = "reply"
       /\ checkpoints' = Append(checkpoints, [source |-> operations[o].source,
                                              parent |-> operations[o].parent])
       /\ operations' = [operations EXCEPT ![o].state = "complete",
                                           ![o].checkpoint = Len(checkpoints) + 1]
       /\ loop' = [NewLoop EXCEPT !.begun = loop.begun]
       /\ phase' = "head"
       /\ UNCHANGED <<entries, runs, jobs, archive, settings, enabled, starters, task, holder,
                      stopping, failed, events>>

\* fail_compaction: Undispatched and ContextRejected fail the operation, every other end of a
\* dispatched one is uncertain; the run fails.
FailCompaction ==
    /\ HasActive /\ phase \in {"send", "reply"}
    /\ \E state \in IF phase = "send" THEN {"failed"} ELSE {"failed", "uncertain"} :
            operations' = [operations EXCEPT ![Len(operations)].state = state]
    /\ EndRun("failed", <<entries, checkpoints, jobs, archive, settings, enabled, task, holder,
                          stopping, failed, events>>)

(***************************************************************************)
(* The background task.                                                    *)
(***************************************************************************)
\* Mutant: the run need not be the session's last.
MaintenanceIdle_AnyRun(r) == archive = "open" /\ ~HasActive

\* maintenance_idle: the run is the session's last and nothing else happens in the session.
MaintenanceIdle(r) == archive = "open" /\ ~HasActive /\ r = Last

\* maybe_start: the task of an ended run starts the background task if the slot and the lock
\* are free; otherwise it gives up.
MaybeStart(r) ==
    /\ r \in starters
    /\ starters' = starters \ {r}
    /\ task' = IF enabled /\ ~stopping /\ ~failed /\ task = NoTask /\ holder = NoHolder
               THEN [stage |-> "prepare", run |-> r, job |-> 0] ELSE task
    /\ UNCHANGED <<ledger, settings, enabled, phase, loop, holder, stopping, failed, events>>

\* The prefix prepare_maintenance would summarise after run r, 0 if there is nothing to do.
MaintenanceSource(r) ==
    LET covered == Covered(LatestParent)
        source == SelectPrefix(covered, runs[r].source, through,
                               {n \in 0..MaxEntries + 1 : ReadyBudget(n)})
    IN IF /\ enabled /\ runs[r].state = "succeeded" /\ MaintenanceIdle(r)
          /\ credential = runs[r].credential
          /\ OpenJobs = {}
          /\ EarlyPressure(Budget(covered, through))
          /\ source # 0
          /\ ~PrefixWasAttempted(source)
          /\ Useful(Budget(covered, through), Budget(source, through))
       THEN source ELSE 0

\* prepare_maintenance: a job is written, or the task has nothing to do (nothing to compact,
\* or the data-use policy refuses the model).
PrepareMaintenance ==
    /\ task.stage = "prepare"
    /\ \/ /\ MaintenanceSource(task.run) # 0
          /\ jobs' = Append(jobs, [run |-> task.run, parent |-> LatestParent,
                                   source |-> MaintenanceSource(task.run), through |-> through,
                                   policy |-> policy, credential |-> credential,
                                   state |-> "Prepared", checkpoint |-> 0, receiver |-> 0])
          /\ task' = [task EXCEPT !.stage = "dispatch", !.job = Len(jobs) + 1]
       \/ task' = [task EXCEPT !.stage = "finish"] /\ UNCHANGED jobs
    /\ UNCHANGED <<entries, runs, checkpoints, operations, archive, settings, enabled, phase,
                   loop, starters, holder, stopping, failed, events>>

\* dispatch_maintenance: a job that is no longer prepared is left alone; one whose session has
\* moved on is cancelled.
DispatchMaintenance ==
    LET j == task.job
        allowed == /\ enabled
                   /\ policy = jobs[j].policy
                   /\ MaintenanceIdle(jobs[j].run) /\ through = jobs[j].through
                   /\ credential = jobs[j].credential
                   /\ LatestParent = jobs[j].parent
    IN /\ task.stage = "dispatch"
       /\ IF jobs[j].state # "Prepared" THEN UNCHANGED <<jobs, failed>>
          ELSE Transition(j, IF allowed THEN "Dispatched" ELSE "Cancelled")
       /\ task' = [task EXCEPT !.stage = IF jobs[j].state = "Prepared" /\ allowed
                                         THEN "reply" ELSE "finish"]
       /\ UNCHANGED <<entries, runs, checkpoints, operations, archive, settings, enabled, phase,
                      loop, starters, holder, stopping, events>>

\* complete_maintenance: a valid summary is kept, an invalid one leaves the job uncertain.
CompleteMaintenance ==
    /\ task.stage = "reply"
    /\ \E state \in {"Ready", "Uncertain"} : Transition(task.job, state)
    /\ task' = [task EXCEPT !.stage = "finish"]
    /\ UNCHANGED <<entries, runs, checkpoints, operations, archive, settings, enabled, phase,
                   loop, starters, holder, stopping, events>>

\* finish_maintenance: what becomes of the session's open job.
Finished(j, broken, discard) ==
    CASE jobs[j].state = "Prepared" -> IF broken THEN "Failed" ELSE "Cancelled"
      [] jobs[j].state = "Dispatched" -> "Uncertain"
      [] OTHER -> IF discard THEN "Discarded" ELSE jobs[j].state

FinishMaintenance(broken, discard) ==
    jobs' = [j \in DOMAIN jobs |->
                IF j \in OpenJobs THEN [jobs[j] EXCEPT !.state = Finished(j, broken, discard)]
                ELSE jobs[j]]

\* The request cannot be built or its dispatch is refused: the job fails.
BuildFails ==
    /\ task.stage = "dispatch"
    /\ FinishMaintenance(TRUE, FALSE)
    /\ task' = [task EXCEPT !.stage = "finish"]
    /\ UNCHANGED <<entries, runs, checkpoints, operations, archive, settings, enabled, phase,
                   loop, starters, holder, stopping, failed, events>>

\* The deadline, a cancellation, a provider error or a refusal ends execute in any stage.
TaskStops ==
    /\ task.stage \in {"prepare", "dispatch", "reply"}
    /\ task' = [task EXCEPT !.stage = "finish"]
    /\ UNCHANGED <<ledger, settings, enabled, phase, loop, starters, holder, stopping, failed,
                   events>>

\* The task settles what execute left and ends.
TaskFinishes ==
    /\ task.stage = "finish"
    /\ FinishMaintenance(FALSE, FALSE)
    /\ task' = NoTask
    /\ UNCHANGED <<entries, runs, checkpoints, operations, archive, settings, enabled, phase,
                   loop, starters, holder, stopping, failed, events>>

(***************************************************************************)
(* Cancelling it: a run, an archive and the shutdown.                      *)
(***************************************************************************)
Wants(who) ==
    CASE who = "head" -> HasActive /\ phase = "cancelHead"
      [] who = "plan" -> HasActive /\ phase = "cancelPlan"
      [] who = "archive" -> archive = "prepared"
      [] who = "shutdown" -> stopping

\* cancel_session and shutdown take the lock and cancel the task.
BeginCancel(who) ==
    /\ Wants(who) /\ holder = NoHolder
    /\ holder' = [who |-> who, stage |-> "drain"]
    /\ UNCHANGED <<ledger, settings, enabled, phase, loop, starters, task, stopping, failed,
                   events>>

\* drain: the task did not end in ten seconds and is aborted.
AbortTask ==
    /\ holder.stage = "drain" /\ task # NoTask
    /\ task' = NoTask
    /\ UNCHANGED <<ledger, settings, enabled, phase, loop, starters, holder, stopping, failed,
                   events>>

\* Mutant: the canceller settles the job without waiting for the task.
Drained_AtOnce == TRUE

\* drain returns when the task is gone.
Drained == task = NoTask

\* configure_maintenance(false): what was prepared is cancelled, what was kept is discarded.
Disabled(state) ==
    CASE state = "Prepared" -> "Cancelled" [] state = "Ready" -> "Discarded" [] OTHER -> state

\* finish_maintenance with discard_ready under the lock; then the canceller goes on: the run
\* loads its context or prepares its compaction, the archive completes (drain_for_archive finds
\* nothing dispatched), the shutdown disables maintenance a second time.
EndCancel ==
    /\ holder.stage = "drain" /\ Drained
    /\ FinishMaintenance(FALSE, TRUE)
    /\ holder' = IF holder.who = "shutdown" THEN [holder EXCEPT !.stage = "done"] ELSE NoHolder
    /\ phase' = CASE holder.who = "head" -> "load"
                  [] holder.who = "plan" -> "prepare"
                  [] OTHER -> phase
    /\ archive' = IF holder.who = "archive" THEN "done" ELSE archive
    /\ UNCHANGED <<entries, runs, checkpoints, operations, settings, enabled, loop, starters,
                   task, stopping, failed, events>>

\* An archive is prepared for an idle session, and undone later.
PrepareArchive ==
    /\ ~stopping /\ archive = "open" /\ ~HasActive /\ runs # <<>>
    /\ CountEvent
    /\ archive' = "prepared"
    /\ UNCHANGED <<entries, runs, checkpoints, jobs, operations, settings, memory>>

Unarchive ==
    /\ ~stopping /\ archive = "done"
    /\ archive' = "open"
    /\ UNCHANGED <<entries, runs, checkpoints, jobs, operations, settings, memory, events>>

\* A new credential generation or data-use policy.
ChangeSettings ==
    /\ CountEvent
    /\ \/ credential' = credential + 1 /\ UNCHANGED policy
       \/ policy' = policy + 1 /\ UNCHANGED credential
    /\ UNCHANGED <<ledger, memory>>

\* shutdown: the flag, and maintenance is disabled before the lock is taken.
BeginShutdown ==
    /\ ~stopping
    /\ CountEvent
    /\ stopping' = TRUE /\ enabled' = FALSE
    /\ jobs' = [j \in DOMAIN jobs |-> [jobs[j] EXCEPT !.state = Disabled(@)]]
    /\ UNCHANGED <<entries, runs, checkpoints, operations, archive, settings, phase, loop,
                   starters, task, holder, failed>>

(***************************************************************************)
(* Restart, after a crash at any point or the end of a shutdown.           *)
(***************************************************************************)
\* recover_maintenance_jobs and, for an archive that was prepared, recover_session_archives; then
\* configure_maintenance.
Recovered(job, on) ==
    LET state == CASE job.state = "Prepared" -> "Cancelled"
                   [] job.state = "Dispatched" -> "Uncertain"
                   [] job.state = "Ready" ->
                        IF \/ archive # "open" \/ policy # job.policy
                           \/ credential # job.credential \/ LatestParent # job.parent
                        THEN "Discarded" ELSE "Ready"
                   [] OTHER -> job.state
    IN [job EXCEPT !.state = IF on THEN state ELSE Disabled(state)]

\* recover_compaction_operations
Settled(state) ==
    CASE state = "prepared" -> "failed" [] state = "dispatched" -> "uncertain" [] OTHER -> state

Restart(on) ==
    /\ CountEvent
    /\ jobs' = [j \in DOMAIN jobs |-> Recovered(jobs[j], on)]
    /\ operations' = [o \in DOMAIN operations |->
                        [operations[o] EXCEPT !.state = Settled(@)]]
    /\ runs' = [r \in DOMAIN runs |-> [runs[r] EXCEPT !.state =
                    IF @ = "active" THEN "failed" ELSE @]]
    /\ archive' = IF archive = "prepared" THEN "done" ELSE archive
    /\ enabled' = on
    /\ phase' = "idle" /\ loop' = NewLoop /\ starters' = {} /\ task' = NoTask
    /\ holder' = NoHolder /\ stopping' = FALSE /\ failed' = FALSE
    /\ UNCHANGED <<entries, checkpoints, settings>>

Init ==
    /\ entries = <<>> /\ runs = <<>> /\ checkpoints = <<>> /\ jobs = <<>> /\ operations = <<>>
    /\ credential = 0 /\ policy = 0 /\ archive = "open" /\ enabled = TRUE
    /\ phase = "idle" /\ loop = NewLoop /\ starters = {} /\ task = NoTask /\ holder = NoHolder
    /\ stopping = FALSE /\ failed = FALSE /\ events = 0

Next ==
    \/ \E manual \in BOOLEAN : AcceptRun(manual)
    \/ StopRun \/ MaintenanceBoundary \/ LoadRunContext \/ ProviderTurn
    \/ PrepareAutoCompaction \/ MarkCompactionDispatched \/ CompleteCompaction \/ FailCompaction
    \/ \E r \in 1..MaxRuns : MaybeStart(r)
    \/ PrepareMaintenance \/ DispatchMaintenance \/ CompleteMaintenance \/ BuildFails
    \/ TaskStops \/ TaskFinishes
    \/ \E who \in {"head", "plan", "archive", "shutdown"} : BeginCancel(who)
    \/ AbortTask \/ EndCancel
    \/ PrepareArchive \/ Unarchive \/ ChangeSettings \/ BeginShutdown
    \/ \E on \in BOOLEAN : Restart(on)

Spec == Init /\ [][Next]_vars

(***************************************************************************)
(* Properties.                                                             *)
(***************************************************************************)
\* validate_maintenance_binding and validate_installation of one job.
JobIsValid(j) ==
    LET job == jobs[j]
    IN /\ runs[job.run].state # "active"
       /\ job.source < runs[job.run].source /\ runs[job.run].source <= job.through
       /\ Covered(job.parent) < job.source
       /\ entries[job.source + 1].kind = "user"
       /\ \A i \in DOMAIN entries :
            /\ entries[i].run = job.run => i <= job.through
            /\ entries[i].kind = "user" => i \notin (runs[job.run].source + 1)..job.through
       /\ job.state = "Installed" =>
            /\ checkpoints[job.checkpoint] = [source |-> job.source, parent |-> job.parent]
            /\ job.source < runs[job.receiver].source
            /\ job.credential = runs[job.receiver].credential

\* validate_maintenance_records: a session has one open job at most.
OneOpenJob == Cardinality(OpenJobs) <= 1

\* validate_operations and the operations of validate_compaction_facts.
OperationIsValid(o) ==
    LET op == operations[o]
        earlier == {p \in 1..(o - 1) : operations[p].run = op.run}
    IN /\ \/ op.source < runs[op.run].source
          \/ /\ op.source < op.high
             /\ entries[op.source] = [kind |-> "result", run |-> op.run]
             /\ CompleteCut(op.run, op.source)
       /\ Cardinality(earlier) < MaxCompactions
       /\ \A p \in earlier : operations[p].source < op.source /\ operations[p].state = "complete"
       /\ op.state = "complete" =>
            checkpoints[op.checkpoint] = [source |-> op.source, parent |-> op.parent]

\* The checkpoints of validate_compaction_facts: each covers more than its parent, which is the
\* checkpoint written before it.
CheckpointsAreAChain ==
    \A c \in DOMAIN checkpoints :
        /\ checkpoints[c].parent = c - 1
        /\ Covered(checkpoints[c].parent) < checkpoints[c].source

\* The next start accepts the records in every state a crash can leave: at most one open job,
\* every job bound to an ended run and to the transcript it was prepared from, every operation
\* an allowed step of its run, and one chain of checkpoints although a run and the background
\* task both write it (validate_maintenance_records, validate_compaction_facts).
RecordsAreValid ==
    /\ OneOpenJob
    /\ \A j \in DOMAIN jobs : JobIsValid(j)
    /\ \A o \in DOMAIN operations : OperationIsValid(o)
    /\ CheckpointsAreAChain

\* No persistence call of the background task, of a canceller or of a foreground compaction is
\* refused: what cancels the task has drained it, and a plan still holds when it is prepared.
\* A refusal stops the server (MaintenanceSupervisor::fatal, RunSupervisor::start_run).
CompactionNeverStopsServer == ~failed

\* A prefix is sent to a provider by at most one attempt that was not asked for with /compact,
\* through failures, restarts and the race of a run with the background task.
PrefixIsSentOnce ==
    LET sentJobs == {j \in DOMAIN jobs : jobs[j].state \notin {"Prepared", "Failed", "Cancelled"}}
        sentOperations == {o \in DOMAIN operations :
                            operations[o].sent /\ ~runs[operations[o].run].manual}
    IN \A source \in 1..through :
        Cardinality({j \in sentJobs : jobs[j].source = source})
            + Cardinality({o \in sentOperations : operations[o].source = source}) <= 1
================================================================================

# A verification project for morons.dev

TLA+ models of `morons-server`, the local server of a terminal coding agent, and of
the parts of `morons-cli` and `morons-protocol` that depend on its promises. A client
submits an input to a session; the server records a run, calls a model provider in
turns, executes the tool calls it asks for, and records the outcome. Everything that
has happened is in one SQLite database, and a process that dies at any point is
followed by one that validates, rebuilds and recovers from it.

## The system

| Part | State | Operations | Interacts with |
|---|---|---|---|
| Run ledger (`persistence/backend/run_*.rs`, `tool_execution.rs`) | runs, cancellation flags, provider and tool facts, the session's active run and entry high water | accept, cancel, activate, prepare, dispatch, complete, finish, recover | called by handlers, supervisor tasks and startup through one storage worker; each operation is one Immediate transaction |
| Projections (`database/projections*`, `rebuild.rs`) | none of its own: rows derived from facts | validate, delete and rebuild at every start | reads what every transaction wrote |
| Local commands (`backend/local_command.rs`, `command_supervisor.rs`, `tools/bash.rs`) | command states and flags; permits, cancellation handles, tasks | accept, activate, cancel, complete, recover; start, signal, shut down | excludes a run in the same session |
| Run supervisor (`run_supervisor.rs`, `application.rs`) | permits, cancellation handles, tasks, stopping flag | reserve, start, execute turns and tools, signal, shut down | ledger, providers, tools, maintenance |
| Server process (`main.rs`, `application.rs`, `server_stop.rs`) | accept loop, connections, shutdown watch | serve, stop, drain, abort, exit | all supervisors |
| Steering (`backend/steering*.rs`) | one queue per session: items, target run, pause, revisions, receipts | enqueue, edit, remove, pause, resume | run transitions and archiving pause it |
| Session catalog (`creation.rs`, `session_mutation.rs`, `session_delete.rs`, `image_attachment.rs`) | sessions, names, archive and delete requests, workspaces, attachments, stop requests | create, rename, archive, delete, stop, recover | acceptance refuses archived sessions |
| Session events (`session_events.rs`, `connection.rs`) | delivery events by sequence, subscriptions | append, read, notify | every transaction |
| Maintenance (`maintenance_supervisor.rs`, `backend/maintenance/`, `compaction.rs`) | compaction journal, chain of checkpoints, one background slot | prepare, dispatch, ready, install, discard, drain | runs preempt it; run tasks compact too |
| Credentials and login (`credential_mutation/`, `credentials/`, `login_supervisor.rs`) | credential files and generations, one login slot, leases | set, remove, refresh, log in, recover | provider preparation |
| Providers (`provider/`) | requests, attempts, stream decoders | encode, send, retry, decode, cancel | the run supervisor |
| Control directory (`morons-protocol/control.rs`, `authentication.rs`, `lifecycle.rs`) | host lock, key, registration, endpoints | discover, start, register, prove, negotiate | every client and server process of a profile |
| Client (`morons-cli`) | the list, the open session, a mutation in flight, two subscriptions | open, page, submit, cancel, retry, render | the connection |

What is hard here: handlers, tasks, shutdown and the storage worker interleave at
every await (the runtime has one thread, so a step is the code between two awaits);
an intent is durable before its signal and an answer exists before it is durable;
a process may die, or abort its tasks, between any two transactions; outcomes of
provider calls and tools are unknown once dispatched; answers and events reach the
client through different channels; limits (permits, transcript entries, calls per
turn, windows) are met in the middle of work.

What makes the parts correct: a session works on one thing at a time; a run ends
once and its outcome respects an accepted cancellation; every effect is journalled
before it begins and settled exactly once, by its task or by recovery; no live run
or command is left without somebody who will end it; a repeated request is answered
and not repeated; what a transaction wrote is accepted by the validators of the next
start and gives the same projections when they are rebuilt; shutdown ends.

## Modules

| Module | What it is |
|---|---|
| `SessionLedger` | the tables of the ledger and one action per transaction |
| `RunContract` | what a client is promised about runs, without tables or processes |
| `LedgerFacts` | EXTENDS the ledger with the rows each transaction writes, the validators and the rebuild |
| `RunSupervisor` | EXTENDS the ledger with request handlers, run tasks, shutdown, crash and recovery |
| `CommandService` | EXTENDS the ledger with the handlers and tasks of local commands |
| `EventStream` | the sequence of durable events, the storage worker's notification and the streams of subscribers |
| `Steering` | the steering queue: mutations, receipts, pauses, validation and rebuild |
| `SessionCatalog` | sessions, workspaces, attachments and stop requests, with their recovery |
| `Compaction` | foreground compaction and the background task over one chain of checkpoints |
| `WireDecoders` | the stream decoders of the four protocols as operators |
| `ProviderRequests` | EXTENDS the decoders with the construction and the checks of requests |
| `ProviderTurns` | EXTENDS both with the loop of a run's turns, dispatch, attempts and deadlines |
| `Credentials` | credential files, their journal, leases, refresh and login |
| `Connection` | the control directory: discovery, host lock, registration, handshake, companion |
| `Client` | the terminal client against the durable streams of a server |
| `LedgerProofs` | theorems about `SessionLedger` and `LedgerFacts` |
| `CommandAndStreamProofs` | theorems about `CommandService` and `EventStream` |
| `CredentialAndTurnProofs` | theorems about `Credentials` and `ProviderTurns` |
| `ClientAndConnectionProofs` | theorems about `Client` and `Connection` |
| `RunSupervisorProofs`, `SteeringProofs`, `SessionCatalogProofs`, `CompactionProofs` | theorems about the module they are named after |
| `MC*` | instances for TLC |

Two composition patterns are used. `LedgerFacts`, `RunSupervisor` and `CommandService`
extend `SessionLedger` and call its transactions from their own steps, so the ledger is
stated once. The other parts meet the rest through a small interface that their module
restates as environment actions: a run in `Steering` is accepted, cancelled or ended;
a session in `SessionCatalog` is busy or not; the server in `Client` is a set of logs.

### SessionLedger

A variable per column that decides something: `runState`, `cancelRequested`,
`activeRun`, `highWater`, the facts of the t-th provider operation of a run and of
the k-th call of its turn, `commandState`, `commandCancel`, the steering queue's
target and pause, and archive requests in `accepted_sequence` order. A run stands
for the request that creates it, so a retry that returns the existing record is a
stuttering step. Each public method of the backend is an action with the same name;
`Can...` operators hold the checks a transaction makes, so that callers can also
model the refusal. Texts, identifiers, fingerprints, usage and images are left out;
entries of the transcript are counted.

`LedgerNext` is the ledger under callers that keep its protocol: an outcome is
reported for the pending operation and tools run between provider operations
(`Quiet`). `RunSupervisor!KeepsLedgerProtocol` checks that the code's callers do
so, crashes included, which connects the theorems about the ledger to the server.

### LedgerFacts

`journal` holds the canonical rows in the order of their `fact_sequence`; `audits`,
`deliveries` and `registry` are the rows written beside them, and `counters` the columns
of `runs` that count turns, calls and mutations. Each transaction of the ledger is
conjoined with the rows its function writes. `CanonicalFactsValid` is the sequence of
validators that `projections::repair` runs, one operator per validator, and the
`Rebuilt...` operators are the rebuild; `FactsNext` has the steering pauses and archive
requests of the ledger too. Left out: the columns of a row that only repeat an
identifier or a digest, the bindings a web search stores, usage rows, and
`runs.updated_sequence`, which after a tool result holds the sequence of the entry
live and that of the tool fact when rebuilt, without anything reading the difference.

### RunSupervisor

`handler[r]` follows `SubmitSessionInput` (reserve under the lifecycle lock, accept,
start, stop a run that could not start), `signalling[r]` is a `CancelRun` handler
between its commit and its signal, `task[r]` is the position in `execute_run` and
`execute_tool_calls`, and `local[r]` holds the task's variables that survive an
await: its operation, its call, the high water of its context, whether compaction
is required. `server` goes through the recovery stages of `Backend::open` in their
order, then serving, and the stages of `ServerApplication::shutdown`. A transaction
that refuses its caller sends the task to `error`, a failed storage call to `fault`;
both end the task, request shutdown and leave the run to the next start.

A web search is four transactions, and `searches` holds its rows. With its dispatch the
call is bound to the services that the login and the policy allow (`TaskToolPrepared`,
`binding`); `TaskSearchAdmit` is `admit_web_binding` and the choice of a route,
`TaskSearchDispatch` is `dispatch_web_search` with `validate_route`, and
`TaskSearchAnswered` and `TaskSearchResult` are `complete_web_search` and the result with
its receipt (`Evidenced` is the check of one against the other). The login and the policy
belong to clients: what a transaction reads of them is any value, independent of what an
earlier one read. A search also ends "cancelled" on the recorded intent alone, before the
signal (`SearchGoesOn`).

Abstractions: two concurrent `SubmitSessionInput` requests with the same request id
are one; the removal of the control, of the permit and of the task at its end are
one step; `execute_compaction` is one step (its journal is in `Compaction`); storage
does not fail inside the handler that ends a run which could not start; a web search
bound to a model is the tool kind `web`, every other tool with effects is `mutation`;
the delegated `task` tool, which the current catalog does not offer, is left out. The
contents of a search (query, citations, the digest of its binding) are left out too.

### CommandService

The same shape for local commands, with the differences the code has: the handler
keeps the lifecycle lock up to `start`, `start` does not look at `stopping`, a retried
cancellation does not signal again, an error of a task is printed and does not stop
the server, shutdown joins without a timeout, and the shell runs on a blocking
thread that outlives `main` (`orphan`).

### EventStream

`scoped` are the sequences of the events of one scope (a session, its steering queue
or the catalog) and `others` those of the rest, which share the sequence counter and
the watch channel. `worker` is what `run_worker` owes the channel after a request: it
answers first and notifies then, and a completed archive or deletion forces the
notification. A receiver's `seen` is the version of the channel it has marked, which
`changed` compares, while the loops compare the number (`observed`). `cursor` and
`known` are the client's: they survive its connection and the server. The stages of
a stream are those of the three loops in `connection.rs`, which have the same shape.

Abstractions: an archive's and a deletion's preparation are one action, told apart at
completion; the two transactions of a deletion are one; the events of the deleted
session are any set that begins with a catalog event; a snapshot of several pages is
one step; renames and archives of a session, which count for its high water but are not
sent to its subscribers, are among `others`; reads do not fail.

### Steering

`history` holds the canonical rows (mutation requests, lifecycle pauses, the facts of
runs and archives that the validators join with) at their sequence; `queue` and
`pending` are the projections. A handler of a copy of a request first receives it
(`Receive`: the receipt of an earlier copy, or the refusal of a server that stops) and
then commits it (`Commit`, with the receipt again and the checks on revisions, target, slots and archive). A transition that ends,
cancels or archives the target writes its own pause. `Repair` is a start: validation,
rebuild, validation of the projections. `steering_delivery_facts` is read by the code
and written by none of it, so no message leaves the queue except by removal.

### SessionCatalog

`row[q]` is the state and the sequence of a mutation request, among it the tombstone
that a deletion leaves of the requests of its session. A creation is three transactions
with the files of the workspace between them, an archive two with the end of the
session's runtime between them, a deletion four steps with files and tombstones. `image`
says whether an attachment has its file, its row or both; the file is written before
the input's transaction. Acceptance refuses a session that is archived or has any archive
request prepared (`ArchivePending`), whatever was asked of it later. The stages of `server` are those of a start. File system calls
succeed, fail (`MaxFaults`) or are cut off by a crash; they are not reordered.

### Compaction

`entries`, `checkpoints`, `jobs` and `operations` are the transcript, the chain and the
two journals. `phase` and `loop` follow the loop of the active run, `task` the
background task, `holder` the one who has `MaintenanceSupervisor::task` locked (a run's
head, its plan, an archive or the shutdown). Sizes are counted in entries and a summary
counts as one, so that the order of the thresholds is the code's and not the estimate
of tokens.

### WireDecoders, ProviderRequests, ProviderTurns

A decoder is a record; `Push(d, r)` is what it becomes on a record of the wire and
`Finish(d)` what the end of the body makes of it. The four protocols keep their own
states, orders and error kinds. A text is the sequence of the pieces it arrived in, a
call's arguments are whole after two pieces, and a record that a decoder refuses for
its form alone (strict JSON, nesting, length, another model or role, a finished call
without an identifier or a name) is `well = FALSE`.
`BuildProviderInput` makes the items of a request out of the transcript and the
continuation, `InputIsValid` is the part of `validate_input` that looks at the order and
the kinds of items, and the messages of each protocol follow. Its limits on sizes and
counts (`request.rs:17-36`) are left out, so `FollowUpIsAccepted` is about the shape of a
request and not about its size: a reasoning summary of more than 256 KiB, which the
decoder of Responses accepts, is refused by the code (`request.rs:605`). `ProviderTurns` is the loop: `stage` is where the task is, `delivered` counts
the attempts whose bytes reached the service. The service may send any record of its
protocol at any time, fail before or after the request was sent, be silent, or end a
body anywhere.

### Credentials

`file[k]` is a credential file, `mem[k]` the worker's copy, `sound[k]` whether they are
known to agree, `journal` the requests with their state and facts, `queue` and `work`
the worker. A change is prepared, dispatched, written and completed, and any of the
four may be the last before a crash. A caller that gives up leaves its message in the
queue and frees the dispatch lock. `spent` are the refresh grants sent to the token
endpoint. A crash is one of the process: what was renamed stays renamed. Two places
differ from the code without touching a property: the mutation that takes a credential
out for use does not repeat the recovery of the journal that a start has already made
(`target.rs:56`), and a lease of an OpenCode key asks that both files agree with their
copies, where the code asks it of the one file (`persistence/mod.rs:972`).

### Connection

Every look at a file of the control directory and every change of one is a step of its
own, since nothing but the host lock orders the processes; a client's probe takes that
lock for a moment. `srv[s].at` and `cl[c].at` are the positions in `ServerEndpoint`'s
start, the accept loop and the shutdown, and in `connect_or_start` and `discover`.
The proofs of the handshake always succeed; a peer may be gone, silent or of another
version. A client whose attempt to connect to a listening server times out tries again
until its deadline; that the code may also launch a companion then
(`lifecycle.rs:324`) is left out.

### Client

`c` is `AppState`, `SessionView` and `RuntimeState`; `evQ` and `subQ` are the two
channels of the `select!` loop, which is unbiased; `att` and `link` are the request
worker's. `server` is its durable logs: a session's log of entries, runs and commands,
the catalog's, and the receipts of mutations. A window is read as of a snapshot, which its
cursors carry (`Snapshot`): paging older or newer stays in it. A handler that returns
`UiStateError` ends the application, which `c.exit` records. Entries have one size, so the
byte budget of a window is its number of entries. The model list, the credential dialog,
image capture, selection and rendering are left out.

Simplified in places that no property depends on: deltas carry no sequence of their own
and belong to a run that is not over (`transcript.rs:233`, `subscriptions.rs:161`); a
delta does not refresh the tail (`runtime.rs:906`); a failed query for the models is not
counted (`runtime.rs:849`); a rename does not carry the archived flag and a stop does not
quit the client (`app.rs:785`, `runtime.rs:838`); while older history remains, paging up
asks for it and never stops following the tail within the window (`viewport.rs`); and a
request worker that lost its connection gets a new one when it asks (`requests.rs:523`),
the attempts that fail being those of `Disturb`.

## Runs

All runs say `CHECK_DEADLOCK FALSE`: the system may stop, when no client asks for
anything and when the bounded numbers of requests and starts are used up.

| Run | Instance | Checks |
|---|---|---|
| `LedgerFacts` | 1 run of 2 turns, a mutation or web call in the first, 5 entries, one aside: a command, a receipt, a steering queue or an archive request | the validators accept every state, the rebuild reproduces the projections, one thing at a time, the ledger implements `RunContract` |
| `SupervisorRun` | 1 run, 2 turns, 2 calls of any kind in one turn, 4 entries, 1 compaction, 3 starts, 1 storage failure | no transaction is refused but for want of room, or for a search's route whose policy was lifted; effects are journalled, the attempt of a search included; live runs, tasks and permits match (`RunsAreOwned`); what is served was recovered; the ledger's protocol is kept; cancelled runs end, shutdown completes |
| `Command` | 2 commands in 2 sessions, 2 permits, 2 starts, 1 storage failure | activation before execution, cancellation reaches the shell, cancelled commands end |
| `StreamDelivery` | 1 subscriber, 4 sequences, pages of 2, 1 archive or deletion, 1 restart | no lost wakeup; no committed event is skipped; streams catch up |
| `Steering` | 2 runs, 3 requests of 2 copies, 1 archive, 1 slot, 3 sends, 5 rows, 1 restart, symmetric | the queue is rebuildable, a retry is answered with its receipt |
| `Catalog` | 1 session, 1 rename, 2 archives, 1 unarchive, 2 deletions, 2 stops, 2 starts, 1 fault, symmetric | starts succeed, sessions are rebuildable, deletion is final, images have their files |
| `Provider` | every kind of model, 3 turns, 8 records an answer, 2 attempts, 1 compaction | answers are whole, a request is sent at most once, a follow-up is accepted, calls are answered |
| `Maintenance` | 3 runs, 6 entries, pressure at 5 and early work at 4, 1 `/compact`, 1 restart, shutdown, archive or change of settings | records are valid, nothing stops the server, a prefix is sent once |
| `Credentials` | 1 login, a removal and a key, 3 calls, 2 callback connections, 2 faults | restart reconciles, a grant is sent once, outcomes are true, a ready lease is current |
| `Client` | 2 sessions, 2 entries, windows of 1 that may hold 2, 3 keys, 1 fault, logs of 6 | streams in order never end the client, no hole in what is shown, a mutation happens once |
| `Connection` | 1 client with a companion, 1 server started by hand, 1 of an earlier time, 1 fault | the registration is the holder's, an error has a cause, the client decides |
| `ConcurrentStart` (violation) | that of `Connection` without faults | see Findings |

Why the bounds are enough. The second turn is the first one prepared from a context
the run itself extended; two sessions are the first whose work is concurrent; two
starts give a crash, its recovery and a crash of the recovery, three another one after
that. The entry bounds of `LedgerFacts` and of `SupervisorRun` are reached, and two
calls are the first batch that a stop can cut in two: the instance meets the
disagreements 1, 9 and 10 below, and its properties except them and nothing else. One
storage failure is enough to leave a run
without a task. Four sequences and pages of two give a full page, a rest and an event
committed while a page is written; subscribers share only what they do not change, so
one is enough. One slot makes the steering queue full at its first item, and three
requests are an enqueue, a change of it and one that competes. Two archives and an
unarchive are the first whose completions can change places; sessions share nothing
but the sequence and the worker. Three turns are the first with a continuation that is
carried over a compaction, and two calls the first batch with an inside. Three runs are
one to leave a background job, one to meet it and one to install it. Two faults in
`Credentials` are a failure and the crash after it. Three keys are opening, paging up
and paging down, with an input of another client between them. Two servers beside the earlier one are a companion
and a contender.

### Fairness

`FairSpec` (`FairStreamSpec` for the streams) assumes weak fairness of what the runtime does by itself: tokio polls
every ready task and handler; the loop of `main` sees a requested shutdown; the
drains of run tasks and connections are bounded by timeouts; a start runs to its
end; the shell's loop polls its handle every 10 ms. For streams it is strong fairness of each
stream's next step: the worker serves its queue in order, so a stream's read is not
starved by commits. In `Connection` every process is scheduled, and strong fairness of
`Expire` says that a deadline which is looked at again and again has passed at one of
the looks. Nothing is assumed of clients in the server's modules, of
providers and tools (their answers are `EnvironmentStep` and `TaskExecuted`), of
crashes, or of whoever starts the server. So `CancelledRunEnds` holds though the
provider never answers, because the task waits on its handle wherever it waits.
The other runs check safety only and state no fairness.

## Findings

`ConcurrentStart`: the process that created the control directory is the only one
that may create the key, but between its creation of the lock file and its `try_lock` a
client's probe or a contender may hold the lock; it exits, and nobody may create the
key any more. Every later start of the profile fails.

Disagreements met while modelling that have no run of their own; the properties named
are stated so that they except exactly these cases:

1. A run stopped inside a batch of tool calls leaves the later calls unsettled, and
   recovery refuses to settle the calls of a run that is no longer active
   (`tool_execution.rs:605`), so `Backend::open` fails at every start. ADR 0009:112 says
   that every committed call receives a result during recovery.
2. An archive request that timed out is completed after a newer one
   (`session_mutation.rs:284`); `sessions.archived` is then not what a rebuild derives
   (ADR 0003:62). Its catalog event has a sequence below the cursors of subscribers,
   who are woken and read nothing (`session_mutation.rs:272`, ADR 0003:120):
   `CommittedAreKnown` excepts events whose sequence was taken in advance.
3. A deletion that stays prepared is followed by an unarchive of its session;
   recovery refuses it at every start (`session_delete.rs:175`):
   `StartsUnlessDeletionStranded`.
4. A command accepted before shutdown and started after it took the set of tasks over
   is neither stopped nor joined (`command_supervisor.rs:55`, ADR 0012:73).
5. A command accepted by a session whose transcript is full cannot be completed
   (`local_command.rs:307`): the session stays busy and the next start fails.
6. A late cancellation of an ended run leaves a receipt, except for an uncertain run:
   its state is 7 and `schema_v3.sql:111` wants `result_state BETWEEN 1 AND 6`, so the
   transaction fails (`run_cancellation.rs:117`).
7. The client's cursors bind the snapshot of the window they came with. Entries that
   the stream appends to a window are not in that snapshot: paging up and down again
   shows a window without them, with no newer cursor and no mark of newer output
   (`app.rs:1071`, `run_queries.rs:149`), and later entries are appended behind the
   hole. ADR 0015 says that starting new work from a historical window is blocked,
   "avoiding a misleading disjoint display". The other way round, Home reads the oldest
   window of a snapshot that may be ahead of the stream: who pages down to its end before
   the stream has brought an entry sees a window that is not historical, behind whose
   last entry the stream then appends the earlier ones (`transcript.rs:112` pushes
   without a check of order), up to the window's limit. ADR 0051:48 says that commits
   "cannot append a disjoint suffix". `ShownHasNoGap` excepts these two cases.
8. Esc on a local command that the stream has already shown ended makes the answer
   ("already terminal", which `runtime.rs:800` has a status for) end the client
   (`app.rs:1356`); `InOrderNeverFails` allows it.
9. A transcript may fill up inside a batch of calls. `complete_provider_tool_turn`
   reserves the calls and the commentary (`tool_execution.rs:113-116`); the result of a
   call has no room when it is there (`:466-470`), `complete_tool_result` answers
   `ResourceLimit`, the task ends with an error that stops the server, and the next
   start is refused when recovery adds the same result. The answer of a last turn may
   meet the same bound. `NoTransactionRefused` and `RunsAreOwned` except a full
   transcript, `NoTransactionRefused` and `ServesRecoveredState` the calls of disagreement 1.
10. A web search reads the policy of data use in each of its transactions, and clients
   may change it in between. If it allows OpenAI and Exa when the call is marked
   dispatched, turns the search away from OpenAI when the binding is admitted, and allows
   it again when the search is dispatched, the route that was chosen for the second answer
   is refused by the third: `validate_route` answers `InvalidState`
   (`web_binding/attempts.rs:67`), which no error of the tool stands for
   (`web_search.rs:297`), so `execute_tool_calls` fails (`run_supervisor.rs:902`) and the
   server stops, although nothing failed. ADR 0043:21 says that a policy rejection fails
   "with fixed errors" and that failures of storage are what stops work.
   `NoTransactionRefused` excepts exactly this case (`ExaPolicyDenied` with a search that
   was never admitted), and `RunsAreOwned` the run it leaves; without the exception TLC
   finds it in the instance of `SupervisorRun`.

## What is proved

Two modules that do not interact may share a module of proofs; the names of each are its
own.

`LedgerProofs`, about `SessionLedger`, for every number of sessions, runs, commands,
archive requests, turns, calls and entries (assumptions: `SessionOfAssumption`,
`ToolKindsAssumption`, `BoundAssumption`):

- `TypeCorrect`: `LedgerSpec => []LedgerTypeOK`, one lemma per kind of step. The bound
  on the transcript is the part that needs the guards.
- `InvAlways`: the inductive invariant `LedgerInv`, the conjunction of `LedgerTypeOK`,
  `ActiveRunAgrees`, `SessionIsExclusive`, `CancellationPrevails`,
  `PendingOperationNeedsLiveRun` and `PendingOperationSeesTranscript`. None but the
  first two is inductive alone: acceptance of a command reads `activeRun`, so exclusion
  needs `ActiveRunAgrees`; that nobody moves the transcript under a pending operation
  needs that its run is live, that it is the only live run of its session and that no
  command is live beside it. The effect of each step on the run tables is factored
  out (`RunStepEffect` to `NextEffect`), and the conjuncts are proved from that.
- `ActiveRunTheorem`, `ExclusiveTheorem`, `CancellationTheorem`, `PendingTheorem`,
  `TranscriptTheorem`: the conjuncts as theorems of the specification.
- `Refinement`: `LedgerSpec => ImplementsContract`, with the mapping `Status`.
- `HistoryTheorem`: `TerminalRunsAreFinal`, an action property.

`LedgerProofs`, about `LedgerFacts`, for the same and any number of asides
(`FactsBoundAssumption`):

- `FactsTheorem`: `FactsInv`, the ledger and its rows together. Three parts are about
  rows: `RowsAreBacked` (what a row says is a fact of the ledger), `RowsFit` (of two rows
  one must precede the other where the code writes them so, some kinds exclude a second
  row, some disagree with each other: `MustPrecede`, `Exclusive`, `Conflicts`) and
  `RowsAreComplete` (every fact has its row: runs, operations, calls, tools, each place
  of the transcript, the source of each prepared operation, the counters). `FactsShape`
  says which facts an operation and a tool have together, which `LedgerInv` does not.
  The argument is the same for every transaction: what it writes is coherent
  (`Coherent`) and does not clash with what is there, it is backed afterwards, and
  nothing a row is about is ever taken back (`FactsKeep`).
- `ValidationTheorem`: `LedgerPassesValidation`. The validators look sets of rows up by
  kind; that a set has one member at most is `Exclusive`, its order `MustPrecede`, and that
  the transcript has no gap `TranscriptIsWhole`.
- `ProjectionsTheorem`: `ProjectionsAreRebuildable`.
- `FactsKeepLedger`: `FactsSpec => LedgerSpec`, so the theorems above hold of the ledger
  with its rows.

`CommandAndStreamProofs`, about `CommandService`, for any number of commands, sessions, permits, starts and
failed storage calls:

- `CommandInvAlways`: `CommandInv`, the inductive invariant. The properties are not
  inductive alone. `LiveCommandHasOwner` needs `EndedTasksSettled` (the task that goes
  has settled its command, or could not) and `TasksNeedProcess` (no task outlives its
  process but an orphaned shell, so a start finds none). `CommandPermitsMatchOwners`
  needs `HandlersPrecedeTasks` (the permit is handed over, never doubled).
  `CommandCancellationReachesShell` needs `TasksHaveHandles` (a signal finds a handle).
  One lemma per action or group of actions shows that it is kept.
- `CommandTypeAlways`, `LiveCommandAlwaysHasOwner`, `CommandPermitsNeverLeak`,
  `ShellAlwaysRunsActive`, `CommandCancellationNeverLost`: the properties, from it.

`CommandAndStreamProofs`, about `EventStream`, for any number of subscribers, events, requests and restarts and
any page size (assumption: `StreamBoundAssumption`):

- `StreamInvAlways`: `StreamInv`. `SleepersAreWoken` is not inductive: a stream between
  its empty read and its sleep must be covered too, and "the worker is about to notify"
  must say that the notification will change the version (`WillNotify`), for which the
  last event has to lie beyond the number in the channel unless it is forced. That a
  bounded set has a highest member comes from the well-foundedness of the naturals.
- `StreamTypeAlways`, `NoLostWakeup`: `StreamTypeOK` and `SleepersAreWoken`.
- `NoCommitIsSkipped`: `CommittedAreKnown`, from `PagesHaveNoGaps` (a page goes up from
  the cursor without gaps while events are committed behind it).

`RunSupervisorProofs`, for any number of sessions, runs, permits, turns, calls, entries,
compactions, starts and storage failures (`SupervisorBoundAssumption`; there is a turn
and a permit). It extends `LedgerProofs`, whose lemmas it cites:

- `SupervisorTheorem`: `SupervisorInv`. It adds to `LedgerInv` what the four properties
  need to be inductive. `StageAgrees` says for each position of `execute_run` what the
  ledger holds then: which operations were prepared (`TurnsAre`), that the k-th call of a
  batch is the next (`InBatch`), that the context is the one the task read. `Ownership`
  divides runs, permits and controls between handlers and tasks. `SearchesFollowDispatch`
  says that a search has rows only once its call was dispatched, so that the attempt of a
  fresh dispatch is never a repeated one. `CallsBetweenTurns` and
  `RecoveredSoFar` say what each stage of recovery has settled. One lemma per action; a
  frame says what a step of a task, of a handler, of startup or of shutdown leaves alone
  (`TaskMove`, `FromOutside`, `StartupMove`, `ShutdownMove`).
- `ProtocolTheorem`: `KeepsLedgerProtocol`. Every step of the server is one of
  `LedgerSpec`, so `ServerKeepsHistory` carries the theorems of the ledger over to the
  server: `TerminalRunsAreFinal`, the refinement of `RunContract` and `LedgerInv` hold
  through its crashes and recoveries.
- `RefusalTheorem`, `OwnershipTheorem`, `JournalTheorem`, `RecoveryTheorem`: the four
  invariants of `SupervisorRun`. The first goes through every transaction of a task, the
  four of a web search included: of all the checks that could refuse it, only the bound
  of the transcript and the route of disagreement 10 can.

`ClientAndConnectionProofs`, about `Connection`, for any number of clients, contending servers and faults
(`ConnectionAssumption`; a client is no server and has a companion of its own):

- `ConnectionTheorem`: `ConnectionInv`. A server keeps the host lock from `try_lock`
  until it ends, and with it what it made of the key, the endpoint and the registration
  (`ServerKeeps`); what a client has seen in one look stays true at its next unless some
  server published or ended in between (`ClientSaw`), which is what `Moved` and `Looked`
  say of the steps of the others.
- `RegistrationTheorem`, `ControlErrorTheorem`: the two invariants of the run.
  `OwnershipOfProfile` (one server at most is past the lock) and `KeyTheorem` (a whole
  key is never replaced nor removed, an action property) are only proved.

`ClientAndConnectionProofs`, about `Client`, for any number of sessions, keys, attempts,
reconnects and disturbances and any initial queries (`ClientAssumption`):

- `ClientTheorem`: `MutationHappensOnce`. The property counts receipts, which is not
  inductive: an identifier may be executed long after it was made. `IdsAreIssued` counts
  every identifier wherever it is: in a receipt, in the queue of the request worker, or
  kept by the application for a retry. Only `start_mutation` and its twin for credentials
  add one, and count it in `issued`; every other handler of the application keeps or
  drops identifiers (`Keeps`), and the worker and the server only move them.
- `WindowTheorem`: `ShownHasNoGap`. `WindowInv` says that a page has no hole, that each
  event of the stream that a handler may take is the next after the position of the view,
  and that an entry which is not appended, because the window is full or behind, marks the
  window historical.

`SteeringProofs`, for any number of runs, requests, copies, archives, places, sends and
starts (`SteeringAssumption`; `"none"` is no request):

- `SteeringTheorem`: `SteeringInv`. `HistoryIsValid` (what a start checks) is not
  inductive, since each mutation is written out of the queue and the pending messages
  and not out of the rows. So `QueueIsCurrent` says that target, pause and revision are
  those of the latest row, and `PendingIsCurrent` that a message is pending exactly when
  its rows leave it, with its last revision and text and a place of its own; with it,
  what is enqueued less what was removed is what is pending, and the capacity that was
  checked against the one bounds the other. `AppliedOnce` is what the receipts are for,
  and `RowsAreOwned` says to which run and message a row belongs.
- `RebuildableTheorem`: `QueueIsRebuildable`. The start gives the messages their rank as
  place; since places differ, ranks and places put them in the same order.
- `RetryTheorem`: `AcceptedRetryIsAnswered`, an action property.

`SessionCatalogProofs`, for any number of sessions, requests, stops, starts and faults
(`CatalogAssumption`; a request is of one kind):

- `CatalogTheorem`: `CatalogInv`. `RequestsHaveSession` (what is accepted about a session
  goes with it), `NamesAreLatest`, `SequencesAreValid` and `SignalsAreSingle` are what
  validation needs; `FilesHaveCause` says `ImagesArePaired` of every stage that follows
  the clearing of the files, and `WorkerFitsStage` who may be in the middle of a change
  then. That the oldest of some requests exists comes from the well-foundedness of the
  naturals.
- `StartTheorem`, `RebuildTheorem`, `DeletionTheorem`, `ImageTheorem`: the four
  invariants of the run.

`CredentialAndTurnProofs`, about `Credentials`, for any number of logins, changes, calls, connections and faults
(`RequestsAssumption`; a login sets the ChatGPT credential):

- The journal comes first, as a value: what `recover_credential_mutations` makes of a
  journal is settled, a second recovery has nothing to do, each of the four steps of a
  change leaves it reconcilable with the files before and after the write, and a change
  of tokens alone does not matter to it (`RecoveredShape` to `InstallSucceeds`).
- `CredentialsTheorem`: `CredInv`. `WorkFitsJournal` says what the file holds at each step
  of the change in work; `CopyIsFile` that a copy that is trusted is the file.
  `LeasesAreAlone` is what makes `ReadyLeaseIsCurrent` inductive: a lease owns its lock
  from its message on, and nothing behind that message concerns its credential, although
  messages whose callers gave up may be before it. `GrantsAreMarked` makes
  `RefreshIsSentOnce` inductive: the tokens of a grant that was used are gone from the
  file or marked in it, also where a replacement failed. `LoginsAreFresh` ties the one
  message of a login to the login that waits for it, or that ended uncertain.
- `ReconciliationTheorem`, `RefreshTheorem`, `OutcomeTheorem`, `LeaseTheorem`: the four
  invariants of the run.

`CredentialAndTurnProofs`, about `ProviderTurns`, for any kinds of model, turns, records,
attempts and compactions (`TurnsAssumption`):

- `TransmissionTheorem`: `TransmittedAtMostOnce`. `DeliveredFits` ties the count of what
  reached the service to the stage of the loop: an operation is counted from its dispatch
  on, nothing of it has been sent while an attempt is still to be made, and a stage after
  that never makes another.

`CompactionProofs`, for any number of runs, entries, settings changes, manual requests
and compactions and any thresholds (`ThresholdsAssumption`; a run may compact at least
once, as `MAX_COMPACTIONS` = 4 allows):

- `CompactionTheorem`: `CompactionInv`. `TranscriptInOrder` says that a run begins with
  the message of its user and that nothing of another run lies between its entries, and
  `ChainInOrder` that each checkpoint covers more than all before it, so that the latest
  by source is the one written last. `AttemptsDiffer` is the reason for
  `PrefixIsSentOnce`: the two journals never hold two attempts at a prefix, unless the
  job was given up unsent. `PlanHolds` is what makes it survive the foreground: between
  the plan of a run and its `prepare_auto_compaction` the background task has been
  drained, has nothing dispatched, and a task that starts again prepares nothing while
  the run is active (`MaintenanceIdle`), so the chain is the one the plan read and its
  prefix is still free. `TaskHasJob` ties the background task to a job of its own
  that no other step moves. A frame says what growth of the transcript, of the runs and
  of the chain leaves true of a job and of an operation (`JobKept`, `OperationKept`), and
  one lemma per action says that the rest is kept.
- `RecordsTheorem`, `NeverStopsTheorem`, `SentOnceTheorem`: the three invariants of the
  run.

Several properties are proved and no longer a property of a run, since a theorem says
more than the instance did.

Only model-checked:

- the liveness properties (`CancelledRunEnds`, `ShutdownCompletes`,
  `CancelledCommandEnds`, `EventsArrive`, `ClientDecides`): the prover has no fairness;
- `AnswerIsWhole`, `FollowUpIsAccepted` and `CallsAreAnswered`: the decoders and the
  requests select, flatten and fold sequences of any length, and what such a definition
  gives for every input needs induction over data;
- `InOrderNeverFails`: it relates the whole of the client's state to the server's log over
  two queues, a subscription and the worker. Its invariant would have to follow every
  entry, run and delta through each of them, and was not found;
- `ConcurrentStartLeavesRoot`, which the code violates.

## Not modelled, and the plan

Left out for good: rendering, selection and input editing in the client; byte framing,
HMAC proofs, file permissions and the Windows pipe; JSON syntax and prices of models;
file access of the tools, the shell's process group and the IPython kernel, which are
work of the operating system and of another process; SQL migrations, checks of single
columns and the import of an earlier installation; skills and project guidance, which
are functions of file contents; the image codec; logging and diagnostics; the
broadcasts without a sequence (deltas, compaction activity), but for the deltas of
`Client`.

What would come next: an inductive invariant for `InOrderNeverFails` of `Client`; a
composition of `RunSupervisor` and `CommandService` over one session; the lifecycle of
the IPython kernel as its client in `tools/ipython` drives it.

------------------------------- MODULE Client -------------------------------
(***************************************************************************)
(* The terminal client: AppState and SessionView (what is shown), the      *)
(* select loop of run_terminal_application with RuntimeState (what is      *)
(* awaited), the request worker and the two subscription tasks, against a  *)
(* server seen through its durable streams.                                *)
(*                                                                         *)
(* Answers reach the loop through one channel and durable events through   *)
(* another; select! is unbiased, so the loop takes them in either order.   *)
(* A handler that returns UiStateError ends the whole application, which   *)
(* `c.exit' records with the check that failed.                            *)
(*                                                                         *)
(* A cursor of a session is a position of its stream server.log[s]; a run, a  *)
(* command and a transcript entry are named by the position of the event   *)
(* that introduced them.                                                   *)
(***************************************************************************)
EXTENDS Naturals, Sequences, FiniteSets

CONSTANTS
  Sessions,         \* session identifiers
  Initial,          \* the sessions that exist when the client connects
  NoSession,             \* no session
  History,          \* transcript entries a session has at the start
  Window,           \* TRANSCRIPT_WINDOW_ENTRIES
  Held,             \* MAX_CLIENT_TRANSCRIPT_ENTRIES
  Capacity,         \* REQUEST_COMMAND_CAPACITY
  Attempts,         \* MAX_REQUEST_ATTEMPTS
  Reconnects,       \* MAX_RECONNECT_ATTEMPTS
  InitialQueries,   \* what enqueue_initial_queries sends
  RefreshCount,     \* the queries refresh_remaining counts
  MaxKeys,          \* bound: user actions
  MaxDisturbances,        \* bound: lost connections, timeouts, refused cursors, deletions and
                    \* inputs of another client, and partial answers
  MaxLog            \* bound: events of a session's stream

ASSUME ClientAssumption ==
  /\ Initial \subseteq Sessions /\ NoSession \notin Sessions
  /\ {History, Window, Held, Capacity, Attempts, Reconnects, RefreshCount} \subseteq Nat \ {0}
  /\ {MaxKeys, MaxDisturbances, MaxLog} \subseteq Nat /\ Window <= Held
  /\ InitialQueries \in Seq({"Sessions", "Status", "Default", "Settings", "Models"})

VARIABLES
  server,     \* the server: streams, catalog, receipts
  c,       \* the client's own state: AppState and RuntimeState
  evQ,     \* request events on their way to the loop
  subQ,    \* subscription events on their way to the loop
  att,     \* failed attempts at the command the worker serves
  link,    \* the worker's connection: ok, late (an answer is still due), bad
  keys, disturbances

clientVars == <<server, c, evQ, subQ, att, link, keys, disturbances>>

(***************************************************************************)
(* The server's durable streams.                                           *)
(***************************************************************************)
Terminal == {"Succeeded", "Cancelled"}

Ev(k, r, v) == [k |-> k, r |-> r, v |-> v]

EntriesIn(l) == {i \in 1..Len(l) : l[i].k = "entry"}

RunsIn(l) == {l[i].r : i \in {j \in 1..Len(l) : l[j].k = "run"}}

\* A run as load_run_at_sequence rebuilds it: its latest state fact.
StateIn(l, r) ==
  LET at == {i \in 1..Len(l) : l[i].k = "run" /\ l[i].r = r}
  IN  l[CHOOSE i \in at : \A j \in at : j <= i].v

\* active_run_id_at_sequence: the run with no terminal fact, or 0.
ActiveIn(l) ==
  LET live == {r \in RunsIn(l) : StateIn(l, r) \notin Terminal}
  IN  IF live = {} THEN 0 ELSE CHOOSE r \in live : TRUE

CommandIn(l) ==
  LET live == {i \in 1..Len(l) : l[i].k = "cmd"
                 /\ \A j \in 1..Len(l) : ~(l[j].k = "entry" /\ l[j].r = i)}
  IN  IF live = {} THEN 0 ELSE CHOOSE i \in live : TRUE

Idle(v, s) == ActiveIn(v.log[s]) = 0 /\ CommandIn(v.log[s]) = 0

\* The `n' last, or first, elements of a set of positions.
Tail_n(S, n) == {i \in S : Cardinality({j \in S : j > i}) < n}
Head_n(S, n) == {i \in S : Cardinality({j \in S : j < i}) < n}

\* The entries a window request gathers, page after page of one snapshot, in
\* the asked direction from the asked cursor.
Page(all, target, shown) ==
  CASE target = "Latest" -> Tail_n(all, Window)
    [] target = "Oldest" -> Head_n(all, Window)
    [] target = "Older"  -> Tail_n({i \in all : \A j \in shown : i < j}, Window)
    [] OTHER             -> Head_n({i \in all : \A j \in shown : i > j}, Window)

\* The cursor of a window names its snapshot: what comes before or after it is
\* read as of then, though the session has moved on.
Snapshot(v, m) == IF m.x \in {"Older", "Newer"} THEN m.snap ELSE Len(v.log[m.s])

\* A page names the runs of its entries and the active one, as of its snapshot.
RunsOfPage(l, ents) ==
  LET ids == ({l[i].r : i \in ents} \intersect RunsIn(l)) \union ({ActiveIn(l)} \ {0})
  IN  [r \in ids |-> StateIn(l, r)]

\* The active command and the summary are read as they are now.
WindowOf(v, m) ==
  LET n    == Snapshot(v, m)
      l    == SubSeq(v.log[m.s], 1, n)
      all  == EntriesIn(l)
      ents == Page(all, m.x, m.shown)
  IN  [s |-> m.s, cur |-> n, ents |-> ents,
       older |-> \E i \in all : \A j \in ents : i < j,
       newer |-> \E i \in all : \A j \in ents : i > j,
       runs |-> RunsOfPage(l, ents), act |-> ActiveIn(l),
       cmd |-> CommandIn(v.log[m.s]), archived |-> m.s \in v.archived]

(***************************************************************************)
(* What a request does.  A mutation first looks for its receipt, so that a *)
(* retry is answered and not applied again.                                *)
(***************************************************************************)
Mutations ==
  {"Create", "Rename", "Archive", "Delete", "Submit", "Exec", "CancelRun", "CancelCmd",
   "Set", "Stop", "Credential"}

Logged(v, s, es) == [v EXCEPT !.log[s] = @ \o es]

\* A catalog event carries the session's summary as the mutation left it.
Listed(v, k, s) ==
  [v EXCEPT !.catalog = Append(@, [k |-> k, s |-> s, archived |-> s \in v.archived])]

\* Whether the server admits a mutation that has no receipt yet.
Admitted(v, m) ==
  CASE m.op = "Create"  -> v.unborn # {}
    [] m.op = "Rename"  -> m.s \in v.live
    [] m.op = "Archive" -> m.s \in v.live /\ Idle(v, m.s)
    [] m.op = "Delete"  -> m.s \in v.live \intersect v.archived
    [] m.op \in {"Submit", "Exec"} ->
         m.s \in v.live \ v.archived /\ Idle(v, m.s) /\ Len(v.log[m.s]) + 2 <= MaxLog
    [] m.op \in {"CancelRun", "CancelCmd"} -> m.s \in v.live
    [] OTHER -> TRUE

Applied(v, m) ==
  LET l == IF m.s \in Sessions THEN v.log[m.s] ELSE <<>>
      n == Len(l)
  IN  CASE m.op = "Create" ->
             LET s == CHOOSE x \in v.unborn : TRUE
             IN  Listed([v EXCEPT !.live = @ \union {s}, !.unborn = @ \ {s}], "Created", s)
        [] m.op = "Rename"  -> Listed(v, "Changed", m.s)
        [] m.op = "Archive" ->
             Listed([v EXCEPT !.archived = IF m.x = "Archived" THEN @ \union {m.s}
                                           ELSE @ \ {m.s}], "Changed", m.s)
        [] m.op = "Delete"  -> Listed([v EXCEPT !.live = @ \ {m.s}], "Removed", m.s)
        [] m.op = "Submit"  ->
             Logged(v, m.s, <<Ev("entry", n + 2, "input"), Ev("run", n + 2, "Accepted")>>)
        [] m.op = "Exec"    -> Logged(v, m.s, <<Ev("cmd", n + 1, "Started")>>)
        [] m.op = "CancelRun" /\ StateIn(l, m.x) \notin Terminal
             /\ <<m.s, m.x>> \notin v.cancelled ->
             Logged([v EXCEPT !.cancelled = @ \union {<<m.s, m.x>>}], m.s,
                    <<Ev("run", m.x, StateIn(l, m.x))>>)
        [] OTHER -> v

\* The session, run or command an executed mutation names in its answer.
Subject(v, m) ==
  CASE m.op = "Create" -> CHOOSE x \in v.unborn : TRUE
    [] m.op = "Submit" -> Len(v.log[m.s]) + 2
    [] m.op = "Exec"   -> Len(v.log[m.s]) + 1
    [] OTHER           -> m.x

\* An answer is built from the state when it is given, which `at' and `cat'
\* record, and the client checks that it names what was asked for.
Answer(v, m, s, x, st) ==
  [t |-> m.op, id |-> m.id, x |-> x, s |-> s, v |-> st,
   at |-> IF s \in Sessions THEN Len(v.log[s]) ELSE 0, cat |-> Len(v.catalog)]

\* create_session, rename_session, set_session_archived and delete_session
CatalogAnswer(v, m, x) ==
  CASE m.op = "Create"  -> Answer(v, m, x, x, "Done")
    [] m.op = "Archive" -> Answer(v, m, m.s, x, m.x)
    [] OTHER            -> Answer(v, m, m.s, x, "Done")

\* submit_session_input and execute_local_command: a retried submission
\* reports the run's present state.
AcceptanceAnswer(v, m, x) ==
  Answer(v, m, m.s, x, IF m.op = "Submit" THEN StateIn(v.log[m.s], x) ELSE "Done")

\* cancel_run and cancel_local_command
CancellationAnswer(v, m, x) ==
  Answer(v, m, m.s, x, IF m.op = "CancelRun" THEN StateIn(v.log[m.s], x) ELSE "Done")

AnswerTo(v, m, x) ==
  CASE m.op \in {"Create", "Rename", "Archive", "Delete"} -> CatalogAnswer(v, m, x)
    [] m.op \in {"Submit", "Exec"} -> AcceptanceAnswer(v, m, x)
    [] m.op \in {"CancelRun", "CancelCmd"} -> CancellationAnswer(v, m, x)
    [] OTHER -> Answer(v, m, NoSession, x, "Done")

LatestOf(s) == [op |-> "Window", id |-> 0, s |-> s, x |-> "Latest", shown |-> {}, snap |-> 0]

Failed(m, why) == [t |-> why, id |-> m.id, s |-> m.s, x |-> m.op]

QueryAnswer(v, m) ==
  CASE m.op = "Sessions" -> [t |-> "Sessions", id |-> 0,
                             list |-> [s \in v.live |-> s \in v.archived], cat |-> Len(v.catalog)]
    [] m.op \in {"Load", "Window", "Context"} /\ m.s \notin v.live -> Failed(m, "QueryFailed")
    [] m.op = "Load" /\ m.s \in v.live ->
         [t |-> "Loaded", id |-> 0, w |-> WindowOf(v, LatestOf(m.s))]
    [] m.op = "Window" /\ m.s \in v.live ->
         [t |-> "Window", id |-> 0, x |-> m.x, w |-> WindowOf(v, m)]
    [] OTHER -> [t |-> m.op, id |-> 0, s |-> m.s]

\* A receipt is answered again unless the session has gone since.
ReceiptAnswer(v, m) ==
  IF m.s \in Sessions /\ m.s \notin v.live /\ m.op # "Delete" THEN Failed(m, "MutationFailed")
  ELSE AnswerTo(v, m, v.receipts[m.id])

Executed(v, m) ==
  IF m.op \notin Mutations THEN [server |-> v, ans |-> QueryAnswer(v, m)]
  ELSE IF m.id \in DOMAIN v.receipts
  THEN [server |-> v, ans |-> ReceiptAnswer(v, m)]
  ELSE IF ~Admitted(v, m) THEN [server |-> v, ans |-> Failed(m, "MutationFailed")]
  ELSE LET x == Subject(v, m)
           w == [Applied(v, m) EXCEPT !.receipts = [i \in DOMAIN @ \union {m.id} |->
                                          IF i = m.id THEN x ELSE @[i]]]
       IN  [server |-> w, ans |-> AnswerTo(w, m, x)]

(***************************************************************************)
(* AppState and SessionView.  `v' below is a view of one session.          *)
(***************************************************************************)
NoView == [s |-> NoSession]

NoCommand == [op |-> "None", id |-> 0, s |-> NoSession, x |-> 0]

Command(op, id, s, x) == [op |-> op, id |-> id, s |-> s, x |-> x]

Fail(k, why) == [k EXCEPT !.exit = why]

\* is_historical_window
Historical(v) == v.newer \/ v.deferred

\* valid_run_transition
ValidTransition(a, b) ==
  \/ a = "Accepted"
  \/ a = "Active" /\ b # "Accepted"
  \/ a = b

\* SessionView::new accepts the window it is given.
ValidWindow(w) ==
  /\ w.act # 0 => w.act \in DOMAIN w.runs /\ w.runs[w.act] \notin Terminal
  /\ w.act = 0 \/ w.cmd = 0

ViewOf(w) ==
  [s |-> w.s, cur |-> w.cur, ents |-> w.ents, older |-> w.older, newer |-> w.newer,
   runs |-> w.runs, act |-> w.act, cmd |-> w.cmd, archived |-> w.archived,
   deferred |-> FALSE, tail |-> FALSE, transient |-> 0, snap |-> w.cur, since |-> w.cur]

OpenSessionWindow(k, w) ==
  IF ~ValidWindow(w) THEN Fail(k, "Session")
  ELSE [k EXCEPT !.view = ViewOf(w), !.loading = FALSE, !.follows = TRUE]

CloseSession(k) ==
  [k EXCEPT !.view = NoView, !.pending = FALSE, !.unknown = FALSE, !.loading = FALSE,
            !.follows = TRUE]

\* A page other than the latest keeps what the live stream has told of the runs.
InstallTranscriptWindow(k, w, target) ==
  LET v == k.view
      ids == DOMAIN w.runs \union ({v.act} \ {0})
      merged == [w EXCEPT !.runs = [r \in ids |-> IF r \in DOMAIN v.runs THEN v.runs[r]
                                                  ELSE w.runs[r]],
                          !.act = v.act, !.cmd = v.cmd, !.cur = v.cur]
      win == [(IF target = "Latest" THEN w ELSE merged) EXCEPT !.archived = v.archived]
  IN  IF v.s # w.s \/ ~ValidWindow(win) THEN Fail(k, "Session")
      ELSE [k EXCEPT !.view = [ViewOf(win) EXCEPT
                                 !.deferred = target # "Latest" /\ v.deferred,
                                 !.snap = w.cur],
                     !.loading = FALSE, !.follows = target \in {"Latest", "Older"}]

\* The run, or the command, an entry belongs to.
Owner(s, e) == server.log[s][e].r

\* apply_run, on the open view
ApplyRun(k, s, r, st) ==
  LET v == k.view
      w == [v EXCEPT !.runs = [i \in DOMAIN @ \union {r} |-> IF i = r THEN st ELSE @[i]]]
      ended == [w EXCEPT !.act = IF @ = r THEN 0 ELSE @,
                         !.transient = IF @ = r THEN 0 ELSE @,
                         !.runs = IF Historical(v) /\ \A e \in v.ents : Owner(s, e) # r
                                  THEN [i \in DOMAIN @ \ {r} |-> @[i]] ELSE @]
  IN  IF v.s # s THEN Fail(k, "Session")
      ELSE IF r \in DOMAIN v.runs /\ ~ValidTransition(v.runs[r], st) THEN Fail(k, "Run")
      ELSE IF st \in Terminal THEN [k EXCEPT !.view = ended]
      ELSE IF v.act \notin {0, r} THEN Fail(k, "Run")
      ELSE [k EXCEPT !.view = [w EXCEPT !.act = r]]

\* What a committed entry ends: its command, and the partial answer it replaces.
Settled(v, e) ==
  LET o == server.log[v.s][e]
  IN  [v EXCEPT !.cmd = IF o.v = "command" /\ @ = o.r THEN 0 ELSE @,
                !.transient = IF o.v = "answer" /\ @ = o.r THEN 0 ELSE @]

\* Mutant: an entry that finds the window full is dropped without a trace.
ApplyEntry_Dropped(k, e) ==
  LET v == k.view
  IN  IF Historical(v) \/ (e \notin v.ents /\ Cardinality(v.ents) >= Held)
      THEN [k EXCEPT !.view = Settled(v, e)]
      ELSE [k EXCEPT !.view = [Settled(v, e) EXCEPT !.ents = @ \union {e}]]

\* append_transcript_entry and defer_transcript_entry
ApplyEntry(k, e) ==
  LET v == k.view
  IN  IF Historical(v) THEN [k EXCEPT !.view = [Settled(v, e) EXCEPT !.deferred = TRUE]]
      ELSE IF e \in v.ents THEN k
      ELSE IF Cardinality(v.ents) >= Held
      THEN [k EXCEPT !.view = [Settled(v, e) EXCEPT !.deferred = TRUE, !.tail = TRUE]]
      ELSE [k EXCEPT !.view = [Settled(v, e) EXCEPT !.ents = @ \union {e}]]

\* append_delta: only the active run has a partial answer.
ApplyDelta(k, r) ==
  IF Historical(k.view) THEN [k EXCEPT !.view.deferred = TRUE]
  ELSE IF k.view.act # r THEN Fail(k, "Run")
  ELSE [k EXCEPT !.view.transient = r]

\* apply_event for the events of a session's stream
ApplySessionEvent(k, s, e) ==
  IF k.view.s # s THEN Fail(k, "Session")
  ELSE LET o == server.log[s][e]
           d == CASE o.k = "entry" -> ApplyEntry(k, e)
                  [] o.k = "run"   ->
                       LET a == ApplyRun(k, s, o.r, o.v)
                       IN  IF a.exit # "None" \/ ~Historical(k.view) THEN a
                           ELSE [a EXCEPT !.view.deferred = TRUE]
                  [] OTHER         -> [k EXCEPT !.view.cmd = e]
       IN  [d EXCEPT !.view.cur = e]

\* session_deleted
SessionDeleted(k, s) ==
  LET j == [k EXCEPT !.list = [x \in DOMAIN @ \ {s} |-> @[x]]]
  IN  IF k.view.s = s THEN CloseSession(j) ELSE j

\* apply_event for the events of the catalog
ApplyCatalogEvent(k, o) ==
  IF o.k = "Created" THEN [k EXCEPT !.list = [x \in DOMAIN @ \union {o.s} |->
                                                IF x \in DOMAIN @ THEN @[x] ELSE FALSE]]
  ELSE IF o.k = "Removed" THEN SessionDeleted(k, o.s)
  ELSE IF o.s \notin DOMAIN k.list THEN Fail(k, "List")
  ELSE LET j == [k EXCEPT !.list[o.s] = o.archived]
                IN  IF k.view.s = o.s THEN [j EXCEPT !.view.archived = o.archived] ELSE j

(***************************************************************************)
(* RuntimeState.                                                           *)
(***************************************************************************)
\* try_send: a full queue is taken for a dead worker.  The head of `q' is the
\* command the worker has already received.
Send(k, m) ==
  IF k.exit # "None" THEN k
  ELSE IF Len(k.q) > Capacity THEN Fail(k, "Queue")
  ELSE [k EXCEPT !.q = Append(@, m)]

Query(op, s) == Command(op, 0, s, 0)

\* enqueue_initial_queries: what the queue has room for, up to the one it refuses.
EnqueueInitialQueries(k) ==
  LET room == Capacity + 1 - Len(k.q)
      sent == [i \in {j \in DOMAIN InitialQueries : j <= room} |->
                Query(InitialQueries[i], NoSession)]
  IN  [k EXCEPT !.q = @ \o sent, !.exit = IF room < Len(InitialQueries) THEN "Queue" ELSE @]

\* start_mutation: one mutation at a time, kept for an exact retry.
StartMutation(k, m) ==
  IF k.cmd # NoCommand \/ k.cred # 0 THEN k
  ELSE LET j == Send(k, m)
       IN  IF j.exit # "None" THEN j
           ELSE [j EXCEPT !.cmd = m, !.pending = TRUE, !.unknown = FALSE, !.issued = @ + 1]

\* start_credential_mutation: never kept, never silently dropped.
StartCredentialMutation(k, m) ==
  IF k.cmd # NoCommand \/ k.cred # 0 THEN Fail(k, "Busy")
  ELSE LET j == Send(k, m)
       IN  IF j.exit # "None" THEN j
           ELSE [j EXCEPT !.cred = m.id, !.pending = TRUE, !.unknown = FALSE,
                          !.issued = @ + 1]

\* finish_mutation and finish_credential_mutation
FinishMutation(k, id) ==
  IF k.cmd.id # id THEN Fail(k, "Answer")
  ELSE [k EXCEPT !.cmd = NoCommand, !.pending = FALSE, !.unknown = FALSE]

FinishCredentialMutation(k, id) ==
  IF k.cred # id THEN Fail(k, "Answer")
  ELSE [k EXCEPT !.cred = 0, !.pending = FALSE, !.unknown = FALSE]

NoTask == [s |-> NoSession, cur |-> 0, gen |-> 0, fails |-> 0]

\* Mutant: the new task keeps the generation of the one it replaces.
Resubscribe_SameGeneration(k, w) ==
  IF k.exit # "None" THEN k
  ELSE [k EXCEPT !.sub = [s |-> w.s, cur |-> w.cur, gen |-> k.gen, fails |-> 0]]

\* spawn_session_subscription from a snapshot, after the old task is aborted
Resubscribe(k, w) ==
  IF k.exit # "None" THEN k
  ELSE [k EXCEPT !.gen = @ + 1,
                 !.sub = [s |-> w.s, cur |-> w.cur, gen |-> k.gen + 1, fails |-> 0]]

Detach(k) == [k EXCEPT !.requested = NoSession, !.gen = @ + 1, !.sub = NoTask]

LoadRequested(k, s) ==
  LET j == [k EXCEPT !.requested = s]
  IN  Send(IF k.refresh = 0 THEN Send(j, Query("Default", NoSession)) ELSE j, Query("Load", s))

RefreshDone(k) == [k EXCEPT !.refresh = IF @ = 0 THEN 0 ELSE @ - 1]

\* transcript_window_load_failed
PageFailed(k) == [k EXCEPT !.loading = FALSE]

\* handle_request_event for the answers to queries
HandleQueryAnswer(k, a) ==
  CASE a.t = "Sessions" ->
         [RefreshDone(k) EXCEPT !.list = a.list, !.catCur = a.cat,
                                !.cat = [s |-> NoSession, cur |-> a.cat, gen |-> 0, fails |-> 0]]
    [] a.t = "Loaded" ->
         IF k.requested # a.w.s THEN k ELSE Resubscribe(OpenSessionWindow(k, a.w), a.w)
    [] a.t = "Window" ->
         IF k.requested # a.w.s THEN k
         ELSE LET j == InstallTranscriptWindow(k, a.w, a.x)
              IN  IF a.x = "Latest" THEN Resubscribe(j, a.w) ELSE j
    [] a.t = "Context" -> IF k.view.s # a.s THEN Fail(k, "Session") ELSE k
    [] a.t = "QueryFailed" ->
         LET j == IF a.x \in {"Sessions", "Default", "Status"} THEN RefreshDone(k) ELSE k
         IN  IF a.x = "Window" THEN PageFailed(j) ELSE j
    [] OTHER -> RefreshDone(k)

\* handle_request_event for the answers to mutations
HandleMutationAnswer(k, a) ==
  LET f == FinishMutation(k, a.id)
      changed == [k |-> "Changed", s |-> a.s, archived |-> a.v = "Archived"]
  IN  IF a.t = "MutationUnknown" THEN
             IF k.cmd.id # a.id THEN Fail(k, "Answer") ELSE [k EXCEPT !.unknown = k.pending]
      ELSE IF a.t = "MutationFailed" THEN f
      ELSE IF a.t \in {"Credential", "CredentialFailed"} THEN
             LET g == FinishCredentialMutation(k, a.id)
             IN  IF a.t = "Credential" THEN g ELSE Send(g, Query("Status", NoSession))
      ELSE IF f.exit # "None" THEN f
      ELSE IF a.t = "Create" THEN
             LoadRequested(ApplyCatalogEvent(f, [k |-> "Created", s |-> a.s]), a.s)
      ELSE IF a.t = "Rename" THEN
             ApplyCatalogEvent(f, IF a.s \in DOMAIN f.list
                                  THEN [changed EXCEPT !.archived = f.list[a.s]] ELSE changed)
      ELSE IF a.t = "Archive" THEN ApplyCatalogEvent(f, changed)
      ELSE IF a.t = "Delete" THEN
             SessionDeleted(IF k.requested = a.s THEN Detach(f) ELSE f, a.s)
      ELSE IF a.t = "Submit" THEN ApplyRun([f EXCEPT !.follows = TRUE], a.s, a.x, a.v)
      ELSE IF a.t = "Exec" THEN
             IF f.view.s # a.s THEN Fail(f, "Session")
             ELSE [f EXCEPT !.follows = TRUE,
                            !.view.cmd = IF \E e \in f.view.ents : Owner(a.s, e) = a.x
                                         THEN @ ELSE a.x]
      ELSE IF a.t = "CancelRun" THEN
             IF f.view.s # a.s THEN Fail(f, "Session")
             ELSE IF a.x \notin DOMAIN f.view.runs THEN Fail(f, "Run")
             ELSE LET j == [f EXCEPT !.view.runs[a.x] = a.v]
                  IN  IF a.v \in Terminal /\ f.view.act = a.x
                      THEN [j EXCEPT !.view.act = 0, !.view.transient = 0] ELSE j
      ELSE IF a.t = "CancelCmd" THEN
             IF f.view.s # a.s \/ f.view.cmd # a.x THEN Fail(f, "Command") ELSE f
      ELSE IF a.t = "Stop" THEN Fail(f, "Quit")
      ELSE f

\* handle_subscription_event
HandleSubscriptionEvent(k, e) ==
  CASE e.t = "Catalog" ->
         [ApplyCatalogEvent(IF e.k = "Removed" /\ k.requested = e.s THEN Detach(k) ELSE k, e)
            EXCEPT !.catCur = e.at]
    [] e.t = "Session" /\ e.gen = k.gen ->
         LET j == ApplySessionEvent(k, e.s, e.at)
         IN  IF j.exit = "None" /\ j.view.tail /\ j.follows /\ ~j.loading
             THEN Send([j EXCEPT !.loading = TRUE],
                       LatestOf(j.view.s))
             ELSE j
    [] e.t = "Delta" /\ e.gen = k.gen ->
         IF k.view.s # e.s THEN Fail(k, "Session") ELSE ApplyDelta(k, e.r)
    [] e.t = "CatalogSnapshotRequired" -> Send(k, Query("Sessions", NoSession))
    [] e.t = "SessionSnapshotRequired" /\ e.gen = k.gen /\ k.requested = e.s ->
         Send(k, Query("Load", e.s))
    [] e.t = "SessionFailed" /\ k.view # NoView -> [k EXCEPT !.view.transient = 0]
    [] OTHER -> k

(***************************************************************************)
(* Keys.  A mutation takes the number of the key press as its identifier.  *)
(***************************************************************************)
Press(k) ==
  /\ c.exit = "None" /\ keys < MaxKeys
  /\ keys' = keys + 1
  /\ c' = k
  /\ UNCHANGED <<server, evQ, subQ, att, link, disturbances>>

Fresh(op, s, x) == Command(op, keys + 1, s, x)

\* Keys of the session list, and of a session, that need no pending mutation.
InList == c.view = NoView /\ ~c.unknown
InSession == c.view # NoView /\ ~c.unknown

KeyOpen(s) == InList /\ s \in DOMAIN c.list /\ Press(LoadRequested(c, s))

KeyCreate == InList /\ ~c.pending /\ Press(StartMutation(c, Fresh("Create", NoSession, 0)))

KeyRename(s) ==
  InList /\ ~c.pending /\ s \in DOMAIN c.list /\ Press(StartMutation(c, Fresh("Rename", s, 0)))

KeyArchive(s) ==
  /\ InList /\ ~c.pending /\ s \in DOMAIN c.list
  /\ Press(StartMutation(c, Fresh("Archive", s, IF c.list[s] THEN "Unarchived" ELSE "Archived")))

KeyDelete(s) ==
  /\ InList /\ ~c.pending /\ s \in DOMAIN c.list /\ c.list[s]
  /\ Press(StartMutation(c, Fresh("Delete", s, 0)))

KeyClose == InSession /\ ~c.pending /\ Press(CloseSession(Detach(c)))

KeyRefresh ==
  /\ ~c.unknown
  /\ Press(IF c.refresh # 0 THEN c
           ELSE LET k == EnqueueInitialQueries([c EXCEPT !.refresh = RefreshCount])
                IN  IF c.requested = NoSession THEN k ELSE Send(k, Query("Load", c.requested)))

\* The runtime drops a page request for a session it no longer follows.
Navigate(target) ==
  LET j == [c EXCEPT !.loading = TRUE]
  IN  IF c.requested # c.view.s THEN j
      ELSE Send(j, [op |-> "Window", id |-> 0, s |-> c.view.s, x |-> target,
                    shown |-> c.view.ents, snap |-> c.view.snap])

\* PageUp and Home: at the top of the window they ask for older history.
KeyUp(target) ==
  /\ InSession /\ ~(c.loading /\ c.view.older) /\ target \in {"Older", "Oldest"}
  /\ Press(IF c.view.older THEN Navigate(target) ELSE [c EXCEPT !.follows = FALSE])

\* PageDown and End: at the bottom of the window they ask for newer history.
KeyDown(target) ==
  /\ InSession /\ ~(c.loading /\ Historical(c.view)) /\ target \in {"Newer", "Latest"}
  /\ Press(IF ~Historical(c.view) THEN [c EXCEPT !.follows = TRUE]
           ELSE Navigate(IF c.view.newer THEN target ELSE "Latest"))

\* submit_action
KeySubmit(op) ==
  /\ InSession /\ ~c.pending /\ ~c.loading
  /\ ~Historical(c.view) /\ ~c.view.archived /\ c.view.act = 0 /\ c.view.cmd = 0
  /\ Press(StartMutation(c, Fresh(op, c.view.s, 0)))

KeyContext ==
  InSession /\ ~c.pending /\ ~c.loading /\ Press(Send(c, Query("Context", c.view.s)))

KeyCancel ==
  /\ InSession /\ ~c.pending /\ (c.view.act # 0 \/ c.view.cmd # 0)
  /\ Press(StartMutation(c, IF c.view.act # 0 THEN Fresh("CancelRun", c.view.s, c.view.act)
                            ELSE Fresh("CancelCmd", c.view.s, c.view.cmd)))

\* The model selector, /settings and Ctrl+S.
KeySet(op) == ~c.unknown /\ ~c.pending /\ Press(StartMutation(c, Fresh(op, NoSession, 0)))

KeyCredential ==
  ~c.unknown /\ ~c.pending /\ Press(StartCredentialMutation(c, Fresh("Credential", NoSession, 0)))

\* Mutant: the retry is a new request.
Retried_NewIdentifier(k) ==
  LET m == [k.cmd EXCEPT !.id = keys + 1]
  IN  Send([k EXCEPT !.unknown = FALSE, !.cmd = m], m)

\* RetryPending sends the very command that is kept.
Retried(k) == Send([k EXCEPT !.unknown = FALSE], k.cmd)

KeyRetry == c.unknown /\ Press(IF c.cmd = NoCommand THEN Fail(c, "Queue") ELSE Retried(c))

KeyAbandon ==
  c.unknown /\ Press([c EXCEPT !.cmd = NoCommand, !.pending = FALSE, !.unknown = FALSE])

(***************************************************************************)
(* The loop takes an event.  `shuffled' and `relisted' remember that an    *)
(* answer was applied to a view, or to the list, that the streams had      *)
(* brought to another position than the one the answer speaks of.          *)
(***************************************************************************)
AnswerMeetsView(a) == a.s = c.view.s /\ a.at = c.view.cur

Noted(a) ==
  IF a.t = "Context" THEN [c EXCEPT !.shuffled = @ \/ a.s # c.view.s]
  ELSE IF a.t = "Window"
  THEN [c EXCEPT !.shuffled = @ \/ a.w.s # c.view.s
                                \/ (a.x # "Latest" /\ a.w.cur > c.view.cur)]
  ELSE IF a.t \in {"Submit", "Exec", "CancelRun", "CancelCmd"}
  THEN [c EXCEPT !.shuffled = @ \/ ~AnswerMeetsView(a)
                                \/ (a.t = "CancelRun" /\ a.x # c.view.act)]
  ELSE IF a.t \in {"Create", "Rename", "Archive", "Delete"}
  THEN [c EXCEPT !.relisted = @ \/ a.cat # c.catCur]
  ELSE IF a.t = "Sessions" /\ c.catCur # a.cat THEN [c EXCEPT !.relisted = TRUE]
  ELSE IF a.t = "Loaded" /\ c.requested = a.w.s THEN [c EXCEPT !.shuffled = FALSE]
  ELSE c

TakeRequestEvent ==
  /\ c.exit = "None" /\ evQ # <<>>
  /\ LET a == Head(evQ)
     IN  c' = IF a.id = 0 THEN HandleQueryAnswer(Noted(a), a)
              ELSE HandleMutationAnswer(Noted(a), a)
  /\ evQ' = Tail(evQ)
  /\ UNCHANGED <<server, subQ, att, link, keys, disturbances>>

TakeSubscriptionEvent ==
  /\ c.exit = "None" /\ subQ # <<>>
  /\ c' = HandleSubscriptionEvent(c, Head(subQ))
  /\ subQ' = Tail(subQ)
  /\ UNCHANGED <<server, evQ, att, link, keys, disturbances>>

(***************************************************************************)
(* run_request_worker.  The head of c.q is the command being served.       *)
(***************************************************************************)
WorkerServes == c.exit = "None" /\ c.q # <<>>

Served == c' = [c EXCEPT !.q = Tail(@)] /\ att' = 0

\* failure_event
FailureEvent(m) ==
  IF m.op = "Credential" THEN Failed(m, "CredentialFailed")
  ELSE IF m.op \in Mutations THEN Failed(m, "MutationUnknown")
  ELSE Failed(m, "QueryFailed")

WorkerAnswers ==
  /\ WorkerServes /\ link = "ok"
  /\ LET x == Executed(server, Head(c.q))
     IN  /\ server' = x.server
         /\ evQ' = Append(evQ, IF Head(c.q).op = "Credential" /\ x.ans.t = "MutationFailed"
                               THEN Failed(Head(c.q), "CredentialFailed") ELSE x.ans)
  /\ Served
  /\ UNCHANGED <<subQ, link, keys, disturbances>>

\* An attempt fails after the server did, or did not, execute the request.
\* Only a credential mutation is given up at once, and its connection with it.
AttemptFails(m, left, reconnected) ==
  LET last == m.op = "Credential" \/ att + 1 = Attempts
  IN  /\ IF last THEN /\ evQ' = Append(evQ, FailureEvent(m))
                      /\ Served
                 ELSE att' = att + 1 /\ UNCHANGED <<evQ, c>>
      /\ link' = IF m.op = "Credential" THEN "bad"
                 ELSE IF ~last /\ reconnected THEN "ok" ELSE left
      /\ UNCHANGED <<subQ, keys>>

\* The request, or its answer, is lost: a timeout leaves the answer due.
WorkerLoses ==
  /\ WorkerServes /\ link = "ok" /\ disturbances < MaxDisturbances
  /\ \E executed, reconnected \in BOOLEAN, left \in {"late", "bad"} :
       /\ server' = IF executed THEN Executed(server, Head(c.q)).server ELSE server
       /\ AttemptFails(Head(c.q), left, reconnected)
  /\ disturbances' = disturbances + 1

\* ConnectionUnusable: nothing is sent.
WorkerUnusable ==
  /\ WorkerServes /\ link = "bad"
  /\ AttemptFails(Head(c.q), "bad", TRUE)
  /\ UNCHANGED <<server, disturbances>>

\* The answer that was due is read in place of this one: a mismatch is an
\* unknown outcome, and is not retried by the worker.
WorkerMismatch ==
  /\ WorkerServes /\ link = "late"
  /\ server' = Executed(server, Head(c.q)).server
  /\ evQ' = Append(evQ, FailureEvent(Head(c.q)))
  /\ link' = "bad"
  /\ Served
  /\ UNCHANGED <<subQ, keys, disturbances>>

(***************************************************************************)
(* run_session_subscription and run_catalog_subscription.                  *)
(***************************************************************************)
Notify(e) == subQ' = Append(subQ, e)

StreamFrame == UNCHANGED <<server, evQ, att, link, keys>>

Following == c.exit = "None" /\ c.sub # NoTask

\* read_session_events: the event after a cursor.
EventAfter(task) == [t |-> "Session", gen |-> task.gen, s |-> task.s, at |-> task.cur + 1]

\* validate_event and advance_cursor: of the right session, after the cursor.
Advanced(task, e) == IF e.s = task.s /\ e.at > task.cur THEN [task EXCEPT !.cur = e.at] ELSE NoTask

SubscriptionDelivers ==
  /\ Following /\ c.sub.fails = 0 /\ c.sub.s \in server.live
  /\ c.sub.cur < Len(server.log[c.sub.s])
  /\ Notify(EventAfter(c.sub))
  /\ c' = [c EXCEPT !.sub = Advanced(c.sub, EventAfter(c.sub))]
  /\ StreamFrame /\ UNCHANGED disturbances

\* A live subscriber that has caught up is sent the partial answer.
SubscriptionDelta ==
  /\ Following /\ c.sub.fails = 0 /\ c.sub.s \in server.live /\ disturbances < MaxDisturbances
  /\ LET l == server.log[c.sub.s]
     IN  /\ c.sub.cur = Len(l) /\ ActiveIn(l) # 0
         /\ StateIn(l, ActiveIn(l)) = "Active"
         /\ Notify([t |-> "Delta", gen |-> c.sub.gen, s |-> c.sub.s, r |-> ActiveIn(l)])
  /\ disturbances' = disturbances + 1
  /\ StreamFrame /\ UNCHANGED c

\* The connection is lost, or cannot be made again: reported once, then
\* retried up to the limit from the last cursor received.
SubscriptionLost ==
  /\ Following /\ disturbances < MaxDisturbances
  /\ IF c.sub.fails + 1 >= Reconnects
     THEN Notify([t |-> "SessionFailed"]) /\ c' = [c EXCEPT !.sub = NoTask]
     ELSE /\ subQ' = IF c.sub.fails = 0
                     THEN Append(subQ, [t |-> "SessionLost", gen |-> c.sub.gen]) ELSE subQ
          /\ c' = [c EXCEPT !.sub.fails = @ + 1]
  /\ disturbances' = disturbances + 1
  /\ StreamFrame

SubscriptionRestored ==
  /\ Following /\ c.sub.fails > 0 /\ c.sub.s \in server.live
  /\ c' = [c EXCEPT !.sub.fails = 0]
  /\ StreamFrame /\ UNCHANGED <<subQ, disturbances>>

\* The server refuses the cursor, or ends the stream of a deleted session.
SubscriptionRefused ==
  /\ Following
  /\ \/ c.sub.s \notin server.live /\ UNCHANGED disturbances
     \/ /\ c.sub.s \in server.live /\ disturbances < MaxDisturbances
        /\ disturbances' = disturbances + 1
  /\ Notify([t |-> "SessionSnapshotRequired", gen |-> c.sub.gen, s |-> c.sub.s])
  /\ c' = [c EXCEPT !.sub = NoTask]
  /\ StreamFrame

\* No catalog event carries a generation: what an aborted task has sent stays.
CatalogDelivers ==
  /\ c.exit = "None" /\ c.cat # NoTask /\ c.cat.cur < Len(server.catalog)
  /\ LET n == c.cat.cur + 1
         o == server.catalog[n]
     IN  /\ Notify([t |-> "Catalog", k |-> o.k, s |-> o.s, at |-> n, archived |-> o.archived])
         /\ c' = [c EXCEPT !.cat.cur = n]
  /\ StreamFrame /\ UNCHANGED disturbances

CatalogRefused ==
  /\ c.exit = "None" /\ c.cat # NoTask /\ disturbances < MaxDisturbances
  /\ Notify([t |-> "CatalogSnapshotRequired"])
  /\ c' = [c EXCEPT !.cat = NoTask]
  /\ disturbances' = disturbances + 1
  /\ StreamFrame

(***************************************************************************)
(* The server's own work, and another client's.                            *)
(***************************************************************************)
ServerStep(v) ==
  c.exit = "None" /\ server' = v /\ UNCHANGED <<c, evQ, subQ, att, link, keys>>

RunStarts(s) ==
  LET l == server.log[s] r == ActiveIn(l)
  IN  /\ s \in server.live /\ r # 0 /\ StateIn(l, r) = "Accepted"
      /\ ServerStep(Logged(server, s, <<Ev("run", r, "Active")>>)) /\ UNCHANGED disturbances

RunEnds(s) ==
  LET l == server.log[s] r == ActiveIn(l)
      end == IF <<s, r>> \in server.cancelled THEN "Cancelled" ELSE "Succeeded"
  IN  /\ s \in server.live /\ r # 0 /\ (StateIn(l, r) = "Active" \/ end = "Cancelled")
      /\ ServerStep(Logged(server, s, IF end = "Cancelled" THEN <<Ev("run", r, end)>>
                                   ELSE <<Ev("entry", r, "answer"), Ev("run", r, end)>>))
      /\ UNCHANGED disturbances

CommandEnds(s) ==
  LET i == CommandIn(server.log[s])
  IN  /\ s \in server.live /\ i # 0
      /\ ServerStep(Logged(server, s, <<Ev("entry", i, "command")>>)) /\ UNCHANGED disturbances

OtherDeletes(s) ==
  /\ s \in server.live /\ Idle(server, s) /\ disturbances < MaxDisturbances
  /\ disturbances' = disturbances + 1
  /\ ServerStep(Listed([server EXCEPT !.live = @ \ {s}], "Removed", s))

OtherSubmits(s) ==
  LET m == Command("Submit", 0, s, 0)
  IN  /\ Admitted(server, m) /\ disturbances < MaxDisturbances
      /\ disturbances' = disturbances + 1
      /\ ServerStep(Applied(server, m))

(***************************************************************************)
(* The specification.                                                      *)
(***************************************************************************)
ClientInit ==
  /\ server = [log |-> [s \in Sessions |-> IF s \in Initial
                                        THEN [i \in 1..History |-> Ev("entry", 0, "history")]
                                        ELSE <<>>],
            catalog |-> <<>>, live |-> Initial, unborn |-> Sessions \ Initial,
            archived |-> {}, cancelled |-> {}, receipts |-> <<>>]
  /\ c = [view |-> NoView, list |-> <<>>, catCur |-> 0, loading |-> FALSE, follows |-> TRUE,
          pending |-> FALSE, unknown |-> FALSE, cmd |-> NoCommand, cred |-> 0,
          requested |-> NoSession, gen |-> 0, refresh |-> RefreshCount, sub |-> NoTask,
          cat |-> NoTask, exit |-> "None", issued |-> 0, shuffled |-> FALSE,
          relisted |-> FALSE,
          q |-> [i \in 1..Len(InitialQueries) |-> Query(InitialQueries[i], NoSession)]]
  /\ evQ = <<>> /\ subQ = <<>> /\ att = 0 /\ link = "ok"
  /\ keys = 0 /\ disturbances = 0

User ==
  \/ \E s \in Sessions : KeyOpen(s) \/ KeyRename(s) \/ KeyArchive(s) \/ KeyDelete(s)
  \/ KeyCreate \/ KeyClose \/ KeyRefresh \/ KeyContext \/ KeyCancel
  \/ \E d \in {"Older", "Oldest"} : KeyUp(d)
  \/ \E d \in {"Newer", "Latest"} : KeyDown(d)
  \/ \E op \in {"Submit", "Exec"} : KeySubmit(op)
  \/ \E op \in {"Set", "Stop"} : KeySet(op)
  \/ KeyCredential \/ KeyRetry \/ KeyAbandon

Loop == TakeRequestEvent \/ TakeSubscriptionEvent

Worker == WorkerAnswers \/ WorkerLoses \/ WorkerUnusable \/ WorkerMismatch

Subscriptions ==
  \/ SubscriptionDelivers \/ SubscriptionDelta \/ SubscriptionLost \/ SubscriptionRestored
  \/ SubscriptionRefused \/ CatalogDelivers \/ CatalogRefused

Server ==
  \E s \in Sessions : RunStarts(s) \/ RunEnds(s) \/ CommandEnds(s) \/ OtherDeletes(s)
                      \/ OtherSubmits(s)

ClientNext == User \/ Loop \/ Worker \/ Subscriptions \/ Server

ClientSpec == ClientInit /\ [][ClientNext]_clientVars

(***************************************************************************)
(* Properties.                                                             *)
(***************************************************************************)
\* Whatever is lost, retried or abandoned, an answer that reaches the loop is for the
\* mutation it still holds (require_pending_mutation never refuses), and a check of
\* the state ends the client only after an answer met a view, or a list, that the
\* streams had brought elsewhere: a snapshot with the events after its cursor, over
\* reconnects, replacements and page loads, is always consistent.  (The answer to a
\* cancelled command may end it: local_command_cancellation_resolved.)
InOrderNeverFails ==
  /\ c.exit # "Answer"
  /\ c.exit \in {"Session", "Run"} => c.shuffled
  /\ c.exit = "List" => c.relisted

\* What is shown of a transcript has no hole, and a window that is not marked
\* historical shows every entry up to the position the stream has brought it to.
\* Excepted are the entries that the stream brought to an earlier window after the
\* snapshot in whose pages the user moves: paging back down does not bring them back;
\* and pages of a snapshot that is ahead of the stream: at its end the stream appends
\* what it brings late behind what is shown.
ShownHasNoGap ==
  c.view # NoView /\ c.view.snap <= c.view.since =>
    LET v == c.view
        missed == {i \in EntriesIn(server.log[v.s]) \ v.ents :
                     (i <= v.snap \/ i > v.since) /\ \E a \in v.ents : a < i}
    IN  \A i \in missed : (\A b \in v.ents : b < i) /\ (Historical(v) \/ i > v.cur)

\* However often a request is retried, what the user asked for once happens once.
MutationHappensOnce == Cardinality(DOMAIN server.receipts) <= c.issued
=============================================================================

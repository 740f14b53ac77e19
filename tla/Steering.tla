------------------------------- MODULE Steering -------------------------------
(***************************************************************************)
(* The steering queue of one session: messages a client queues for a run.  *)
(* persistence/backend/steering*.rs keep it in two forms, the canonical    *)
(* rows (mutation requests and lifecycle facts, ordered by the sequence    *)
(* they took) and the projections made from them (steering_queues and      *)
(* steering_pending_messages).  A start validates the rows, rebuilds the   *)
(* projections and validates both again; it fails when they disagree.      *)
(*                                                                         *)
(* history holds the rows the validators read, in sequence order: an index *)
(* is a sequence.  An item and a text are named by the request that wrote  *)
(* them.  Delivery facts are read by the code and written by none of it,   *)
(* so there are none.                                                      *)
(***************************************************************************)
EXTENDS Integers, FiniteSets, Sequences, FiniteSetsExt

CONSTANTS
  Runs,         \* runs of the session
  Requests,     \* steering mutation requests
  Copies,       \* times a client may send one request
  Archives,     \* archive requests of the session
  ArchiveFlag,  \* TRUE for an archive request, FALSE for an unarchive request
  Capacity,     \* slots of the queue
  MaxStarts,    \* bound: starts of the server after the first
  MaxRows,      \* bound: rows after which no run and no archive request is accepted
  MaxSends,     \* bound: requests received, repeated ones included
  NoRun         \* SQL NULL

ASSUME SteeringAssumption ==
  /\ ArchiveFlag \in [Archives -> BOOLEAN]
  /\ Capacity \in Nat /\ MaxStarts \in Nat /\ MaxSends \in Nat /\ MaxRows \in Nat
  /\ NoRun \notin Runs /\ "none" \notin Requests

TextChanges == {"enqueue", "edit"}
TargetChanges == {"enqueue", "resume"}
ItemChanges == {"enqueue", "edit", "remove"}
Reasons == [cancelled |-> "cancellation", ended |-> "terminal", archive |-> "archive"]

VARIABLES
  history,      \* canonical rows in sequence order
  queue,        \* steering_queues row; revision 0 stands for no row
  pending,      \* steering_pending_messages: item -> row
  archived,     \* sessions.archived
  prepared,     \* archive requests that are prepared and not applied
  mutation,     \* what each request asks for, once its client has sent it
  handler,      \* stage of the handler of each copy of a request
  answer,       \* what each copy was answered: a sequence, -1 refused, 0 nothing
  server,       \* stage of the server
  starts

tables == <<history, queue, pending, archived, prepared>>
clients == <<mutation, handler, answer>>
vars == <<tables, clients, server, starts>>

NoQueue == [revision |-> 0, target |-> NoRun, paused |-> TRUE]
NoMutation == [change |-> "none", expected |-> 0, run |-> NoRun,
               item |-> "none", itemRevision |-> 0]

Init ==
  /\ history = <<>>
  /\ queue = NoQueue
  /\ pending = <<>>
  /\ archived = FALSE
  /\ prepared = {}
  /\ mutation = [q \in Requests |-> NoMutation]
  /\ handler = [h \in Requests \X Copies |-> "none"]
  /\ answer = [h \in Requests \X Copies |-> 0]
  /\ server = "serving"
  /\ starts = 0

--------------------------------------------------------------------------------
(* Queries over the rows. *)

RowsOf(kind) == {i \in DOMAIN history : history[i].kind = kind}

MutationRows == RowsOf("mutation")

SteeringRows == MutationRows \cup RowsOf("pause")

\* ORDER BY sequence DESC LIMIT 1 among the rows S before n; 0 without one.
LatestBefore(S, n) == Max({i \in S : i < n} \cup {0})

Now == Len(history) + 1

HasRow(kind, r, n) == \E i \in RowsOf(kind) : i < n /\ history[i].run = r

RunIsLive(r) == HasRow("accepted", r, Now) /\ ~HasRow("ended", r, Now)

\* target_accepts_steering.  An uncertain provider operation ends its run in
\* the transaction that records it.
TargetAcceptsSteering(r) == RunIsLive(r) /\ ~HasRow("cancelled", r, Now)

LatestArchiveBefore(n) ==
  LET i == LatestBefore(RowsOf("archive"), n) IN i # 0 /\ history[i].flag

\* The rows of the history query whose paused or target column is not NULL.
PausedRows ==
  {i \in SteeringRows : \/ history[i].kind = "pause"
                        \/ history[i].change \in {"pause", "resume"}
                        \/ history[i].revision = 1}

TargetRows ==
  {i \in SteeringRows : \/ history[i].kind = "pause"
                        \/ history[i].change \in TargetChanges}

UnpausedBefore(n) ==
  LET i == LatestBefore(PausedRows, n)
  IN i # 0 /\ history[i].kind = "mutation" /\ history[i].change = "resume"

TargetBefore(n) ==
  LET i == LatestBefore(TargetRows, n) IN IF i = 0 THEN NoRun ELSE history[i].run

\* lookup_steering_mutation: the sequence of the request's row, 0 without one.
Receipt(q) == LatestBefore({i \in MutationRows : history[i].request = q}, Now)

--------------------------------------------------------------------------------
(* Transactions. *)

\* Mutant: a pause moves the queue and not its revision.
AppendAndPause_SameRevision(rows, reason, about) ==
  IF queue.revision > 0 /\ ~queue.paused /\ queue.target \in about
    THEN /\ history' = history \o Append(rows,
              [kind |-> "pause", reason |-> reason, run |-> queue.target,
               revision |-> queue.revision + 1,
               source |-> IF rows = <<>> THEN 0 ELSE Len(history) + Len(rows)])
         /\ queue' = [queue EXCEPT !.paused = TRUE]
    ELSE /\ history' = history \o rows
         /\ UNCHANGED queue

(* steering_lifecycle::pause, run by the transaction that appends a source *)
(* row: the queue is paused if it is not, and if the source is about its   *)
(* target.  rows are the rows of the transaction before it.                *)
AppendAndPause(rows, reason, about) ==
  IF queue.revision > 0 /\ ~queue.paused /\ queue.target \in about
    THEN /\ history' = history \o Append(rows,
              [kind |-> "pause", reason |-> reason, run |-> queue.target,
               revision |-> queue.revision + 1,
               source |-> IF rows = <<>> THEN 0 ELSE Len(history) + Len(rows)])
         /\ queue' = [queue EXCEPT !.paused = TRUE, !.revision = @ + 1]
    ELSE /\ history' = history \o rows
         /\ UNCHANGED queue

AcceptRun(r) ==
  /\ server = "serving" /\ Len(history) < MaxRows
  /\ ~HasRow("accepted", r, Now)
  /\ \A x \in Runs : ~RunIsLive(x)
  /\ ~archived /\ \A a \in prepared : ~ArchiveFlag[a]
  /\ history' = Append(history, [kind |-> "accepted", run |-> r])
  /\ UNCHANGED <<queue, pending, archived, prepared, clients, server, starts>>

CancelRun(r) ==
  /\ server \in {"serving", "stopping"}
  /\ TargetAcceptsSteering(r)
  /\ AppendAndPause(<<[kind |-> "cancelled", run |-> r]>>, "cancellation", {r})
  /\ UNCHANGED <<pending, archived, prepared, clients, server, starts>>

\* append_run_transition to a terminal state, by a task or by recovery.
EndRun(r) ==
  /\ server \in {"serving", "stopping", "paused"}
  /\ RunIsLive(r)
  /\ AppendAndPause(<<[kind |-> "ended", run |-> r]>>, "terminal", {r})
  /\ UNCHANGED <<pending, archived, prepared, clients, server, starts>>

PrepareArchive(a) ==
  /\ server = "serving" /\ Len(history) < MaxRows
  /\ \A i \in RowsOf("archive") : history[i].request # a
  /\ prepared' = prepared \cup {a}
  /\ LET row == <<[kind |-> "archive", request |-> a, flag |-> ArchiveFlag[a]]>>
     IN AppendAndPause(row, "archive", IF ArchiveFlag[a] THEN Runs ELSE {})
  /\ UNCHANGED <<pending, archived, clients, server, starts>>

\* complete_session_archive, by its handler, a retry or recovery.
CompleteArchive(a) ==
  /\ a \in prepared
  /\ server \in {"serving", "stopping", "paused"}
  /\ \A r \in Runs : ~RunIsLive(r)
  /\ prepared' = prepared \ {a}
  /\ archived' = ArchiveFlag[a]
  /\ UNCHANGED <<history, queue, pending, clients, server, starts>>

--------------------------------------------------------------------------------
(* Mutations. *)

\* The lowest slot no pending message of the session has, 0 if there is none.
FreeSlot ==
  LET free == 1..Capacity \ {pending[i].slot : i \in DOMAIN pending}
  IN IF free = {} THEN 0 ELSE Min(free)

\* What mutate_steering checks before it writes.
CanMutate(q) ==
  LET m == mutation[q]
  IN /\ ~archived
     /\ ~LatestArchiveBefore(Now)
     /\ m.expected = queue.revision
     /\ m.change \in TargetChanges => TargetAcceptsSteering(m.run)
     /\ m.change = "enqueue" => /\ queue.revision > 0 => queue.target = m.run
                                /\ FreeSlot > 0
     /\ m.change \in {"edit", "remove"} =>
          /\ m.item \in DOMAIN pending
          /\ pending[m.item].revision = m.itemRevision
     /\ m.change # "enqueue" => queue.revision > 0

\* The item and the item revision the receipt names.
ReceiptItem(q) ==
  LET m == mutation[q]
  IN CASE m.change = "enqueue" -> <<q, 1>>
       [] m.change = "edit" -> <<m.item, m.itemRevision + 1>>
       [] m.change = "remove" -> <<m.item, m.itemRevision>>
       [] OTHER -> <<"none", 0>>

WithItem(i, row) == [x \in DOMAIN pending \cup {i} |-> IF x = i THEN row ELSE pending[x]]

\* mutate_steering after its checks.
ApplyMutation(q) ==
  LET m == mutation[q]
      item == ReceiptItem(q)
  IN /\ history' = Append(history,
          [kind |-> "mutation", request |-> q, change |-> m.change, run |-> m.run,
           item |-> item[1], itemRevision |-> item[2], revision |-> m.expected + 1])
     /\ pending' =
          CASE m.change = "enqueue" ->
                 WithItem(q, [slot |-> FreeSlot, enqueued |-> Now, revision |-> 1, text |-> q])
            [] m.change = "edit" ->
                 WithItem(m.item, [pending[m.item] EXCEPT !.revision = m.itemRevision + 1,
                                                          !.text = q])
            [] m.change = "remove" ->
                 [x \in DOMAIN pending \ {m.item} |-> pending[x]]
            [] OTHER -> pending
     /\ queue' = [revision |-> m.expected + 1,
                  target |-> IF m.change \in TargetChanges THEN m.run ELSE queue.target,
                  paused |-> CASE m.change = "pause" -> TRUE
                               [] m.change = "resume" -> FALSE
                               [] OTHER -> queue.paused]

\* What a client may ask for.  Its expected revision is the queue's as it sends:
\* the request may wait until it is stale, which an older snapshot amounts to.
Asks ==
  LET ask(c, r, i, n) == [change |-> c, expected |-> queue.revision, run |-> r, item |-> i,
                          itemRevision |-> n]
  IN {ask(c, r, "none", 0) : c \in TargetChanges,
                             r \in {x \in Runs : HasRow("accepted", x, Now)}}
     \cup {ask("pause", NoRun, "none", 0)}
     \cup UNION {{ask(c, NoRun, i, n) : c \in {"edit", "remove"},
                                        n \in 1..pending[i].revision} : i \in DOMAIN pending}

\* execute_steering refuses new work to a server that stops.
RefusedByStop(q) == mutation'[q].change \in TargetChanges /\ server = "stopping"

Answer(h, value) ==
  /\ handler' = [handler EXCEPT ![h] = "answered"]
  /\ answer' = [answer EXCEPT ![h] = value]

(* A client sends a request, or sends it again because the first answer is *)
(* late or its server died.  This is the first half of execute_steering,   *)
(* under the lifecycle lock.  The handler then gives the lock up: a text   *)
(* mutation reads skills on a blocking thread.                             *)
Receive(q, c) ==
  /\ server \in {"serving", "stopping"}
  /\ handler[<<q, c>>] = "none"
  /\ Cardinality({h \in DOMAIN handler : handler[h] # "none"}) < MaxSends
  /\ IF mutation[q] = NoMutation
       THEN \E m \in Asks : mutation' = [mutation EXCEPT ![q] = m]
       ELSE UNCHANGED mutation
  /\ IF Receipt(q) # 0 THEN Answer(<<q, c>>, Receipt(q))
     ELSE IF RefusedByStop(q) THEN Answer(<<q, c>>, -1)
     ELSE /\ handler' = [handler EXCEPT ![<<q, c>>] = "preparing"]
          /\ UNCHANGED answer
  /\ UNCHANGED <<tables, server, starts>>

\* Mutant: the request is not looked up again after the lock was given up.
Commit_NoLookup(q, c) ==
  /\ server \in {"serving", "stopping"}
  /\ handler[<<q, c>>] = "preparing"
  /\ UNCHANGED mutation
  /\ IF RefusedByStop(q) \/ ~CanMutate(q)
       THEN Answer(<<q, c>>, -1) /\ UNCHANGED <<history, queue, pending>>
     ELSE Answer(<<q, c>>, Now) /\ ApplyMutation(q)
  /\ UNCHANGED <<archived, prepared, server, starts>>

\* The second half: the request is looked up again, because another copy of
\* it may have been applied in between.
Commit(q, c) ==
  /\ server \in {"serving", "stopping"}
  /\ handler[<<q, c>>] = "preparing"
  /\ UNCHANGED mutation
  /\ IF Receipt(q) # 0
       THEN Answer(<<q, c>>, Receipt(q)) /\ UNCHANGED <<history, queue, pending>>
     ELSE IF RefusedByStop(q) \/ ~CanMutate(q)
       THEN Answer(<<q, c>>, -1) /\ UNCHANGED <<history, queue, pending>>
     ELSE Answer(<<q, c>>, Now) /\ ApplyMutation(q)
  /\ UNCHANGED <<archived, prepared, server, starts>>

--------------------------------------------------------------------------------
(* A start. *)

StopServer ==
  /\ server = "serving"
  /\ server' = "stopping"
  /\ UNCHANGED <<tables, clients, starts>>

\* The process ends, in good order or not: handlers are lost unanswered.
Crash ==
  /\ server # "down" /\ starts < MaxStarts
  /\ server' = "down"
  /\ handler' = [h \in DOMAIN handler |-> IF handler[h] = "preparing"
                                            THEN "lost" ELSE handler[h]]
  /\ UNCHANGED <<tables, mutation, answer, starts>>

\* steering_rebuild::rebuild of steering_queues.
RebuiltQueue ==
  IF SteeringRows = {} THEN NoQueue
  ELSE [revision |-> Max({history[i].revision : i \in SteeringRows}),
        target |-> TargetBefore(Now),
        paused |-> ~UnpausedBefore(Now)]

\* The latest text row of an item that was neither removed nor edited later.
LatestOfItem(i) == LatestBefore({j \in MutationRows : history[j].item = i}, Now)

EnqueuedAt(i) ==
  LatestBefore({j \in MutationRows : history[j].item = i /\ history[j].change = "enqueue"}, Now)

RebuiltItems ==
  {i \in Requests : LatestOfItem(i) # 0 /\ history[LatestOfItem(i)].change \in TextChanges}

\* steering_rebuild::rebuild of steering_pending_messages: slots are numbered
\* anew in the order of the enqueues.
RebuiltPending ==
  [i \in RebuiltItems |->
     [slot |-> Cardinality({j \in RebuiltItems : EnqueuedAt(j) <= EnqueuedAt(i)}),
      enqueued |-> EnqueuedAt(i),
      revision |-> history[LatestOfItem(i)].itemRevision,
      text |-> history[LatestOfItem(i)].request]]

\* projections::repair rebuilds what the rows say.
Repair ==
  /\ server = "down"
  /\ server' = "repaired"
  /\ starts' = starts + 1
  /\ queue' = RebuiltQueue
  /\ pending' = RebuiltPending
  /\ UNCHANGED <<history, archived, prepared, clients>>

\* recover_nonterminal_runs pauses every queue before it ends the runs.
RecoverSteering ==
  /\ server = "repaired"
  /\ server' = "paused"
  /\ AppendAndPause(<<>>, "recovery", Runs)
  /\ UNCHANGED <<pending, archived, prepared, clients, starts>>

\* Recovery has ended the runs and applied the archive requests.
Serve ==
  /\ server = "paused"
  /\ \A r \in Runs : ~RunIsLive(r)
  /\ prepared = {}
  /\ server' = "serving"
  /\ UNCHANGED <<tables, clients, starts>>

Next ==
  \/ \E r \in Runs : AcceptRun(r) \/ CancelRun(r) \/ EndRun(r)
  \/ \E a \in Archives : PrepareArchive(a) \/ CompleteArchive(a)
  \/ \E q \in Requests, c \in Copies : Receive(q, c) \/ Commit(q, c)
  \/ StopServer \/ Crash \/ Repair \/ RecoverSteering \/ Serve

Spec == Init /\ [][Next]_vars

--------------------------------------------------------------------------------
(* What the validators of a start demand. *)

\* steering_lifecycle::validate_history, the part about mutation requests.
MutationIsValid(i) ==
  LET row == history[i]
  IN /\ row.revision = 1 => row.change = "enqueue"
     /\ row.change \in TargetChanges =>
          /\ HasRow("accepted", row.run, i)
          /\ ~HasRow("cancelled", row.run, i) /\ ~HasRow("ended", row.run, i)
     /\ ~LatestArchiveBefore(i)
     /\ row.change = "enqueue" /\ TargetBefore(i) # NoRun => TargetBefore(i) = row.run

\* A source that met an unpaused queue about its target has its pause.
SourceIsHonoured(i) ==
  LET row == history[i]
  IN UnpausedBefore(i) /\ (row.kind = "archive" \/ row.run = TargetBefore(i)) =>
       \E j \in RowsOf("pause") : /\ history[j].source = i
                                  /\ history[j].reason = Reasons[row.kind]

PauseIsValid(i) ==
  LET row == history[i]
  IN /\ UnpausedBefore(i)
     /\ row.run = TargetBefore(i)
     /\ row.source < i
     /\ row.reason # "recovery" =>
          /\ Reasons[history[row.source].kind] = row.reason
          /\ row.reason # "archive" => history[row.source].run = row.run

RevisionsAreConsecutive ==
  \A i \in SteeringRows :
    LET p == LatestBefore(SteeringRows, i)
    IN p # 0 => history[i].revision = history[p].revision + 1

\* validate_steering_mutation_history: the life of an item.
ItemIsValid(i) ==
  LET row == history[i]
      p == LatestBefore({j \in MutationRows : history[j].item = row.item}, i)
  IN row.change \in ItemChanges =>
       /\ row.change = "enqueue" => p = 0
       /\ row.change # "enqueue" => p # 0 /\ history[p].change \in TextChanges
       /\ row.change = "edit" => row.itemRevision = history[p].itemRevision + 1
       /\ row.change = "remove" => row.itemRevision = history[p].itemRevision

\* validate_steering_capacity_history.
CapacityWasKept ==
  \A n \in MutationRows :
    LET count(c) == Cardinality({i \in MutationRows : i <= n /\ history[i].change = c})
    IN count("enqueue") - count("remove") \in 0..Capacity

(* steering_lifecycle::validate_history and the mutation history checks.   *)
HistoryIsValid ==
  /\ \A i \in MutationRows : MutationIsValid(i) /\ ItemIsValid(i)
  /\ \A i \in RowsOf("cancelled") \cup RowsOf("ended") : SourceIsHonoured(i)
  /\ \A i \in RowsOf("archive") : history[i].flag => SourceIsHonoured(i)
  /\ \A i \in RowsOf("pause") : PauseIsValid(i)
  /\ RevisionsAreConsecutive
  /\ CapacityWasKept

(* In every state, so after a crash at any step, the next start accepts    *)
(* what earlier processes wrote, and the queue it rebuilds is the one the  *)
(* clients have seen (validate_history,                                    *)
(* validate_steering_mutation_projection).  Only the slots are numbered    *)
(* anew.                                                                   *)
QueueIsRebuildable ==
  /\ HistoryIsValid
  /\ queue = RebuiltQueue
  /\ DOMAIN pending = RebuiltItems
  /\ \A i \in DOMAIN pending :
       [pending[i] EXCEPT !.slot = 0] = [RebuiltPending[i] EXCEPT !.slot = 0]
  /\ \A i, j \in DOMAIN pending : pending[i].slot = pending[j].slot => i = j

(* A client that repeats a request whose mutation was applied is answered  *)
(* with the receipt of that mutation and never refused or applied again,   *)
(* though the queue has moved on, the server is stopping or copies overlap.*)
AcceptedRetryIsAnswered ==
  [][\A h \in Requests \X Copies :
       answer'[h] # answer[h] /\ Receipt(h[1]) # 0 =>
         answer'[h] = Receipt(h[1]) /\ UNCHANGED <<history, queue, pending>>]_vars
================================================================================

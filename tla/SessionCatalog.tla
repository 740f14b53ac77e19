---------------------------- MODULE SessionCatalog ----------------------------
(***************************************************************************)
(* The session catalog: creation, renaming, archiving and deletion of      *)
(* sessions and the durable stop request, with the mutation registry that  *)
(* makes a repeated request harmless, and the validation, rebuild and      *)
(* recovery that a start does about them.                                  *)
(*                                                                         *)
(* A session is named by the request that creates it, a display name by    *)
(* the request that gives it.  Audit rows are written with the rows they   *)
(* describe and only take sequences here.                                  *)
(***************************************************************************)
EXTENDS Integers, FiniteSets, FiniteSetsExt

CONSTANTS
  Creates, Renames, Archives, Unarchives, Deletes, Stops,   \* mutation requests
  SessionOf,    \* the session a rename, archive, unarchive or delete is about
  None,
  MaxStarts,    \* bound: starts of the server after the first
  MaxFaults     \* bound: file errors, timeouts and runtimes that do not end

Requests == Creates \cup Renames \cup Archives \cup Unarchives \cup Deletes \cup Stops
SessionRows == [name : Creates \cup Renames, archived : BOOLEAN]

\* A request is of one kind: a repeated id of another operation is a conflict.
ASSUME CatalogAssumption ==
  /\ SessionOf \in [Renames \cup Archives \cup Unarchives \cup Deletes -> Creates]
  /\ Creates \intersect (Renames \cup Archives \cup Unarchives \cup Deletes \cup Stops) = {}
  /\ Renames \intersect (Archives \cup Unarchives \cup Deletes \cup Stops) = {}
  /\ (Archives \cup Unarchives) \intersect (Deletes \cup Stops) = {}
  /\ Deletes \intersect Stops = {}
  /\ None \notin Requests /\ None \notin SessionRows
  /\ MaxStarts \in Nat /\ MaxFaults \in Nat

Flags == Archives \cup Unarchives
Rows == [state : {"none", "prepared", "dispatched", "ready", "applied",
                  "cleaned", "complete", "tombstone"}, seq : Nat]
NoRow == [state |-> "none", seq |-> 0]

VARIABLES
  row,       \* the request's row: its state and accepted_sequence
  next,      \* logical_sequences.next_value
  session,   \* sessions: the row of each session or None
  files,     \* what is in the workspace directory of a session
  image,     \* an attachment of each session: its file, its row, or both
  busy,      \* sessions with an active run or command
  events,    \* delivery_events
  stop,      \* host_epoch and signal_applied of a stop request
  handler,   \* the handler that holds the lifecycle lock, or None
  creating,  \* the creation the persistence worker is inside of, or None
  staging,   \* the session whose input the persistence worker is accepting, or None
  server,    \* stage of the server
  stopping,  \* ServerApplication.stopping
  starts, faults

tables == <<row, next, session, files, image, events, stop>>
disk == <<files, image>>
worker == <<creating, staging>>
bounds == <<starts, faults>>
vars == <<tables, busy, handler, worker, server, stopping, bounds>>

Init ==
  /\ row = [q \in Requests |-> NoRow]
  /\ next = 1
  /\ session = [c \in Creates |-> None]
  /\ files = [c \in Creates |-> "none"]
  /\ image = [c \in Creates |-> {}]
  /\ busy = {}
  /\ events = {}
  /\ stop = [p \in Stops |-> [epoch |-> 0, signal |-> FALSE]]
  /\ handler = None /\ creating = None /\ staging = None
  /\ server = "serving" /\ stopping = FALSE
  /\ starts = 0 /\ faults = 0

--------------------------------------------------------------------------------
(* Helpers. *)

\* load_mutation_operation finds the request among the live ones or the
\* tombstones.
Registered(q) == row[q].state # "none"

RowsOfSession(c) == {c} \cup {q \in Renames \cup Flags : SessionOf[q] = c}

Register(q, state, sequences) ==
  /\ row' = [row EXCEPT ![q] = [state |-> state, seq |-> next]]
  /\ next' = next + sequences

SetState(q, state) == row' = [row EXCEPT ![q].state = state]

\* The worker runs one request at a time; a creation is one request, and so is
\* an input, whose image files are written before its transaction.
WorkerFree == server = "serving" /\ creating = None /\ staging = None

LockFree == WorkerFree /\ handler = None

\* The request with the highest accepted_sequence in S, None if S is empty.
Latest(S) == IF S = {} THEN None
             ELSE CHOOSE q \in S : \A r \in S : row[r].seq <= row[q].seq

Oldest(S) == CHOOSE q \in S : \A r \in S : row[q].seq <= row[r].seq

Idle(c) == c \notin busy

\* host_epoch: drawn anew by each process.
Epoch == starts + 1

Event(kind, c, seq) == [kind |-> kind, session |-> c, seq |-> seq]

--------------------------------------------------------------------------------
(* Creation: three transactions with the workspace files in between. *)

\* create_session: a new request is prepared, a known one is taken up where
\* it stands.
CreateSession(c) ==
  /\ WorkerFree
  /\ row[c].state \in {"none", "prepared", "dispatched"}
  /\ creating' = c
  /\ IF Registered(c) THEN UNCHANGED <<row, next>> ELSE Register(c, "prepared", 2)
  /\ UNCHANGED <<session, disk, busy, events, stop, handler, server, stopping, bounds, staging>>

DispatchWorkspaceCreation(c) ==
  /\ creating = c /\ row[c].state = "prepared"
  /\ SetState(c, "dispatched")
  /\ next' = next + 2
  /\ UNCHANGED <<session, disk, busy, events, stop, handler, worker, server, stopping, bounds>>

\* provision_workspace writes a temporary file and renames it; a leftover
\* temporary file is removed first, an identity is accepted as it is.
ProvisionWorkspace(c) ==
  /\ creating = c /\ row[c].state = "dispatched"
  /\ \/ files[c] \in {"none", "temporary"} /\ files' = [files EXCEPT ![c] = "written"]
     \/ files[c] = "written" /\ files' = [files EXCEPT ![c] = "identity"]
  /\ UNCHANGED <<row, next, session, image, busy, events, stop, handler, worker, server, stopping,
                 bounds>>

\* Mutant: a crash leaves a temporary file that is taken for an identity.
FinalizeSessionCreation_AnyFile(c) ==
  /\ creating = c /\ row[c].state = "dispatched" /\ files[c] # "none"
  /\ row' = [row EXCEPT ![c].state = "ready"]
  /\ next' = next + 3
  /\ session' = [session EXCEPT ![c] = [name |-> c, archived |-> FALSE]]
  /\ events' = events \cup {Event("created", c, next + 1)}
  /\ creating' = None
  /\ UNCHANGED <<disk, busy, stop, handler, server, stopping, bounds, staging>>

FinalizeSessionCreation(c) ==
  /\ creating = c /\ row[c].state = "dispatched" /\ files[c] = "identity"
  /\ row' = [row EXCEPT ![c].state = "ready"]
  /\ next' = next + 3
  /\ session' = [session EXCEPT ![c] = [name |-> c, archived |-> FALSE]]
  /\ events' = events \cup {Event("created", c, next + 1)}
  /\ creating' = None
  /\ UNCHANGED <<disk, busy, stop, handler, server, stopping, bounds, staging>>

\* A file error ends the request and leaves its row for a retry or a start.
CreationFails ==
  /\ server = "serving" /\ creating # None /\ faults < MaxFaults
  /\ creating' = None /\ faults' = faults + 1
  /\ UNCHANGED <<tables, busy, handler, server, stopping, starts, staging>>

--------------------------------------------------------------------------------
(* The other requests run under the lifecycle lock. *)

RenameSession(q) ==
  /\ LockFree /\ ~Registered(q) /\ session[SessionOf[q]] # None
  /\ Register(q, "applied", 1)
  /\ session' = [session EXCEPT ![SessionOf[q]].name = q]
  /\ events' = events \cup {Event("renamed", SessionOf[q], next)}
  /\ UNCHANGED <<disk, busy, stop, handler, worker, server, stopping, bounds>>

\* prepare_session_archive, or the retry of a request that is prepared.
PrepareSessionArchive(q) ==
  /\ LockFree
  /\ handler' = q
  /\ \/ ~Registered(q) /\ session[SessionOf[q]] # None /\ Register(q, "prepared", 1)
     \/ row[q].state = "prepared" /\ UNCHANGED <<row, next>>
  /\ UNCHANGED <<session, disk, busy, events, stop, worker, server, stopping, bounds>>

\* complete_session_archive writes the flag, and the event at the sequence
\* the request was accepted with.
ApplyArchive(q) ==
  /\ Idle(SessionOf[q])
  /\ SetState(q, "applied")
  /\ session' = [session EXCEPT ![SessionOf[q]].archived = q \in Archives]
  /\ events' = events \cup {Event("archived", SessionOf[q], row[q].seq)}

\* The handler of an archive request waits until the session is idle.
CompleteSessionArchive(q) ==
  /\ WorkerFree /\ handler = q /\ row[q].state = "prepared"
  /\ ApplyArchive(q)
  /\ handler' = None
  /\ UNCHANGED <<next, disk, busy, stop, worker, server, stopping, bounds>>

\* An unarchive request does not wait: it is refused while the session is busy.
RefuseUnarchive(q) ==
  /\ WorkerFree /\ handler = q /\ q \in Unarchives /\ ~Idle(SessionOf[q])
  /\ handler' = None
  /\ UNCHANGED <<tables, busy, worker, server, stopping, bounds>>

PrepareSessionDelete(q) ==
  LET c == SessionOf[q]
  IN /\ LockFree
     /\ handler' = q
     /\ \/ /\ ~Registered(q) /\ session[c] # None
           /\ session[c].archived /\ Idle(c)
           /\ Register(q, "prepared", 1)
        \/ row[q].state \in {"prepared", "cleaned"} /\ UNCHANGED <<row, next>>
     /\ UNCHANGED <<session, disk, busy, events, stop, worker, server, stopping, bounds>>

\* Mutant: the requests of the session are deleted and not remembered.
Cleaned_NoTombstones(q) ==
  LET c == SessionOf[q]
  IN /\ row' = [r \in Requests |-> IF r = q THEN [row[r] EXCEPT !.state = "cleaned"]
                                   ELSE IF r \in RowsOfSession(c) THEN NoRow ELSE row[r]]
     /\ session' = [session EXCEPT ![c] = None]
     /\ image' = [image EXCEPT ![c] = @ \ {"row"}]

\* clean_session_database: the requests of the session become tombstones.
Cleaned(q) ==
  LET c == SessionOf[q]
  IN /\ row' = [r \in Requests |->
                  IF r = q THEN [row[r] EXCEPT !.state = "cleaned"]
                  ELSE IF r \in RowsOfSession(c) /\ Registered(r)
                         THEN [row[r] EXCEPT !.state = "tombstone"] ELSE row[r]]
     /\ session' = [session EXCEPT ![c] = None]
     /\ image' = [image EXCEPT ![c] = @ \ {"row"}]

CanClean(q) ==
  LET c == SessionOf[q] IN session[c] # None /\ session[c].archived /\ Idle(c)

CleanSessionDatabase(q) ==
  /\ WorkerFree /\ handler = q /\ q \in Deletes
  /\ row[q].state = "prepared" /\ CanClean(q)
  /\ Cleaned(q)
  /\ UNCHANGED <<next, files, busy, events, stop, handler, worker, server, stopping, bounds>>

\* Another request deleted or unarchived the session meanwhile.
RefuseClean(q) ==
  /\ WorkerFree /\ handler = q /\ q \in Deletes
  /\ row[q].state = "prepared" /\ ~CanClean(q)
  /\ handler' = None
  /\ UNCHANGED <<tables, busy, worker, server, stopping, bounds>>

Completed(q) ==
  /\ SetState(q, "complete")
  /\ events' = {v \in events : v.session # SessionOf[q]}
                 \cup {Event("deleted", SessionOf[q], row[q].seq)}

\* remove_attachment_file for each attachment of the manifest.
RemoveAttachmentFiles(q) ==
  /\ row[q].state = "cleaned" /\ image[SessionOf[q]] # {}
  /\ \/ WorkerFree /\ handler = q
     \/ server = "deletes"
  /\ image' = [image EXCEPT ![SessionOf[q]] = {}]
  /\ UNCHANGED <<row, next, session, files, busy, events, stop, handler, worker, server, stopping,
                 bounds>>

CompleteSessionDelete(q) ==
  /\ WorkerFree /\ handler = q /\ row[q].state = "cleaned" /\ image[SessionOf[q]] = {}
  /\ Completed(q)
  /\ handler' = None
  /\ UNCHANGED <<next, session, disk, busy, stop, worker, server, stopping, bounds>>

\* The wait for an idle session times out, terminate_session_runtime returns
\* false, or a file of a cleaned session is not removed: the handler gives up
\* and its row stays where it is.
HandlerGivesUp ==
  /\ WorkerFree /\ handler \in Archives \cup Deletes /\ faults < MaxFaults
  /\ row[handler].state \in {"prepared", "cleaned"}
  /\ handler' = None /\ faults' = faults + 1
  /\ UNCHANGED <<tables, busy, worker, server, stopping, starts>>

\* Mutant: every request signals the process that accepts it.
SignalsSupervisor_Always(p) == TRUE

\* request_server_stop signals a process once.
SignalsSupervisor(p) == ~\E r \in Stops : stop[r].epoch = Epoch /\ stop[r].signal

StopServer(p) ==
  /\ LockFree
  /\ ~Registered(p)
  /\ Register(p, "applied", 2)
  /\ stop' = [stop EXCEPT ![p] = [epoch |-> Epoch, signal |-> SignalsSupervisor(p)]]
  /\ stopping' = (stopping \/ SignalsSupervisor(p))
  /\ UNCHANGED <<session, disk, busy, events, handler, worker, server, bounds>>

\* A prepared archive request of the session refuses new work, also one that its
\* handler gave up and that later requests overtook.
ArchivePending(c) == \E q \in Archives : SessionOf[q] = c /\ row[q].state = "prepared"

\* accept_session_input or accept_local_command.
AcceptsWork(c) ==
  /\ LockFree /\ ~stopping /\ c \notin busy
  /\ session[c] # None /\ ~session[c].archived
  /\ ~ArchivePending(c)

BeginWork(c) ==
  /\ AcceptsWork(c)
  /\ busy' = busy \cup {c}
  /\ UNCHANGED <<tables, handler, worker, server, stopping, bounds>>

\* AttachmentStaging::stage writes and syncs the file of an image.
StageImage(c) ==
  /\ AcceptsWork(c) /\ image[c] = {}
  /\ staging' = c
  /\ image' = [image EXCEPT ![c] = {"file"}]
  /\ UNCHANGED <<row, next, session, files, busy, events, stop, handler, creating, server,
                 stopping, bounds>>

\* The transaction of the input commits the row, or it fails and the staging
\* is dropped with its file.
CommitImage(c) ==
  /\ staging = c
  /\ staging' = None
  /\ \/ image' = [image EXCEPT ![c] = {"file", "row"}] /\ busy' = busy \cup {c}
     \/ image' = [image EXCEPT ![c] = {}] /\ UNCHANGED busy
  /\ UNCHANGED <<row, next, session, files, events, stop, handler, creating, server, stopping,
                 bounds>>

EndWork(c) ==
  /\ WorkerFree /\ c \in busy
  /\ busy' = busy \ {c}
  /\ UNCHANGED <<tables, handler, worker, server, stopping, bounds>>

--------------------------------------------------------------------------------
(* A start. *)

Crash ==
  /\ server # "down" /\ starts < MaxStarts
  /\ server' = "down" /\ handler' = None /\ creating' = None /\ staging' = None
  /\ stopping' = FALSE
  /\ files' = [c \in Creates |-> IF files[c] = "written" THEN "temporary" ELSE files[c]]
  /\ UNCHANGED <<row, next, session, events, stop, busy, bounds, image>>

AppliedFlags(c) == {q \in Flags : SessionOf[q] = c /\ row[q].state = "applied"}

\* validate_session_delete_facts.
DeleteFactsAreValid ==
  \A q \in Deletes :
    LET c == SessionOf[q]
    IN /\ Registered(q) => ((row[q].state = "prepared") = (row[c].state = "ready"))
       /\ row[q].state = "prepared" => Latest(AppliedFlags(c)) \in Archives

\* validate_logical_sequences, and those of renames, archives and deletions:
\* no two rows took one sequence, and the next one is free.
SequencesAreValid ==
  LET known == {q \in Requests : Registered(q)}
  IN /\ \A q, r \in known : row[q].seq = row[r].seq => q = r
     /\ \A q \in known : row[q].seq < next

\* validate_server_stop_facts: one signal for each process.
StopFactsAreValid ==
  \A p \in Stops : Registered(p) =>
    Cardinality({r \in Stops : stop[r].epoch = stop[p].epoch /\ stop[r].signal}) = 1

Rebuilt(c) ==
  IF row[c].state # "ready" THEN None
  ELSE LET renames == {q \in Renames : SessionOf[q] = c /\ row[q].state = "applied"}
       IN [name |-> IF renames = {} THEN c ELSE Latest(renames),
           archived |-> Latest(AppliedFlags(c)) \in Archives]

\* database::open: projections::repair validates the facts and rebuilds.
Repair ==
  /\ server = "down"
  /\ starts' = starts + 1
  /\ IF DeleteFactsAreValid /\ SequencesAreValid /\ StopFactsAreValid
       THEN /\ server' = "attachments"
            /\ session' = [c \in Creates |-> Rebuilt(c)]
       ELSE /\ server' = "failed"
            /\ UNCHANGED session
  /\ UNCHANGED <<row, next, disk, events, stop, busy, handler, worker, stopping, faults>>

\* Mutant: a start keeps the files that no row names.
ReconcileImageAttachments_KeepsOrphans ==
  /\ server = "attachments"
  /\ server' = IF \A c \in Creates : image[c] # {"row"} THEN "creations" ELSE "failed"
  /\ UNCHANGED <<tables, busy, handler, worker, stopping, bounds>>

\* Files that no row names are removed; a row without its file fails the start.
ReconcileImageAttachments ==
  /\ server = "attachments"
  /\ server' = IF \A c \in Creates : image[c] # {"row"} THEN "creations" ELSE "failed"
  /\ image' = [c \in Creates |-> IF "row" \in image[c] THEN image[c] ELSE {}]
  /\ UNCHANGED <<row, next, session, files, busy, events, stop, handler, worker, stopping, bounds>>

Unfinished == {c \in Creates : row[c].state \in {"prepared", "dispatched"}}

\* recover_incomplete_session_creations takes up the oldest one.
RecoverCreation ==
  /\ server = "creations" /\ creating = None /\ Unfinished # {}
  /\ creating' = Oldest(Unfinished)
  /\ UNCHANGED <<tables, busy, handler, server, stopping, bounds, staging>>

\* recover_nonterminal_runs and recover_local_commands.
RecoverWork ==
  /\ server = "creations" /\ creating = None /\ Unfinished = {}
  /\ busy' = {} /\ server' = "archives"
  /\ UNCHANGED <<tables, handler, worker, stopping, bounds>>

\* recover_session_archives, in the order of acceptance.
RecoverArchive ==
  LET prepared == {q \in Flags : row[q].state = "prepared"}
  IN /\ server = "archives"
     /\ IF prepared = {}
          THEN server' = "deletes" /\ UNCHANGED <<row, session, events>>
          ELSE ApplyArchive(Oldest(prepared)) /\ UNCHANGED server
     /\ UNCHANGED <<next, disk, busy, stop, handler, worker, stopping, bounds>>

\* recover_session_deletes, in the order of acceptance.
RecoverDelete ==
  LET pending == {q \in Deletes : row[q].state \in {"prepared", "cleaned"}}
      q == Oldest(pending)
  IN /\ server = "deletes" /\ pending # {}
     /\ \/ /\ row[q].state = "prepared" /\ CanClean(q)
           /\ Cleaned(q) /\ UNCHANGED <<events, server>>
        \/ /\ row[q].state = "cleaned" /\ image[SessionOf[q]] = {}
           /\ Completed(q) /\ UNCHANGED <<session, image, server>>
        \/ /\ row[q].state = "prepared" /\ ~CanClean(q)
           /\ server' = "failed" /\ UNCHANGED <<row, session, image, events>>
     /\ UNCHANGED <<next, files, busy, stop, handler, worker, stopping, bounds>>

Serve ==
  /\ server = "deletes"
  /\ \A q \in Deletes : row[q].state \notin {"prepared", "cleaned"}
  /\ server' = "serving"
  /\ UNCHANGED <<tables, busy, handler, worker, stopping, bounds>>

Next ==
  \/ \E c \in Creates : \/ CreateSession(c) \/ DispatchWorkspaceCreation(c)
                        \/ ProvisionWorkspace(c) \/ FinalizeSessionCreation(c)
                        \/ BeginWork(c) \/ EndWork(c) \/ StageImage(c) \/ CommitImage(c)
  \/ CreationFails \/ HandlerGivesUp
  \/ \E q \in Renames : RenameSession(q)
  \/ \E q \in Flags : PrepareSessionArchive(q) \/ CompleteSessionArchive(q) \/ RefuseUnarchive(q)
  \/ \E q \in Deletes : \/ PrepareSessionDelete(q) \/ CleanSessionDatabase(q) \/ RefuseClean(q)
                        \/ RemoveAttachmentFiles(q) \/ CompleteSessionDelete(q)
  \/ \E p \in Stops : StopServer(p)
  \/ Crash \/ Repair \/ ReconcileImageAttachments \/ RecoverCreation \/ RecoverWork
  \/ RecoverArchive \/ RecoverDelete \/ Serve

Spec == Init /\ [][Next]_vars

--------------------------------------------------------------------------------
(* Properties. *)

(* A deletion that was accepted and given up, whose session was unarchived  *)
(* or deleted by another request since.                                    *)
StrandedDeletion ==
  \E q \in Deletes : /\ row[q].state = "prepared"
                     /\ \/ row[SessionOf[q]].state # "ready"
                        \/ Latest(AppliedFlags(SessionOf[q])) \notin Archives
                        \/ ~session[SessionOf[q]].archived

(* Whatever step of a creation, a renaming, an archiving or a deletion the *)
(* last process died in, the next start succeeds: the facts it left are    *)
(* valid and recovery can finish every request.  The one exception is a    *)
(* stranded deletion.                                                      *)
StartsUnlessDeletionStranded == server = "failed" => StrandedDeletion

(* A session is there, under the name it was last given, exactly when a    *)
(* rebuild derives it, and never without the identity of its workspace.    *)
(* (Its archived flag may differ: requests can be applied out of order.)   *)
SessionsAreRebuildable ==
  \A c \in Creates :
    /\ (session[c] = None) = (Rebuilt(c) = None)
    /\ session[c] # None => session[c].name = Rebuilt(c).name /\ files[c] = "identity"

(* A deletion is final: once its session's rows are gone, no repeated or   *)
(* late request brings the session, its name or an event of it back.       *)
DeletionIsFinal ==
  \A q \in Deletes : row[q].state \in {"cleaned", "complete"} =>
    LET c == SessionOf[q]
    IN /\ session[c] = None
       /\ \A r \in RowsOfSession(c) : row[r].state \in {"none", "tombstone"}
       /\ row[c].state = "tombstone"
       /\ row[q].state = "complete" =>
            image[c] = {} /\ \A v \in events : v.session = c => v.kind = "deleted"

(* An image a transcript names has its file; and once a start has cleared  *)
(* up, a file has its row, unless its input is being accepted or its       *)
(* session deleted, so a crash neither loses an image nor leaks a file.    *)
ImagesArePaired ==
  \A c \in Creates :
    /\ "row" \in image[c] => "file" \in image[c]
    /\ server = "serving" /\ image[c] = {"file"} =>
         staging = c \/ \E q \in Deletes : SessionOf[q] = c /\ row[q].state = "cleaned"
================================================================================

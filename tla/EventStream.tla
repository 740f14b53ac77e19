------------------------------ MODULE EventStream ------------------------------
(***************************************************************************)
(* Durable events and their subscribers: the storage worker that commits   *)
(* and then notifies, the watch channel, and the three loops that stream   *)
(* session, steering and catalog events to a client from its cursor.       *)
(*                                                                         *)
(* The subscribers of this module share a scope (a session, its steering   *)
(* queue, or the catalog); the channel is shared with everything else.  An *)
(* archive or deletion request reserves the sequence of its event before   *)
(* the work it waits for ends, which only concerns the catalog.            *)
(* Sources: connection.rs, application/events.rs, application.rs,          *)
(* application/steering.rs, persistence/mod.rs, backend/queries.rs,        *)
(* backend/session_events.rs, backend/steering_queries.rs.                 *)
(***************************************************************************)
EXTENDS Naturals, Sequences

CONSTANTS
  Subscribers,
  PageLimit,      \* events per read
  MaxSequence,    \* bound: sequences taken
  MaxReserved,    \* bound: archive and deletion requests
  MaxRestarts     \* bound: restarts of the server

ASSUME StreamBoundAssumption ==
  /\ PageLimit \in Nat \ {0} /\ MaxSequence \in Nat
  /\ MaxReserved \in Nat /\ MaxRestarts \in Nat

VARIABLES
  sequence,     \* the last sequence taken
  scoped,       \* sequences of the events in the scope
  others,       \* sequences of the events outside of it
  reserved,     \* sequences of archive or deletion requests that are not complete
  late,         \* sequences that such a request has taken, complete or not
  requests,     \* number of those requests so far
  worker,       \* idle, in recovery, or what it owes the channel for its last request
  value,        \* the number in the watch channel
  version,      \* its version
  stage,        \* where the stream of a subscriber is
  cursor,       \* the last event its client has received, or that of its snapshot
  known,        \* the events its client knows of
  observed,     \* the number its stream read before it read events
  seen,         \* the version its receiver has marked as seen
  page,         \* events its stream has read and not written
  restarts

storeVars == <<sequence, scoped, others, reserved, late, requests>>
channelVars == <<worker, value, version>>
streamVars == <<stage, cursor, known, observed, seen, page>>
eventVars == <<storeVars, channelVars, streamVars, restarts>>

Highest(S) == IF S = {} THEN 0 ELSE CHOOSE n \in S : \A m \in S : m <= n

Stages == {"off", "turn", "read", "write", "check", "asleep"}

StreamInit ==
  /\ sequence = 0
  /\ scoped = {} /\ others = {} /\ reserved = {} /\ late = {}
  /\ requests = 0
  /\ worker = "idle"
  /\ value = 0
  /\ version = 0
  /\ stage = [s \in Subscribers |-> "off"]
  /\ cursor = [s \in Subscribers |-> 0]
  /\ known = [s \in Subscribers |-> {}]
  /\ observed = [s \in Subscribers |-> 0]
  /\ seen = [s \in Subscribers |-> 0]
  /\ page = [s \in Subscribers |-> <<>>]
  /\ restarts = 0

--------------------------------------------------------------------------------
(* The storage worker: one request at a time, then the notification. *)

\* A transaction whose event takes the next sequence.
Commit ==
  /\ worker = "idle"
  /\ sequence < MaxSequence
  /\ sequence' = sequence + 1
  /\ \/ scoped' = scoped \cup {sequence + 1} /\ UNCHANGED others
     \/ others' = others \cup {sequence + 1} /\ UNCHANGED scoped
  /\ worker' = "notify"
  /\ UNCHANGED <<reserved, late, requests, value, version, streamVars, restarts>>

\* prepare_session_archive, prepare_session_delete: a sequence and no event yet.
Reserve ==
  /\ worker = "idle"
  /\ sequence < MaxSequence
  /\ requests < MaxReserved
  /\ sequence' = sequence + 1
  /\ reserved' = reserved \cup {sequence + 1}
  /\ late' = late \cup {sequence + 1}
  /\ requests' = requests + 1
  /\ worker' = "notify"
  /\ UNCHANGED <<scoped, others, value, version, streamVars, restarts>>

\* Completion puts the event at the sequence of its request, in the handler, in a
\* retry of it, or in the recovery of a start; only the first two notify.
Applied(n, gone) ==
  /\ worker \in {"idle", "recovery"}
  /\ n \in reserved
  /\ scoped' = (scoped \ gone) \cup {n}
  /\ others' = others \ gone
  /\ worker' = IF worker = "idle" THEN "force" ELSE "recovery"
  /\ UNCHANGED <<sequence, late, requests, value, version, streamVars, restarts>>

CompleteArchive(n) == Applied(n, {}) /\ reserved' = reserved \ {n}

\* The events of a session, in the scope of the catalog or not: its creation is the
\* first of them.
IsSession(events) ==
  \E m \in events : m \in scoped /\ \A k \in events : m <= k

\* A deletion also removes the events of its session, even later ones.
CompleteDelete(n) ==
  /\ \E gone \in SUBSET (scoped \cup others) :
       IsSession(gone) /\ (\E m \in gone : m < n) /\ Applied(n, gone)
  /\ reserved' = reserved \ {n}

HighWater == Highest(scoped \cup others)

\* Mutant: a completed archive is notified like any other request.
Notify_NeverForces ==
  /\ worker \in {"notify", "force"}
  /\ worker' = "idle"
  /\ IF HighWater > value
     THEN value' = HighWater /\ version' = version + 1
     ELSE UNCHANGED <<value, version>>
  /\ UNCHANGED <<storeVars, streamVars, restarts>>

\* send_if_modified, or send_replace when the event may be below the high water.
Notify ==
  /\ worker \in {"notify", "force"}
  /\ worker' = "idle"
  /\ IF worker = "force" \/ HighWater > value
     THEN value' = HighWater /\ version' = version + 1
     ELSE UNCHANGED <<value, version>>
  /\ UNCHANGED <<storeVars, streamVars, restarts>>

--------------------------------------------------------------------------------
(* A client and its stream. *)

StreamGoes(s, next) == stage' = [stage EXCEPT ![s] = next]

\* The client reads a snapshot, which comes with the high water of the scope.
Snapshot(s) ==
  /\ worker = "idle"
  /\ stage[s] = "off"
  /\ cursor' = [cursor EXCEPT ![s] = Highest(scoped)]
  /\ known' = [known EXCEPT ![s] = scoped]
  /\ UNCHANGED <<storeVars, channelVars, stage, observed, seen, page, restarts>>

\* A cursor beyond the high water of the scope is refused; a deletion may leave one so.
InStream(s) == cursor[s] <= Highest(scoped)

\* It subscribes from its cursor: the receiver first, then a read that only
\* checks the cursor.
Subscribe(s) ==
  /\ worker = "idle"
  /\ stage[s] = "off"
  /\ InStream(s)
  /\ StreamGoes(s, "turn")
  /\ seen' = [seen EXCEPT ![s] = version]
  /\ UNCHANGED <<storeVars, channelVars, cursor, known, observed, page, restarts>>

\* borrow_and_update.
Observe(s) ==
  /\ stage[s] = "turn"
  /\ StreamGoes(s, "read")
  /\ observed' = [observed EXCEPT ![s] = value]
  /\ seen' = [seen EXCEPT ![s] = version]
  /\ UNCHANGED <<storeVars, channelVars, cursor, known, page, restarts>>

Unread(s) == {n \in scoped : n > cursor[s]}

\* The events after the cursor in order, as many as a page holds.
IsPage(events, s) ==
  /\ \A i \in 1..Len(events) : events[i] \in Unread(s)
  /\ \A i, j \in 1..Len(events) : i < j => events[i] < events[j]
  /\ \A n \in Unread(s) :
       (\E i \in 1..Len(events) : events[i] = n) \/ \A i \in 1..Len(events) : events[i] < n
  /\ Len(events) <= PageLimit
  /\ Len(events) < PageLimit => \A n \in Unread(s) : \E i \in 1..Len(events) : events[i] = n

Read(s) ==
  /\ worker = "idle"
  /\ stage[s] = "read"
  /\ InStream(s)
  /\ \E n \in 0..PageLimit : \E events \in [1..n -> Unread(s)] :
       /\ IsPage(events, s)
       /\ page' = [page EXCEPT ![s] = events]
  /\ StreamGoes(s, IF Unread(s) = {} THEN "check" ELSE "write")
  /\ UNCHANGED <<storeVars, channelVars, cursor, known, observed, seen, restarts>>

\* The subscription ends with the refusal.
ReadRefused(s) ==
  /\ worker = "idle"
  /\ stage[s] = "read"
  /\ ~InStream(s)
  /\ StreamGoes(s, "off")
  /\ UNCHANGED <<storeVars, channelVars, cursor, known, observed, seen, page, restarts>>

\* Mutant: the cursor goes to the end of the page with its first event.
Write_SkipsPage(s) ==
  /\ stage[s] = "write"
  /\ known' = [known EXCEPT ![s] = @ \cup {Head(page[s])}]
  /\ cursor' = [cursor EXCEPT ![s] = page[s][Len(page[s])]]
  /\ page' = [page EXCEPT ![s] = <<>>]
  /\ StreamGoes(s, "turn")
  /\ UNCHANGED <<storeVars, channelVars, observed, seen, restarts>>

\* An event is written, and the cursor is that of the event.
Write(s) ==
  /\ stage[s] = "write"
  /\ known' = [known EXCEPT ![s] = @ \cup {Head(page[s])}]
  /\ cursor' = [cursor EXCEPT ![s] = Head(page[s])]
  /\ page' = [page EXCEPT ![s] = Tail(@)]
  /\ StreamGoes(s, IF Len(page[s]) = 1 THEN "turn" ELSE "write")
  /\ UNCHANGED <<storeVars, channelVars, observed, seen, restarts>>

\* Nothing was read: sleep, unless the number has changed in the meantime.
Check(s) ==
  /\ stage[s] = "check"
  /\ StreamGoes(s, IF value # observed[s] THEN "turn" ELSE "asleep")
  /\ UNCHANGED <<storeVars, channelVars, cursor, known, observed, seen, page, restarts>>

\* Mutant: a stream wakes up only if the number has changed.
Wake_OnValue(s) ==
  /\ stage[s] = "asleep"
  /\ value # observed[s]
  /\ StreamGoes(s, "turn")
  /\ UNCHANGED <<storeVars, channelVars, cursor, known, observed, seen, page, restarts>>

\* changed(): the version is not the one that was seen.
Wake(s) ==
  /\ stage[s] = "asleep"
  /\ version # seen[s]
  /\ StreamGoes(s, "turn")
  /\ UNCHANGED <<storeVars, channelVars, cursor, known, observed, seen, page, restarts>>

\* The client goes, or is too slow for the write timeout.  It keeps its cursor.
Disconnect(s) ==
  /\ stage[s] # "off"
  /\ StreamGoes(s, "off")
  /\ page' = [page EXCEPT ![s] = <<>>]
  /\ UNCHANGED <<storeVars, channelVars, cursor, known, observed, seen, restarts>>

\* The process ends, at any point, and the next one begins its recovery.
Restart ==
  /\ restarts < MaxRestarts
  /\ restarts' = restarts + 1
  /\ worker' = "recovery"
  /\ stage' = [s \in Subscribers |-> "off"]
  /\ page' = [s \in Subscribers |-> <<>>]
  /\ observed' = [s \in Subscribers |-> 0]
  /\ seen' = [s \in Subscribers |-> 0]
  /\ UNCHANGED <<storeVars, value, version, cursor, known>>

\* It has completed the requests it found; the channel begins at the high water.
Serve ==
  /\ worker = "recovery"
  /\ reserved = {}
  /\ worker' = "idle"
  /\ value' = HighWater
  /\ version' = 0
  /\ UNCHANGED <<storeVars, streamVars, restarts>>

--------------------------------------------------------------------------------

StreamStep(s) == Observe(s) \/ Read(s) \/ ReadRefused(s) \/ Write(s) \/ Check(s) \/ Wake(s)

StreamNext ==
  \/ Commit \/ Reserve \/ Notify \/ Restart \/ Serve
  \/ \E n \in reserved : CompleteArchive(n) \/ CompleteDelete(n)
  \/ \E s \in Subscribers : Snapshot(s) \/ Subscribe(s) \/ StreamStep(s) \/ Disconnect(s)

StreamSpec == StreamInit /\ [][StreamNext]_eventVars

\* The worker thread goes on after a request and tokio runs streams that are ready.
\* Nothing is assumed of clients, nor that a reserved event ever comes.
StreamFairness ==
  /\ WF_eventVars(Notify)
  /\ \A s \in Subscribers : SF_eventVars(StreamStep(s))

FairStreamSpec == StreamSpec /\ StreamFairness

--------------------------------------------------------------------------------
(* Properties. *)

\* The state has its types; a sequence is taken once, by an event or by a request.
StreamTypeOK ==
  /\ sequence \in 0..MaxSequence
  /\ scoped \subseteq 1..sequence /\ others \subseteq 1..sequence
  /\ reserved \subseteq late /\ late \subseteq 1..sequence
  /\ scoped \cap others = {} /\ (scoped \cup others) \cap reserved = {}
  /\ requests \in 0..MaxReserved /\ restarts \in 0..MaxRestarts
  /\ worker \in {"idle", "notify", "force", "recovery"}
  /\ value \in 0..sequence /\ version \in Nat
  /\ stage \in [Subscribers -> Stages]
  /\ cursor \in [Subscribers -> 0..sequence]
  /\ known \in [Subscribers -> SUBSET (1..sequence)]
  /\ observed \in [Subscribers -> 0..sequence]
  /\ seen \in [Subscribers -> Nat]
  /\ page \in [Subscribers -> Seq(1..sequence)]

\* A stream never sleeps through an event (lost wakeup): if there is one after its
\* cursor, the channel has changed since it looked, or the worker is about to change it.
SleepersAreWoken ==
  \A s \in Subscribers :
    stage[s] = "asleep" /\ Unread(s) # {} => version # seen[s] \/ worker \in {"notify", "force"}

\* A client knows every event up to its cursor that was there when its sequence was
\* taken, over pages, slow writes, reconnects and restarts; session and steering events
\* are all so.
CommittedAreKnown ==
  \A s \in Subscribers : \A n \in scoped \ late : n <= cursor[s] => n \in known[s]

\* The stream of a client that stays connected catches up with every event that was
\* after its cursor (unless a deletion removes it), also with one completed below the
\* number in the channel.
EventsArrive ==
  \A s \in Subscribers : \A n \in 1..MaxSequence :
    stage[s] # "off" /\ n \in Unread(s) ~> stage[s] = "off" \/ n \notin Unread(s)
================================================================================

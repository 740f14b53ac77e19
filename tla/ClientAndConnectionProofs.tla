----------------------- MODULE ClientAndConnectionProofs -----------------------
(***************************************************************************)
(* Theorems about Client and Connection, for every number of sessions,     *)
(* clients, servers and faults.                                            *)
(*                                                                         *)
(* Client: the identifiers a client has in use, those with a receipt,      *)
(* those in its queue and the one it keeps for a retry, are never more     *)
(* than the mutations it started; the argument is that every handler but   *)
(* start_mutation leaves them alone or drops some.  What it shows of a     *)
(* session is a page of the log and the events the stream has told since;  *)
(* the argument is that a page has no hole, that every event handled is    *)
(* the next after the position of the view, and that an entry the view     *)
(* does not take makes it historical.                                      *)
(*                                                                         *)
(* Connection: every process looks at the control directory, and changes   *)
(* it, in steps of its own; the argument is that the host lock is kept by  *)
(* a server until it ends, and that whatever a client has seen of the      *)
(* files stays true until some server publishes or ends.                   *)
(***************************************************************************)
EXTENDS Client, Connection, FiniteSetTheorems, TLAPS

--------------------------------------------------------------------------------
(* The identifiers a client has given out. *)

IsQueue(q) == \E S : q \in Seq(S)

\* The mutations of a queue, by their identifiers.
IdsIn(q) == {q[i].id : i \in {j \in DOMAIN q : q[j].op \in Mutations}}

\* The identifiers that are in use: executed, on their way, or kept for a retry.
IdsOf(v, k) ==
  DOMAIN v.receipts \cup IdsIn(k.q) \cup (IF k.cmd = NoCommand THEN {} ELSE {k.cmd.id})

ClientFields ==
  {"view", "list", "catCur", "loading", "follows", "pending", "unknown", "cmd", "cred",
   "requested", "gen", "refresh", "sub", "cat", "exit", "issued", "shuffled", "relisted", "q"}

\* No more identifiers are in use than mutations were asked for.
IdsAreIssued ==
  /\ DOMAIN c = ClientFields /\ IsQueue(c.q) /\ c.issued \in Nat
  /\ "receipts" \in DOMAIN server
  /\ IsFiniteSet(IdsOf(server, c)) /\ Cardinality(IdsOf(server, c)) <= c.issued

\* j is k after a handler that starts no mutation.
Keeps(k, j) ==
  DOMAIN k = ClientFields /\ IsQueue(k.q) =>
    /\ DOMAIN j = ClientFields /\ IsQueue(j.q) /\ j.issued = k.issued
    /\ j.cmd \in {k.cmd, NoCommand} /\ IdsIn(j.q) \subseteq IdsIn(k.q)

\* A handler that leaves alone what the identifiers are read from.
Aside(k, j) ==
  DOMAIN k = ClientFields =>
    DOMAIN j = ClientFields /\ j.issued = k.issued /\ j.cmd = k.cmd /\ j.q = k.q

LEMMA AsideKeeps == \A k, j : Aside(k, j) => Keeps(k, j)
BY DEF Aside, Keeps

LEMMA AsideTwice == \A k, j, l : Aside(k, j) /\ Aside(j, l) => Aside(k, l)
BY DEF Aside

LEMMA KeepsTwice == \A k, j, l : Keeps(k, j) /\ Keeps(j, l) => Keeps(k, l)
BY DEF Keeps

LEMMA QueueAppend ==
  ASSUME NEW q, IsQueue(q), NEW m
  PROVE  /\ IsQueue(Append(q, m))
         /\ IdsIn(Append(q, m)) \subseteq IdsIn(q) \cup {m.id}
         /\ m.op \notin Mutations => IdsIn(Append(q, m)) \subseteq IdsIn(q)
<1>1. PICK S : q \in Seq(S)
  BY DEF IsQueue
<1> DEFINE T == S \cup {m}
           p == Append(q, m)
<1>2. q \in Seq(T) /\ m \in T
  BY <1>1
<1>3. /\ p \in Seq(T) /\ DOMAIN p = 1 .. (Len(q) + 1) /\ DOMAIN q = 1 .. Len(q)
      /\ Len(q) \in Nat /\ p[Len(q) + 1] = m /\ \A i \in 1 .. Len(q) : p[i] = q[i]
  BY <1>2
<1>4. \A i \in DOMAIN p : (i \in DOMAIN q /\ p[i] = q[i]) \/ p[i] = m
  BY <1>3
<1> QED
  BY <1>3, <1>4 DEF IsQueue, IdsIn

LEMMA QueueTail ==
  ASSUME NEW q, IsQueue(q), q # <<>>
  PROVE  IsQueue(Tail(q)) /\ IdsIn(Tail(q)) \subseteq IdsIn(q)
<1>1. PICK S : q \in Seq(S)
  BY DEF IsQueue
<1>2. /\ Tail(q) \in Seq(S) /\ DOMAIN Tail(q) = 1 .. (Len(q) - 1) /\ Len(q) \in Nat
      /\ DOMAIN q = 1 .. Len(q) /\ \A i \in 1 .. (Len(q) - 1) : Tail(q)[i] = q[i + 1]
  BY <1>1
<1>3. \A i \in DOMAIN Tail(q) : i + 1 \in DOMAIN q /\ Tail(q)[i] = q[i + 1]
  BY <1>2
<1> QED
  BY <1>2, <1>3 DEF IsQueue, IdsIn

LEMMA QueueHead ==
  ASSUME NEW q, IsQueue(q), q # <<>>, Head(q).op \in Mutations
  PROVE  Head(q).id \in IdsIn(q)
<1>1. PICK S : q \in Seq(S)
  BY DEF IsQueue
<1>2. 1 \in DOMAIN q /\ Head(q) = q[1]
  BY <1>1
<1> QED
  BY <1>2 DEF IdsIn

--------------------------------------------------------------------------------
(* What the handlers do to the queue and to the command that is kept. *)

LEMMA FailAside == \A k, why : Aside(k, Fail(k, why))
BY DEF Aside, Fail, ClientFields

LEMMA SendKeeps ==
  ASSUME NEW k, NEW m, m.op \notin Mutations
  PROVE  Keeps(k, Send(k, m))
<1>1. CASE k.exit # "None"
  BY <1>1 DEF Send, Keeps
<1>2. CASE k.exit = "None" /\ Len(k.q) > Capacity
  BY <1>2, FailAside, AsideKeeps DEF Send
<1>3. CASE k.exit = "None" /\ ~(Len(k.q) > Capacity)
  <2>1. Send(k, m) = [k EXCEPT !.q = Append(@, m)]
    BY <1>3 DEF Send
  <2> SUFFICES ASSUME DOMAIN k = ClientFields, IsQueue(k.q)
               PROVE  /\ DOMAIN Send(k, m) = ClientFields /\ IsQueue(Send(k, m).q)
                      /\ Send(k, m).issued = k.issued /\ Send(k, m).cmd = k.cmd
                      /\ IdsIn(Send(k, m).q) \subseteq IdsIn(k.q)
    BY DEF Keeps
  <2>2. /\ DOMAIN Send(k, m) = ClientFields /\ Send(k, m).q = Append(k.q, m)
        /\ Send(k, m).issued = k.issued /\ Send(k, m).cmd = k.cmd
    BY <2>1 DEF ClientFields
  <2> QED
    BY <2>2, QueueAppend
<1> QED
  BY <1>1, <1>2, <1>3

LEMMA QueriesKeep == \A k, s, op : op \notin Mutations => Keeps(k, Send(k, Query(op, s)))
<1> TAKE k, s, op
<1>1. Query(op, s).op = op
  BY DEF Query, Command
<1> QED
  BY <1>1, SendKeeps

\* What enqueue_initial_queries adds is queries.
LEMMA InitialQueue ==
  ASSUME NEW k, DOMAIN k = ClientFields, IsQueue(k.q)
  PROVE  LET j == EnqueueInitialQueries(k)
         IN  /\ DOMAIN j = ClientFields /\ IsQueue(j.q)
             /\ \A x \in ClientFields \ {"q", "exit"} : j[x] = k[x]
             /\ \A i \in DOMAIN j.q :
                  \/ i \in DOMAIN k.q /\ j.q[i] = k.q[i]
                  \/ \E op \in {"Sessions", "Status", "Default", "Settings", "Models"} :
                       j.q[i] = Query(op, NoSession)
<1> DEFINE room == Capacity + 1 - Len(k.q)
           D == {i \in DOMAIN InitialQueries : i <= room}
           sent == [i \in D |-> Query(InitialQueries[i], NoSession)]
           q == k.q \o sent
           j == EnqueueInitialQueries(k)
<1>1. j = [k EXCEPT !.q = q, !.exit = IF room < Len(InitialQueries) THEN "Queue" ELSE @]
  BY DEF EnqueueInitialQueries
<1>2. DOMAIN j = ClientFields /\ j.q = q /\ \A x \in ClientFields \ {"q", "exit"} : j[x] = k[x]
  BY <1>1 DEF ClientFields
<1>3. PICK S : k.q \in Seq(S)
  BY DEF IsQueue
<1>4. /\ Len(k.q) \in Nat /\ Capacity \in Nat /\ room \in Int
      /\ Len(InitialQueries) \in Nat /\ DOMAIN InitialQueries = 1 .. Len(InitialQueries)
      /\ \A i \in DOMAIN InitialQueries :
           InitialQueries[i] \in {"Sessions", "Status", "Default", "Settings", "Models"}
  BY <1>3, ClientAssumption
<1> DEFINE n == IF room < 0 THEN 0 ELSE IF room < Len(InitialQueries) THEN room
                ELSE Len(InitialQueries)
           T == {sent[i] : i \in D}
<1>5. n \in Nat /\ D = 1 .. n
  <2> DEFINE l == Len(InitialQueries)
  <2>1. l \in Nat /\ room \in Int /\ DOMAIN InitialQueries = 1 .. l
    BY <1>4
  <2>2. D = {i \in 1 .. l : i <= room} /\ n = (IF room < 0 THEN 0 ELSE IF room < l THEN room ELSE l)
    BY <2>1
  <2> HIDE DEF D, n, room, l
  <2>3. n \in Nat
    BY <2>1, <2>2
  <2>4. \A i : i \in D <=> i \in 1 .. n
    BY <2>1, <2>2
  <2> QED
    BY <2>3, <2>4
<1>6. sent \in [1 .. n -> T]
  BY <1>5
<1>7. sent \in Seq(T)
  <2> HIDE DEF sent, T, n, D
  <2> QED
    BY <1>5, <1>6
<1>8. k.q \in Seq(S \cup T) /\ sent \in Seq(S \cup T)
  <2> HIDE DEF sent, T
  <2> QED
    BY <1>3, <1>7
<1>9. /\ q \in Seq(S \cup T) /\ DOMAIN q = 1 .. (Len(k.q) + Len(sent))
      /\ \A i \in DOMAIN q : q[i] = IF i <= Len(k.q) THEN k.q[i] ELSE sent[i - Len(k.q)]
      /\ DOMAIN k.q = 1 .. Len(k.q) /\ DOMAIN sent = 1 .. Len(sent) /\ Len(sent) \in Nat
  <2> HIDE DEF sent, T
  <2> QED
    BY <1>8
<1>10. /\ DOMAIN sent = D
       /\ \A i \in D : \E op \in {"Sessions", "Status", "Default", "Settings", "Models"} :
            sent[i] = Query(op, NoSession)
  BY <1>4
<1>11. ASSUME NEW i \in DOMAIN q
       PROVE  \/ i \in DOMAIN k.q /\ q[i] = k.q[i]
              \/ \E op \in {"Sessions", "Status", "Default", "Settings", "Models"} :
                   q[i] = Query(op, NoSession)
  <2> HIDE DEF q, sent, D
  <2>1. CASE i <= Len(k.q)
    BY <1>4, <1>9, <2>1
  <2>2. CASE ~(i <= Len(k.q))
    <3>1. i - Len(k.q) \in DOMAIN sent /\ q[i] = sent[i - Len(k.q)]
      BY <1>4, <1>9, <2>2
    <3> QED
      BY <1>10, <3>1
  <2> QED
    BY <2>1, <2>2
<1> HIDE DEF q, j
<1> QED
  BY <1>2, <1>9, <1>11 DEF IsQueue, j

LEMMA InitialQueriesKeep == \A k : Keeps(k, EnqueueInitialQueries(k))
<1> TAKE k
<1> DEFINE j == EnqueueInitialQueries(k)
<1> SUFFICES ASSUME DOMAIN k = ClientFields, IsQueue(k.q)
             PROVE  /\ DOMAIN j = ClientFields /\ IsQueue(j.q) /\ j.issued = k.issued
                    /\ j.cmd = k.cmd /\ IdsIn(j.q) \subseteq IdsIn(k.q)
  BY DEF Keeps
<1> HIDE DEF j
<1>1. /\ DOMAIN j = ClientFields /\ IsQueue(j.q)
      /\ \A x \in ClientFields \ {"q", "exit"} : j[x] = k[x]
      /\ \A i \in DOMAIN j.q :
           \/ i \in DOMAIN k.q /\ j.q[i] = k.q[i]
           \/ \E op \in {"Sessions", "Status", "Default", "Settings", "Models"} :
                j.q[i] = Query(op, NoSession)
  BY InitialQueue DEF j
<1>2. j.issued = k.issued /\ j.cmd = k.cmd
  BY <1>1 DEF ClientFields
<1>3. \A op \in {"Sessions", "Status", "Default", "Settings", "Models"} :
        Query(op, NoSession).op \notin Mutations
  BY DEF Query, Command, Mutations
<1>4. \A i \in DOMAIN j.q : j.q[i].op \in Mutations => i \in DOMAIN k.q /\ j.q[i] = k.q[i]
  BY <1>1, <1>3
<1>5. IdsIn(j.q) \subseteq IdsIn(k.q)
  BY <1>4 DEF IdsIn
<1> QED
  BY <1>1, <1>2, <1>5

LEMMA ViewsAside ==
  /\ \A k : Aside(k, CloseSession(k)) /\ Aside(k, Detach(k)) /\ Aside(k, RefreshDone(k))
           /\ Aside(k, PageFailed(k)) /\ Aside(k, k)
  /\ \A k, w : Aside(k, OpenSessionWindow(k, w)) /\ Aside(k, Resubscribe(k, w))
  /\ \A k, id : Aside(k, FinishCredentialMutation(k, id))
BY FailAside DEF Aside, ClientFields, CloseSession, Detach, RefreshDone, PageFailed,
   OpenSessionWindow, Resubscribe, FinishCredentialMutation

LEMMA WindowAside == \A k, w, target : Aside(k, InstallTranscriptWindow(k, w, target))
<1> TAKE k, w, target
<1>1. PICK view, loading, follows :
        \/ InstallTranscriptWindow(k, w, target) = Fail(k, "Session")
        \/ InstallTranscriptWindow(k, w, target)
             = [k EXCEPT !.view = view, !.loading = loading, !.follows = follows]
  BY DEF InstallTranscriptWindow
<1> QED
  BY <1>1, FailAside DEF Aside, ClientFields

LEMMA RunAside == \A k, s, r, st : Aside(k, ApplyRun(k, s, r, st))
<1> TAKE k, s, r, st
<1>1. PICK view : \/ ApplyRun(k, s, r, st) \in {Fail(k, "Session"), Fail(k, "Run")}
                  \/ ApplyRun(k, s, r, st) = [k EXCEPT !.view = view]
  BY DEF ApplyRun
<1> QED
  BY <1>1, FailAside DEF Aside, ClientFields

LEMMA EntryAside == \A k, e : Aside(k, ApplyEntry(k, e))
<1> TAKE k, e
<1>1. PICK view : ApplyEntry(k, e) = k \/ ApplyEntry(k, e) = [k EXCEPT !.view = view]
  BY DEF ApplyEntry
<1> QED
  BY <1>1 DEF Aside, ClientFields

LEMMA DeltaAside == \A k, r : Aside(k, ApplyDelta(k, r))
BY FailAside DEF Aside, ClientFields, ApplyDelta

LEMMA SessionEventAside == \A k, s, e : Aside(k, ApplySessionEvent(k, s, e))
<1> TAKE k, s, e
<1> DEFINE o == server.log[s][e]
           a == ApplyRun(k, s, o.r, o.v)
           d == CASE o.k = "entry" -> ApplyEntry(k, e)
                  [] o.k = "run"   -> IF a.exit # "None" \/ ~Historical(k.view) THEN a
                                      ELSE [a EXCEPT !.view.deferred = TRUE]
                  [] OTHER         -> [k EXCEPT !.view.cmd = e]
<1>1. CASE k.view.s # s
  BY <1>1, FailAside DEF ApplySessionEvent
<1>2. CASE k.view.s = s
  <2>1. ApplySessionEvent(k, s, e) = [d EXCEPT !.view.cur = e]
    BY <1>2 DEF ApplySessionEvent
  <2>2. Aside(k, a)
    BY RunAside
  <2>3. Aside(k, [a EXCEPT !.view.deferred = TRUE])
    <3> HIDE DEF a
    <3> QED
      BY <2>2 DEF Aside, ClientFields
  <2>4. Aside(k, ApplyEntry(k, e))
    BY EntryAside
  <2>5. Aside(k, [k EXCEPT !.view.cmd = e])
    BY DEF Aside, ClientFields
  <2>6. d \in {ApplyEntry(k, e), a, [a EXCEPT !.view.deferred = TRUE], [k EXCEPT !.view.cmd = e]}
    <3> HIDE DEF a, o
    <3> QED
      OBVIOUS
  <2>7. Aside(k, d)
    <3> HIDE DEF d, a
    <3> QED
      BY <2>2, <2>3, <2>4, <2>5, <2>6
  <2> HIDE DEF d
  <2> QED
    BY <2>1, <2>7 DEF Aside, ClientFields
<1> QED
  BY <1>1, <1>2

LEMMA CatalogAside ==
  /\ \A k, s : Aside(k, SessionDeleted(k, s))
  /\ \A k, o : Aside(k, ApplyCatalogEvent(k, o))
<1>1. ASSUME NEW k, NEW s
      PROVE  Aside(k, SessionDeleted(k, s))
  <2> DEFINE j == [k EXCEPT !.list = [x \in DOMAIN @ \ {s} |-> @[x]]]
  <2>1. Aside(k, j)
    BY DEF Aside, ClientFields
  <2>2. SessionDeleted(k, s) \in {j, CloseSession(j)}
    BY DEF SessionDeleted
  <2> HIDE DEF j
  <2> QED
    BY <2>1, <2>2, ViewsAside, AsideTwice
<1>2. ASSUME NEW k, NEW o
      PROVE  Aside(k, ApplyCatalogEvent(k, o))
  <2>1. CASE o.k = "Created"
    <3>1. PICK list : ApplyCatalogEvent(k, o) = [k EXCEPT !.list = list]
      BY <2>1 DEF ApplyCatalogEvent
    <3> QED
      BY <3>1 DEF Aside, ClientFields
  <2>2. CASE o.k = "Removed"
    BY <1>1, <2>2 DEF ApplyCatalogEvent
  <2>3. CASE o.k \notin {"Created", "Removed"} /\ o.s \notin DOMAIN k.list
    BY <2>3, FailAside DEF ApplyCatalogEvent
  <2>4. CASE o.k \notin {"Created", "Removed"} /\ o.s \in DOMAIN k.list
    <3> DEFINE j == [k EXCEPT !.list[o.s] = o.archived]
    <3>1. Aside(k, j) /\ Aside(j, [j EXCEPT !.view.archived = o.archived])
      BY DEF Aside, ClientFields
    <3>2. ApplyCatalogEvent(k, o) \in {j, [j EXCEPT !.view.archived = o.archived]}
      BY <2>4 DEF ApplyCatalogEvent
    <3> HIDE DEF j
    <3> QED
      BY <3>1, <3>2, AsideTwice
  <2> QED
    BY <2>1, <2>2, <2>3, <2>4
<1> QED
  BY <1>1, <1>2

LEMMA FinishKeeps == \A k, id : Keeps(k, FinishMutation(k, id))
<1> TAKE k, id
<1>1. CASE k.cmd.id # id
  BY <1>1, FailAside, AsideKeeps DEF FinishMutation
<1>2. CASE k.cmd.id = id
  BY <1>2 DEF FinishMutation, Keeps, ClientFields
<1> QED
  BY <1>1, <1>2

LEMMA LoadKeeps == \A k, s : Keeps(k, LoadRequested(k, s))
<1> TAKE k, s
<1> DEFINE j == [k EXCEPT !.requested = s]
           i == IF k.refresh = 0 THEN Send(j, Query("Default", NoSession)) ELSE j
<1>1. LoadRequested(k, s) = Send(i, Query("Load", s))
  BY DEF LoadRequested
<1>2. Aside(k, j)
  BY DEF Aside, ClientFields
<1> HIDE DEF j
<1>3. Keeps(k, j) /\ Keeps(j, j)
  BY <1>2, AsideKeeps, ViewsAside
<1>4. "Default" \notin Mutations /\ "Load" \notin Mutations
  BY DEF Mutations
<1>5. Keeps(j, i)
  BY <1>3, <1>4, QueriesKeep
<1> HIDE DEF i
<1> QED
  BY <1>1, <1>3, <1>4, <1>5, QueriesKeep, KeepsTwice

LEMMA QueryAnswerKeeps == \A k, a : Keeps(k, HandleQueryAnswer(k, a))
<1> TAKE k, a
<1>1. CASE a.t = "Sessions"
  <2>1. PICK list, cursor, task :
          HandleQueryAnswer(k, a)
            = [RefreshDone(k) EXCEPT !.list = list, !.catCur = cursor, !.cat = task]
    BY <1>1 DEF HandleQueryAnswer
  <2>2. Aside(RefreshDone(k), HandleQueryAnswer(k, a))
    BY <2>1 DEF Aside, ClientFields
  <2> QED
    BY <2>2, ViewsAside, AsideTwice, AsideKeeps
<1>2. CASE a.t = "Loaded"
  <2>1. HandleQueryAnswer(k, a) \in {k, Resubscribe(OpenSessionWindow(k, a.w), a.w)}
    BY <1>2 DEF HandleQueryAnswer
  <2> QED
    BY <2>1, ViewsAside, AsideTwice, AsideKeeps
<1>3. CASE a.t = "Window"
  <2> DEFINE j == InstallTranscriptWindow(k, a.w, a.x)
  <2>1. HandleQueryAnswer(k, a) \in {k, j, Resubscribe(j, a.w)}
    BY <1>3 DEF HandleQueryAnswer
  <2>2. Aside(k, j)
    BY WindowAside
  <2> HIDE DEF j
  <2> QED
    BY <2>1, <2>2, ViewsAside, AsideTwice, AsideKeeps
<1>4. CASE a.t = "Context"
  <2>1. HandleQueryAnswer(k, a) \in {k, Fail(k, "Session")}
    BY <1>4 DEF HandleQueryAnswer
  <2> QED
    BY <2>1, ViewsAside, FailAside, AsideKeeps
<1>5. CASE a.t = "QueryFailed"
  <2>1. \E j \in {k, RefreshDone(k)} : HandleQueryAnswer(k, a) \in {j, PageFailed(j)}
    BY <1>5 DEF HandleQueryAnswer
  <2> QED
    BY <2>1, ViewsAside, AsideTwice, AsideKeeps
<1>6. CASE a.t \notin {"Sessions", "Loaded", "Window", "Context", "QueryFailed"}
  <2>1. HandleQueryAnswer(k, a) = RefreshDone(k)
    BY <1>6 DEF HandleQueryAnswer
  <2> QED
    BY <2>1, ViewsAside, AsideKeeps
<1> QED
  BY <1>1, <1>2, <1>3, <1>4, <1>5, <1>6

LEMMA MutationAnswerKeeps == \A k, a : Keeps(k, HandleMutationAnswer(k, a))
<1> TAKE k, a
<1> DEFINE f == FinishMutation(k, a.id)
           g == FinishCredentialMutation(k, a.id)
           h == HandleMutationAnswer(k, a)
<1>1. Keeps(k, f) /\ Keeps(k, g) /\ Keeps(k, k)
  BY FinishKeeps, ViewsAside, AsideKeeps
<1>2. CASE a.t = "MutationUnknown"
  <2>1. h = Fail(k, "Answer") \/ h = [k EXCEPT !.unknown = k.pending]
    BY <1>2 DEF HandleMutationAnswer
  <2>2. Aside(k, [k EXCEPT !.unknown = k.pending])
    BY DEF Aside, ClientFields
  <2> HIDE DEF h
  <2> QED
    BY <2>1, <2>2, FailAside, AsideKeeps DEF h
<1>3. CASE a.t = "MutationFailed"
  BY <1>1, <1>3 DEF HandleMutationAnswer
<1>4. CASE a.t \in {"Credential", "CredentialFailed"}
  <2>1. h \in {g, Send(g, Query("Status", NoSession))}
    BY <1>4 DEF HandleMutationAnswer
  <2>2. Keeps(g, Send(g, Query("Status", NoSession)))
    BY QueriesKeep DEF Mutations
  <2> HIDE DEF h, g
  <2> QED
    BY <1>1, <2>1, <2>2, KeepsTwice DEF h
<1> DEFINE Early == {"MutationUnknown", "MutationFailed", "Credential", "CredentialFailed"}
<1>5. CASE a.t \notin Early /\ f.exit # "None"
  BY <1>1, <1>5 DEF HandleMutationAnswer
<1>6. CASE a.t \notin Early /\ f.exit = "None"
  <2>1. SUFFICES Keeps(f, h)
    <3> HIDE DEF f, h
    <3> QED
      BY <1>1, <2>1, KeepsTwice DEF h
  <2> DEFINE Log == Early
  <2>2. CASE a.t = "Create"
    <3> DEFINE l == ApplyCatalogEvent(f, [k |-> "Created", s |-> a.s])
    <3>1. h = LoadRequested(l, a.s)
      BY <1>6, <2>2 DEF HandleMutationAnswer
    <3>2. Keeps(f, l) /\ Keeps(l, LoadRequested(l, a.s))
      BY CatalogAside, AsideKeeps, LoadKeeps
    <3> HIDE DEF f, h, l
    <3> QED
      BY <3>1, <3>2, KeepsTwice
  <2>3. CASE a.t \in {"Rename", "Archive"}
    <3>1. \E o : h = ApplyCatalogEvent(f, o)
      BY <1>6, <2>3 DEF HandleMutationAnswer
    <3> HIDE DEF f, h
    <3> QED
      BY <3>1, CatalogAside, AsideKeeps
  <2>4. CASE a.t = "Delete"
    <3>1. \E j \in {f, Detach(f)} : h = SessionDeleted(j, a.s)
      BY <1>6, <2>4 DEF HandleMutationAnswer
    <3> HIDE DEF f, h
    <3> QED
      BY <3>1, CatalogAside, ViewsAside, AsideTwice, AsideKeeps
  <2>5. CASE a.t = "Submit"
    <3> DEFINE j == [f EXCEPT !.follows = TRUE]
    <3>1. h = ApplyRun(j, a.s, a.x, a.v)
      BY <1>6, <2>5 DEF HandleMutationAnswer
    <3>2. Aside(f, j) /\ Aside(j, ApplyRun(j, a.s, a.x, a.v))
      <4> HIDE DEF f
      <4>1. Aside(f, j)
        BY DEF Aside, ClientFields
      <4> QED
        BY <4>1, RunAside
    <3> HIDE DEF f, h, j
    <3> QED
      BY <3>1, <3>2, AsideTwice, AsideKeeps
  <2>6. CASE a.t = "Exec"
    <3>1. \/ h = Fail(f, "Session")
          \/ \E x : h = [f EXCEPT !.follows = TRUE, !.view.cmd = x]
      <4> HIDE DEF f
      <4> QED
        BY <1>6, <2>6 DEF HandleMutationAnswer, f
    <3> HIDE DEF f, h
    <3>2. \A x : Aside(f, [f EXCEPT !.follows = TRUE, !.view.cmd = x])
      BY DEF Aside, ClientFields
    <3> QED
      BY <3>1, <3>2, FailAside, AsideKeeps
  <2>7. CASE a.t = "CancelRun"
    <3> DEFINE j == [f EXCEPT !.view.runs[a.x] = a.v]
               l == [j EXCEPT !.view.act = 0, !.view.transient = 0]
    <3>1. h \in {Fail(f, "Session"), Fail(f, "Run"), j, l}
      <4> HIDE DEF f
      <4> QED
        BY <1>6, <2>7 DEF HandleMutationAnswer, f
    <3> HIDE DEF f, h
    <3>2. Aside(f, j)
      BY DEF Aside, ClientFields
    <3> HIDE DEF j
    <3>3. Aside(j, l)
      BY DEF Aside, ClientFields
    <3> HIDE DEF l
    <3> QED
      BY <3>1, <3>2, <3>3, FailAside, AsideTwice, AsideKeeps
  <2>8. CASE a.t = "CancelCmd"
    <3>1. h \in {Fail(f, "Command"), f}
      BY <1>6, <2>8 DEF HandleMutationAnswer
    <3> HIDE DEF f, h
    <3> QED
      BY <3>1, FailAside, ViewsAside, AsideKeeps
  <2>9. CASE a.t \notin {"Create", "Rename", "Archive", "Delete", "Submit", "Exec", "CancelRun",
                         "CancelCmd"}
    <3>1. h \in {Fail(f, "Quit"), f}
      BY <1>6, <2>9 DEF HandleMutationAnswer
    <3> HIDE DEF f, h
    <3> QED
      BY <3>1, FailAside, ViewsAside, AsideKeeps
  <2> QED
    BY <2>2, <2>3, <2>4, <2>5, <2>6, <2>7, <2>8, <2>9
<1> QED
  BY <1>2, <1>3, <1>4, <1>5, <1>6

LEMMA SubscriptionEventKeeps == \A k, e : Keeps(k, HandleSubscriptionEvent(k, e))
<1> TAKE k, e
<1> DEFINE h == HandleSubscriptionEvent(k, e)
<1>1. Keeps(k, k)
  BY ViewsAside, AsideKeeps
<1>2. CASE e.t = "Catalog"
  <2>1. PICK i \in {k, Detach(k)} : h = [ApplyCatalogEvent(i, e) EXCEPT !.catCur = e.at]
    BY <1>2 DEF HandleSubscriptionEvent
  <2> DEFINE l == ApplyCatalogEvent(i, e)
  <2>2. Aside(k, i) /\ Aside(i, l)
    BY ViewsAside, CatalogAside
  <2> HIDE DEF l
  <2>3. Aside(l, [l EXCEPT !.catCur = e.at])
    BY DEF Aside, ClientFields
  <2> HIDE DEF h
  <2> QED
    BY <2>1, <2>2, <2>3, AsideTwice, AsideKeeps DEF l, h
<1>3. CASE e.t = "Session" /\ e.gen = k.gen
  <2> DEFINE j == ApplySessionEvent(k, e.s, e.at)
             l == [j EXCEPT !.loading = TRUE]
  <2>1. h \in {j, Send(l, LatestOf(j.view.s))}
    BY <1>3 DEF HandleSubscriptionEvent
  <2>2. Keeps(k, j)
    BY SessionEventAside, AsideKeeps
  <2> HIDE DEF j
  <2>3. Aside(j, l)
    BY DEF Aside, ClientFields
  <2>4. LatestOf(j.view.s).op \notin Mutations
    BY DEF LatestOf, Mutations
  <2> HIDE DEF h, l
  <2>5. Keeps(j, l) /\ Keeps(l, Send(l, LatestOf(j.view.s)))
    BY <2>3, <2>4, AsideKeeps, SendKeeps
  <2> QED
    BY <2>1, <2>2, <2>5, KeepsTwice DEF h
<1>4. CASE e.t = "Delta" /\ e.gen = k.gen
  <2>1. h \in {Fail(k, "Session"), ApplyDelta(k, e.r)}
    BY <1>4 DEF HandleSubscriptionEvent
  <2> QED
    BY <2>1, FailAside, DeltaAside, AsideKeeps
<1>5. CASE e.t = "CatalogSnapshotRequired" \/ e.t = "SessionSnapshotRequired"
  <2>1. \/ h = k
        \/ \E op \in {"Sessions", "Load"} : \E s : h = Send(k, Query(op, s))
    BY <1>5 DEF HandleSubscriptionEvent
  <2>2. \A op \in {"Sessions", "Load"} : op \notin Mutations
    BY DEF Mutations
  <2> QED
    BY <1>1, <2>1, <2>2, QueriesKeep
<1>6. CASE e.t = "SessionFailed"
  <2>1. h \in {k, [k EXCEPT !.view.transient = 0]}
    BY <1>6 DEF HandleSubscriptionEvent
  <2>2. Aside(k, [k EXCEPT !.view.transient = 0])
    BY DEF Aside, ClientFields
  <2> QED
    BY <1>1, <2>1, <2>2, AsideKeeps
<1>7. CASE e.t = "Session" /\ e.gen # k.gen
  BY <1>1, <1>7 DEF HandleSubscriptionEvent
<1>8. CASE e.t = "Delta" /\ e.gen # k.gen
  BY <1>1, <1>8 DEF HandleSubscriptionEvent
<1>9. CASE e.t \notin {"Catalog", "Session", "Delta", "CatalogSnapshotRequired",
                      "SessionSnapshotRequired", "SessionFailed"}
  <2>1. h = k
    BY <1>9 DEF HandleSubscriptionEvent
  <2> HIDE DEF h
  <2> QED
    BY <1>1, <2>1 DEF h
<1> QED
  BY <1>2, <1>3, <1>4, <1>5, <1>6, <1>7, <1>8, <1>9

--------------------------------------------------------------------------------
(* Receipts and steps. *)

SameReceipts(v, w) ==
  "receipts" \in DOMAIN v => "receipts" \in DOMAIN w /\ w.receipts = v.receipts

LEMMA LoggedReceipts ==
  /\ \A v, s, es : SameReceipts(v, Logged(v, s, es))
  /\ \A v, k, s : SameReceipts(v, Listed(v, k, s))
BY DEF SameReceipts, Logged, Listed

LEMMA AppliedReceipts == \A v, m : SameReceipts(v, Applied(v, m))
<1> TAKE v, m
<1> DEFINE w == Applied(v, m)
<1>1. /\ SameReceipts(v, v)
      /\ \A a, b, d : SameReceipts(a, b) /\ SameReceipts(b, d) => SameReceipts(a, d)
  BY DEF SameReceipts
<1>2. CASE m.op = "Create"
  <2>1. PICK live, unborn, s :
          w = Listed([v EXCEPT !.live = live, !.unborn = unborn], "Created", s)
    BY <1>2 DEF Applied
  <2>2. SameReceipts(v, [v EXCEPT !.live = live, !.unborn = unborn])
    BY DEF SameReceipts
  <2> HIDE DEF w
  <2> QED
    BY <1>1, <2>1, <2>2, LoggedReceipts DEF w
<1>3. CASE m.op = "Rename"
  BY <1>3, LoggedReceipts DEF Applied
<1>4. CASE m.op = "Archive"
  <2>1. PICK archived : w = Listed([v EXCEPT !.archived = archived], "Changed", m.s)
    BY <1>4 DEF Applied
  <2>2. SameReceipts(v, [v EXCEPT !.archived = archived])
    BY DEF SameReceipts
  <2> HIDE DEF w
  <2> QED
    BY <1>1, <2>1, <2>2, LoggedReceipts DEF w
<1>5. CASE m.op = "Delete"
  <2>1. PICK live : w = Listed([v EXCEPT !.live = live], "Removed", m.s)
    BY <1>5 DEF Applied
  <2>2. SameReceipts(v, [v EXCEPT !.live = live])
    BY DEF SameReceipts
  <2> HIDE DEF w
  <2> QED
    BY <1>1, <2>1, <2>2, LoggedReceipts DEF w
<1>6. CASE m.op \in {"Submit", "Exec"}
  <2>1. \E es : w = Logged(v, m.s, es)
    BY <1>6 DEF Applied
  <2> HIDE DEF w
  <2> QED
    BY <2>1, LoggedReceipts DEF w
<1>7. CASE m.op \notin {"Create", "Rename", "Archive", "Delete", "Submit", "Exec"}
  <2>1. w = v \/ \E cancelled : \E es : w = Logged([v EXCEPT !.cancelled = cancelled], m.s, es)
    BY <1>7 DEF Applied
  <2>2. \A cancelled : SameReceipts(v, [v EXCEPT !.cancelled = cancelled])
    BY DEF SameReceipts
  <2> HIDE DEF w
  <2> QED
    BY <1>1, <2>1, <2>2, LoggedReceipts DEF w
<1> QED
  BY <1>2, <1>3, <1>4, <1>5, <1>6, <1>7

\* A request leaves a receipt under its own identifier, if any.
LEMMA ExecutedReceipts ==
  ASSUME NEW v, NEW m, "receipts" \in DOMAIN v
  PROVE  LET w == Executed(v, m).server
         IN  /\ "receipts" \in DOMAIN w
             /\ DOMAIN w.receipts \subseteq
                  DOMAIN v.receipts \cup (IF m.op \in Mutations THEN {m.id} ELSE {})
<1> DEFINE w == Executed(v, m).server
           a == Applied(v, m)
<1>1. CASE \/ m.op \notin Mutations \/ m.id \in DOMAIN v.receipts \/ ~Admitted(v, m)
  <2>1. w = v
    BY <1>1 DEF Executed
  <2> QED
    BY <2>1
<1>2. CASE m.op \in Mutations /\ m.id \notin DOMAIN v.receipts /\ Admitted(v, m)
  <2>1. w = [a EXCEPT !.receipts = [i \in DOMAIN @ \cup {m.id} |->
                                     IF i = m.id THEN Subject(v, m) ELSE @[i]]]
    BY <1>2 DEF Executed
  <2>2. "receipts" \in DOMAIN a /\ a.receipts = v.receipts
    BY AppliedReceipts DEF SameReceipts
  <2> HIDE DEF a, w
  <2>3. "receipts" \in DOMAIN w /\ DOMAIN w.receipts = DOMAIN v.receipts \cup {m.id}
    BY <2>1, <2>2
  <2> QED
    BY <1>2, <2>3 DEF w
<1> QED
  BY <1>1, <1>2

LEMMA FewerIds ==
  ASSUME IdsAreIssued, DOMAIN c' = ClientFields, IsQueue(c'.q), c'.issued = c.issued,
         "receipts" \in DOMAIN server', IdsOf(server, c)' \subseteq IdsOf(server, c)
  PROVE  IdsAreIssued'
<1> DEFINE old == IdsOf(server, c)
           new == IdsOf(server, c)'
<1>1. IsFiniteSet(old) /\ Cardinality(old) <= c.issued /\ c.issued \in Nat /\ new \subseteq old
  BY DEF IdsAreIssued
<1>2. IsFiniteSet(new) /\ Cardinality(new) <= Cardinality(old)
  BY <1>1, FS_Subset
<1>3. Cardinality(new) \in Nat /\ Cardinality(old) \in Nat
  BY <1>1, <1>2, FS_CardinalityType
<1>4. Cardinality(new) <= c'.issued
  BY <1>1, <1>2, <1>3
<1> QED
  BY <1>1, <1>2, <1>4 DEF IdsAreIssued

LEMMA OneMoreId ==
  ASSUME IdsAreIssued, DOMAIN c' = ClientFields, IsQueue(c'.q), c'.issued = c.issued + 1,
         "receipts" \in DOMAIN server', NEW x, IdsOf(server, c)' \subseteq IdsOf(server, c) \cup {x}
  PROVE  IdsAreIssued'
<1> DEFINE old == IdsOf(server, c)
           new == IdsOf(server, c)'
<1>1. /\ IsFiniteSet(old) /\ Cardinality(old) <= c.issued /\ c.issued \in Nat
      /\ new \subseteq old \cup {x}
  BY DEF IdsAreIssued
<1>2. /\ IsFiniteSet(old \cup {x}) /\ Cardinality(old) \in Nat
      /\ Cardinality(old \cup {x}) <= Cardinality(old) + 1
  <2> HIDE DEF old
  <2>1. Cardinality(old) \in Nat
    BY <1>1, FS_CardinalityType
  <2>2. /\ IsFiniteSet(old \cup {x})
        /\ \/ Cardinality(old \cup {x}) = Cardinality(old)
           \/ Cardinality(old \cup {x}) = Cardinality(old) + 1
    BY <1>1, FS_AddElement, Zenon
  <2> QED
    BY <2>1, <2>2
<1>3. /\ IsFiniteSet(new) /\ Cardinality(new) <= Cardinality(old \cup {x})
      /\ Cardinality(new) \in Nat /\ Cardinality(old \cup {x}) \in Nat
  <2> HIDE DEF old, new
  <2> QED
    BY <1>1, <1>2, FS_Subset, FS_CardinalityType
<1>4. Cardinality(new) <= c'.issued /\ c'.issued \in Nat
  <2> HIDE DEF old, new
  <2> QED
    BY <1>1, <1>2, <1>3
<1> QED
  BY <1>3, <1>4 DEF IdsAreIssued

\* A step in which the loop, or a key, handles something and starts nothing.
LEMMA KeptIds ==
  ASSUME IdsAreIssued, Keeps(c, c'), SameReceipts(server, server')
  PROVE  IdsAreIssued'
<1>1. /\ DOMAIN c = ClientFields /\ IsQueue(c.q) /\ "receipts" \in DOMAIN server
  BY DEF IdsAreIssued
<1>2. /\ DOMAIN c' = ClientFields /\ IsQueue(c'.q) /\ c'.issued = c.issued
      /\ c'.cmd \in {c.cmd, NoCommand} /\ IdsIn(c'.q) \subseteq IdsIn(c.q)
      /\ "receipts" \in DOMAIN server' /\ server'.receipts = server.receipts
  BY <1>1 DEF Keeps, SameReceipts
<1>3. IdsOf(server, c)' \subseteq IdsOf(server, c)
  BY <1>2 DEF IdsOf
<1> QED
  BY <1>2, <1>3, FewerIds

LEMMA PressKeeps ==
  ASSUME IdsAreIssued, NEW k, Press(k), Keeps(c, k)
  PROVE  IdsAreIssued'
<1>1. c' = k /\ server' = server
  BY DEF Press
<1> QED
  BY <1>1, KeptIds DEF SameReceipts

LEMMA PressStarts ==
  ASSUME IdsAreIssued, NEW m, Press(StartMutation(c, m)) \/ Press(StartCredentialMutation(c, m))
  PROVE  IdsAreIssued'
<1>1. server' = server /\ Keeps(c, c)
  BY ViewsAside, AsideKeeps DEF Press
<1> DEFINE j == Send(c, m)
<1>2. /\ DOMAIN c = ClientFields /\ IsQueue(c.q) /\ "receipts" \in DOMAIN server
  BY DEF IdsAreIssued
<1>3. CASE c' = c \/ \E why : c' = Fail(c, why)
  BY <1>1, <1>3, FailAside, AsideKeeps, KeptIds DEF SameReceipts
<1>4. CASE j.exit # "None" /\ c' = j
  <2>1. c.exit = "None"
    BY DEF Press
  <2>2. j \in {Fail(c, "Queue"), [c EXCEPT !.q = Append(@, m)]}
    BY <2>1 DEF Send
  <2>3. [c EXCEPT !.q = Append(@, m)].exit = c.exit
    BY <1>2 DEF ClientFields
  <2>4. c' = Fail(c, "Queue")
    BY <1>4, <2>1, <2>2, <2>3
  <2> QED
    BY <1>3, <2>4
<1>5. CASE /\ j.exit = "None"
           /\ \/ c' = [j EXCEPT !.cmd = m, !.pending = TRUE, !.unknown = FALSE, !.issued = @ + 1]
              \/ c' = [j EXCEPT !.cred = m.id, !.pending = TRUE, !.unknown = FALSE,
                               !.issued = @ + 1]
  <2>1. j \in {Fail(c, "Queue"), [c EXCEPT !.q = Append(@, m)]}
    BY DEF Send, Press
  <2>2. Fail(c, "Queue").exit # "None"
    BY <1>2 DEF Fail, ClientFields
  <2>3. j = [c EXCEPT !.q = Append(@, m)]
    BY <1>5, <2>1, <2>2
  <2>4. /\ DOMAIN j = ClientFields /\ j.q = Append(c.q, m) /\ j.issued = c.issued /\ j.cmd = c.cmd
    BY <1>2, <2>3 DEF ClientFields
  <2> HIDE DEF j
  <2>5. /\ DOMAIN c' = ClientFields /\ c'.q = Append(c.q, m) /\ c'.issued = c.issued + 1
        /\ c'.cmd \in {c.cmd, m}
    <3>1. CASE c' = [j EXCEPT !.cmd = m, !.pending = TRUE, !.unknown = FALSE, !.issued = @ + 1]
      BY <2>4, <3>1 DEF ClientFields
    <3>2. CASE c' = [j EXCEPT !.cred = m.id, !.pending = TRUE, !.unknown = FALSE,
                              !.issued = @ + 1]
      BY <2>4, <3>2 DEF ClientFields
    <3> QED
      BY <1>5, <3>1, <3>2
  <2>6. IsQueue(c'.q) /\ IdsIn(c'.q) \subseteq IdsIn(c.q) \cup {m.id}
    BY <1>2, <2>5, QueueAppend
  <2>7. IdsOf(server, c)' \subseteq IdsOf(server, c) \cup {m.id}
    BY <1>1, <2>5, <2>6 DEF IdsOf
  <2>8. "receipts" \in DOMAIN server'
    BY <1>1, <1>2
  <2> QED
    BY <2>5, <2>6, <2>7, <2>8, OneMoreId
<1>6. CASE Press(StartMutation(c, m))
  <2>1. c' = StartMutation(c, m)
    BY <1>6 DEF Press
  <2>2. \/ c' = c
        \/ j.exit # "None" /\ c' = j
        \/ /\ j.exit = "None"
           /\ c' = [j EXCEPT !.cmd = m, !.pending = TRUE, !.unknown = FALSE, !.issued = @ + 1]
    <3> HIDE DEF j
    <3> QED
      BY <2>1 DEF StartMutation, j
  <2> QED
    BY <1>3, <1>4, <1>5, <2>2
<1>7. CASE Press(StartCredentialMutation(c, m))
  <2>1. c' = StartCredentialMutation(c, m)
    BY <1>7 DEF Press
  <2>2. \/ c' = Fail(c, "Busy")
        \/ j.exit # "None" /\ c' = j
        \/ /\ j.exit = "None"
           /\ c' = [j EXCEPT !.cred = m.id, !.pending = TRUE, !.unknown = FALSE,
                            !.issued = @ + 1]
    <3> HIDE DEF j
    <3> QED
      BY <2>1 DEF StartCredentialMutation, j
  <2> QED
    BY <1>3, <1>4, <1>5, <2>2
<1> QED
  BY <1>6, <1>7

\* What is retried is in use already.
LEMMA RetriedIds ==
  ASSUME IdsAreIssued, KeyRetry
  PROVE  IdsAreIssued'
<1>1. CASE c.cmd = NoCommand
  <2>1. Press(Fail(c, "Queue"))
    BY <1>1 DEF KeyRetry
  <2> QED
    BY <2>1, FailAside, AsideKeeps, PressKeeps
<1>2. CASE c.cmd # NoCommand
  <2> DEFINE k == [c EXCEPT !.unknown = FALSE]
             j == Send(k, c.cmd)
  <2>1. /\ DOMAIN c = ClientFields /\ IsQueue(c.q) /\ "receipts" \in DOMAIN server
    BY DEF IdsAreIssued
  <2>2. /\ DOMAIN k = ClientFields /\ k.q = c.q /\ k.issued = c.issued /\ k.cmd = c.cmd
    BY <2>1 DEF ClientFields
  <2>3. k.cmd = c.cmd /\ Retried(c) = Send(k, c.cmd)
    BY <2>2 DEF Retried
  <2>4. c' = j /\ server' = server
    BY <1>2, <2>3 DEF KeyRetry, Press
  <2> HIDE DEF k
  <2>5. j \in {k, Fail(k, "Queue"), [k EXCEPT !.q = Append(@, c.cmd)]}
    BY DEF Send
  <2>6. /\ DOMAIN j = ClientFields /\ j.issued = c.issued /\ j.cmd = c.cmd
        /\ j.q \in {c.q, Append(c.q, c.cmd)}
    BY <2>2, <2>5 DEF Fail, ClientFields
  <2>7. /\ IsQueue(j.q) /\ IdsIn(j.q) \subseteq IdsIn(c.q) \cup {c.cmd.id}
    BY <2>1, <2>6, QueueAppend
  <2>8. c.cmd.id \in IdsOf(server, c)
    BY <1>2 DEF IdsOf
  <2> HIDE DEF j
  <2>9. IdsOf(server, c)' \subseteq IdsOf(server, c)
    BY <2>4, <2>6, <2>7, <2>8 DEF IdsOf
  <2> QED
    BY <2>1, <2>4, <2>6, <2>7, <2>9, FewerIds
<1> QED
  BY <1>1, <1>2

LEMMA UserIds ==
  ASSUME IdsAreIssued, User
  PROVE  IdsAreIssued'
<1>1. ASSUME NEW s \in Sessions, KeyOpen(s)
      PROVE  IdsAreIssued'
  BY <1>1, LoadKeeps, PressKeeps DEF KeyOpen
<1>2. CASE \/ \E s \in Sessions : KeyRename(s) \/ KeyArchive(s) \/ KeyDelete(s)
           \/ KeyCreate \/ KeyCancel \/ KeyCredential
           \/ \E op \in {"Submit", "Exec"} : KeySubmit(op)
           \/ \E op \in {"Set", "Stop"} : KeySet(op)
  BY <1>2, PressStarts DEF KeyRename, KeyArchive, KeyDelete, KeyCreate, KeyCancel, KeyCredential,
     KeySubmit, KeySet
<1>3. CASE KeyClose
  BY <1>3, ViewsAside, AsideTwice, AsideKeeps, PressKeeps DEF KeyClose
<1>4. CASE KeyRefresh
  <2>1. CASE c.refresh # 0
    BY <1>4, <2>1, ViewsAside, AsideKeeps, PressKeeps DEF KeyRefresh
  <2>2. CASE c.refresh = 0
    <3> DEFINE j == [c EXCEPT !.refresh = RefreshCount]
               k == EnqueueInitialQueries(j)
               l == IF c.requested = NoSession THEN k ELSE Send(k, Query("Load", c.requested))
    <3>1. Press(l)
      BY <1>4, <2>2 DEF KeyRefresh
    <3>2. Keeps(c, j)
      <4>1. Aside(c, j)
        BY DEF Aside, ClientFields
      <4> QED
        BY <4>1, AsideKeeps
    <3>3. Keeps(j, k)
      BY InitialQueriesKeep
    <3>4. Keeps(k, l)
      <4> HIDE DEF k
      <4>1. Keeps(k, k) /\ "Load" \notin Mutations
        BY ViewsAside, AsideKeeps DEF Mutations
      <4> QED
        BY <4>1, QueriesKeep
    <3> HIDE DEF j, k, l
    <3> QED
      BY <3>1, <3>2, <3>3, <3>4, KeepsTwice, PressKeeps
  <2> QED
    BY <2>1, <2>2
<1>5. CASE KeyContext
  BY <1>5, QueriesKeep, PressKeeps DEF KeyContext, Mutations
<1>6. ASSUME NEW d, KeyUp(d) \/ KeyDown(d)
      PROVE  IdsAreIssued'
  <2>1. \A target : Keeps(c, Navigate(target))
    <3> TAKE target
    <3> DEFINE j == [c EXCEPT !.loading = TRUE]
               m == [op |-> "Window", id |-> 0, s |-> c.view.s, x |-> target,
                     shown |-> c.view.ents, snap |-> c.view.snap]
    <3>1. Navigate(target) \in {j, Send(j, m)}
      BY DEF Navigate
    <3>2. Aside(c, j) /\ m.op \notin Mutations
      BY DEF Aside, ClientFields, Mutations
    <3> HIDE DEF j, m
    <3> QED
      BY <3>1, <3>2, AsideKeeps, SendKeeps, KeepsTwice
  <2>2. \A b : Keeps(c, [c EXCEPT !.follows = b])
    <3>1. \A b : Aside(c, [c EXCEPT !.follows = b])
      BY DEF Aside, ClientFields
    <3> QED
      BY <3>1, AsideKeeps
  <2>3. \E k : Press(k) /\ Keeps(c, k)
    BY <1>6, <2>1, <2>2 DEF KeyUp, KeyDown
  <2> QED
    BY <2>3, PressKeeps
<1>7. CASE KeyRetry
  BY <1>7, RetriedIds
<1>8. CASE KeyAbandon
  <2> DEFINE k == [c EXCEPT !.cmd = NoCommand, !.pending = FALSE, !.unknown = FALSE]
  <2>1. Keeps(c, k)
    BY DEF Keeps, ClientFields
  <2>2. Press(k)
    BY <1>8 DEF KeyAbandon
  <2> HIDE DEF k
  <2> QED
    BY <2>1, <2>2, PressKeeps
<1> QED
  BY <1>1, <1>2, <1>3, <1>4, <1>5, <1>6, <1>7, <1>8 DEF User

LEMMA LoopIds ==
  ASSUME IdsAreIssued, Loop
  PROVE  IdsAreIssued'
<1>1. server' = server
  BY DEF Loop, TakeRequestEvent, TakeSubscriptionEvent
<1>2. CASE TakeRequestEvent
  <2> DEFINE a == Head(evQ)
  <2>1. Aside(c, Noted(a))
    <3>1. \E b : Noted(a) \in {c, [c EXCEPT !.shuffled = b], [c EXCEPT !.relisted = b]}
      BY DEF Noted
    <3> QED
      BY <3>1 DEF Aside, ClientFields
  <2>2. c' \in {HandleQueryAnswer(Noted(a), a), HandleMutationAnswer(Noted(a), a)}
    BY <1>2 DEF TakeRequestEvent
  <2>3. Keeps(c, c')
    BY <2>1, <2>2, AsideKeeps, QueryAnswerKeeps, MutationAnswerKeeps, KeepsTwice
  <2> QED
    BY <1>1, <2>3, KeptIds DEF SameReceipts
<1>3. CASE TakeSubscriptionEvent
  BY <1>1, <1>3, SubscriptionEventKeeps, KeptIds DEF TakeSubscriptionEvent, SameReceipts
<1> QED
  BY <1>2, <1>3 DEF Loop

\* A request that the worker serves is executed or not, and leaves the queue or not.
LEMMA ServedIds ==
  ASSUME IdsAreIssued, c.q # <<>>, server' = server \/ server' = Executed(server, Head(c.q)).server,
         c' = c \/ c' = [c EXCEPT !.q = Tail(@)]
  PROVE  IdsAreIssued'
<1> DEFINE m == Head(c.q)
<1>1. /\ DOMAIN c = ClientFields /\ IsQueue(c.q) /\ "receipts" \in DOMAIN server
  BY DEF IdsAreIssued
<1>2. /\ "receipts" \in DOMAIN server'
      /\ DOMAIN server'.receipts \subseteq
           DOMAIN server.receipts \cup (IF m.op \in Mutations THEN {m.id} ELSE {})
  BY <1>1, ExecutedReceipts
<1>3. m.op \in Mutations => m.id \in IdsIn(c.q)
  BY <1>1, QueueHead
<1>4. /\ DOMAIN c' = ClientFields /\ c'.issued = c.issued /\ c'.cmd = c.cmd
      /\ c'.q \in {c.q, Tail(c.q)}
  BY <1>1 DEF ClientFields
<1>5. IsQueue(c'.q) /\ IdsIn(c'.q) \subseteq IdsIn(c.q)
  BY <1>1, <1>4, QueueTail
<1>6. IdsOf(server, c)' \subseteq IdsOf(server, c)
  <2> HIDE DEF m
  <2> QED
    BY <1>2, <1>3, <1>4, <1>5 DEF IdsOf
<1> QED
  BY <1>2, <1>4, <1>5, <1>6, FewerIds

LEMMA WorkerIds ==
  ASSUME IdsAreIssued, Worker
  PROVE  IdsAreIssued'
<1>1. c.q # <<>>
  BY DEF Worker, WorkerAnswers, WorkerLoses, WorkerUnusable, WorkerMismatch, WorkerServes
<1>2. server' = server \/ server' = Executed(server, Head(c.q)).server
  BY DEF Worker, WorkerAnswers, WorkerLoses, WorkerUnusable, WorkerMismatch
<1>3. c' = c \/ c' = [c EXCEPT !.q = Tail(@)]
  BY DEF Worker, WorkerAnswers, WorkerLoses, WorkerUnusable, WorkerMismatch, AttemptFails, Served
<1> QED
  BY <1>1, <1>2, <1>3, ServedIds

LEMMA SubscriptionIds ==
  ASSUME IdsAreIssued, Subscriptions
  PROVE  IdsAreIssued'
<1>1. server' = server
  BY DEF Subscriptions, SubscriptionDelivers, SubscriptionDelta, SubscriptionLost,
     SubscriptionRestored, SubscriptionRefused, CatalogDelivers, CatalogRefused, StreamFrame
<1>2. \/ c' = c \/ \E task : c' = [c EXCEPT !.sub = task] \/ c' = [c EXCEPT !.cat = task]
      \/ c' = [c EXCEPT !.sub.fails = 0] \/ c' = [c EXCEPT !.sub.fails = @ + 1]
      \/ \E n : c' = [c EXCEPT !.cat.cur = n]
  BY DEF Subscriptions, SubscriptionDelivers, SubscriptionDelta, SubscriptionLost,
     SubscriptionRestored, SubscriptionRefused, CatalogDelivers, CatalogRefused
<1>3. Aside(c, c')
  BY <1>2 DEF Aside, ClientFields
<1> QED
  BY <1>1, <1>3, AsideKeeps, KeptIds DEF SameReceipts

LEMMA ServerIds ==
  ASSUME IdsAreIssued, Server
  PROVE  IdsAreIssued'
<1>1. c' = c
  BY DEF Server, RunStarts, RunEnds, CommandEnds, OtherDeletes, OtherSubmits, ServerStep
<1>2. \/ \E s \in Sessions : \E es : server' = Logged(server, s, es)
      \/ \E s \in Sessions : \E live : server' = Listed([server EXCEPT !.live = live], "Removed", s)
      \/ \E m : server' = Applied(server, m)
  BY DEF Server, RunStarts, RunEnds, CommandEnds, OtherDeletes, OtherSubmits, ServerStep
<1>3. SameReceipts(server, server')
  <2>1. \A live : SameReceipts(server, [server EXCEPT !.live = live])
    BY DEF SameReceipts
  <2>2. \A a, b, d : SameReceipts(a, b) /\ SameReceipts(b, d) => SameReceipts(a, d)
    BY DEF SameReceipts
  <2>3. CASE \E s \in Sessions :
               \E live : server' = Listed([server EXCEPT !.live = live], "Removed", s)
    <3>1. PICK s \in Sessions :
                \E live : server' = Listed([server EXCEPT !.live = live], "Removed", s)
      BY <2>3
    <3>3. PICK live : server' = Listed([server EXCEPT !.live = live], "Removed", s)
      BY <3>1
    <3> DEFINE v == [server EXCEPT !.live = live]
    <3>2. SameReceipts(server, v) /\ SameReceipts(v, Listed(v, "Removed", s))
      BY <2>1, LoggedReceipts
    <3> HIDE DEF v
    <3> QED
      BY <2>2, <3>2, <3>3 DEF v
  <2> QED
    BY <1>2, <2>3, LoggedReceipts, AppliedReceipts
<1> QED
  BY <1>1, <1>3, ViewsAside, AsideKeeps, KeptIds

LEMMA IdsInit ==
  ASSUME ClientInit
  PROVE  IdsAreIssued
<1> DEFINE q == [i \in 1 .. Len(InitialQueries) |-> Query(InitialQueries[i], NoSession)]
           T == {q[i] : i \in 1 .. Len(InitialQueries)}
<1>1. /\ Len(InitialQueries) \in Nat /\ DOMAIN InitialQueries = 1 .. Len(InitialQueries)
      /\ \A i \in DOMAIN InitialQueries :
           InitialQueries[i] \in {"Sessions", "Status", "Default", "Settings", "Models"}
  BY ClientAssumption
<1>2. /\ DOMAIN c = ClientFields /\ c.q = q /\ c.issued = 0 /\ c.cmd = NoCommand
      /\ "receipts" \in DOMAIN server /\ server.receipts = <<>>
  BY DEF ClientInit, ClientFields
<1>3. IsQueue(q)
  <2>1. q \in [1 .. Len(InitialQueries) -> T]
    OBVIOUS
  <2>2. q \in Seq(T)
    <3> HIDE DEF q, T
    <3> QED
      BY <1>1, <2>1
  <2> QED
    BY <2>2 DEF IsQueue
<1>4. \A i \in DOMAIN q : q[i].op \notin Mutations
  BY <1>1 DEF Query, Command, Mutations
<1>5. IdsIn(q) = {}
  <2> HIDE DEF q
  <2> QED
    BY <1>4 DEF IdsIn
<1> HIDE DEF q
<1>6. IdsOf(server, c) = {}
  BY <1>2, <1>5 DEF IdsOf
<1> QED
  BY <1>2, <1>3, <1>6, FS_EmptySet DEF IdsAreIssued

LEMMA IdsNext ==
  ASSUME IdsAreIssued, [ClientNext]_clientVars
  PROVE  IdsAreIssued'
<1>1. CASE UNCHANGED clientVars
  BY <1>1 DEF clientVars, IdsAreIssued, IdsOf
<1> QED
  BY <1>1, UserIds, LoopIds, WorkerIds, SubscriptionIds, ServerIds DEF ClientNext

\* However often a request is retried, what the user asked for once happens once: the
\* identifiers in use grow only with a mutation that start_mutation marks as pending.
THEOREM ClientTheorem == ClientSpec => []MutationHappensOnce
<1>1. ClientInit => IdsAreIssued
  BY IdsInit
<1>2. IdsAreIssued /\ [ClientNext]_clientVars => IdsAreIssued'
  BY IdsNext
<1>3. IdsAreIssued => MutationHappensOnce
  <2> SUFFICES ASSUME IdsAreIssued
               PROVE  MutationHappensOnce
    OBVIOUS
  <2>1. DOMAIN server.receipts \subseteq IdsOf(server, c)
    BY DEF IdsOf
  <2>2. /\ IsFiniteSet(IdsOf(server, c)) /\ Cardinality(IdsOf(server, c)) <= c.issued
        /\ c.issued \in Nat
    BY DEF IdsAreIssued
  <2>3. /\ IsFiniteSet(DOMAIN server.receipts)
        /\ Cardinality(DOMAIN server.receipts) <= Cardinality(IdsOf(server, c))
    BY <2>1, <2>2, FS_Subset
  <2>4. /\ Cardinality(DOMAIN server.receipts) \in Nat /\ Cardinality(IdsOf(server, c)) \in Nat
    BY <2>2, <2>3, FS_CardinalityType
  <2> QED
    BY <2>2, <2>3, <2>4 DEF MutationHappensOnce
<1> QED
  BY <1>1, <1>2, <1>3, PTL DEF ClientSpec

--------------------------------------------------------------------------------
(* The window of a session, its page and the stream. *)

ViewFields ==
  {"s", "cur", "ents", "older", "newer", "runs", "act", "cmd", "archived", "deferred", "tail",
   "transient", "snap", "since"}

PageFields == {"s", "cur", "ents", "older", "newer", "runs", "act", "cmd", "archived"}

TaskFields == {"s", "cur", "gen", "fails"}

\* Entry i of log l is not among those shown, though it comes after one of them.
Missed(l, ents, i) == i \in EntriesIn(l) \ ents /\ \E a \in ents : a < i

\* Every entry shown comes before i.
AllBefore(ents, i) == \A b \in ents : b < i

\* A page has no hole, and says so when it ends before its snapshot does.
PageFits(v, w) ==
  /\ DOMAIN w = PageFields /\ w.s \in Sessions
  /\ w.cur \in 0 .. Len(v.log[w.s]) /\ w.ents \subseteq EntriesIn(v.log[w.s])
  /\ \A b \in w.ents : b <= w.cur
  /\ \A i \in EntriesIn(v.log[w.s]) :
       Missed(v.log[w.s], w.ents, i) /\ i <= w.cur => w.newer /\ AllBefore(w.ents, i)

\* A window of log l is a page and what the stream has appended to it since.
WindowFits(l, u) ==
  /\ DOMAIN u = ViewFields /\ u.ents \subseteq EntriesIn(l)
  /\ u.snap \in 0 .. Len(l) /\ u.cur \in 0 .. Len(l) /\ u.since \in 0 .. u.cur
  /\ u.snap <= u.since =>
       /\ \A b \in u.ents : b <= u.cur
       /\ \A i \in EntriesIn(l) :
            Missed(l, u.ents, i) /\ i <= u.snap => Historical(u) /\ AllBefore(u.ents, i)
       /\ \A i \in EntriesIn(l) \ u.ents :
            u.since < i /\ i <= u.cur => Historical(u) /\ AllBefore(u.ents, i)

ViewFits(v, u) == u = NoView \/ (u.s \in Sessions /\ WindowFits(v.log[u.s], u))

\* A request for a window names a snapshot the server has had.
AskFits(v, m) ==
  /\ m.op # "Loaded"
  /\ m.op = "Window" =>
       /\ m.shown \subseteq Int
       /\ m.s \in Sessions => Snapshot(v, m) \in 0 .. Len(v.log[m.s])

AsksFit(v, q) == IsQueue(q) /\ \A i \in DOMAIN q : AskFits(v, q[i])

\* What the handlers may rely on and leave.
Sound(v, k) ==
  /\ DOMAIN k = ClientFields /\ k.gen \in Nat /\ AsksFit(v, k.q)
  /\ k.cmd.op \notin {"Window", "Loaded"}

\* The n-th event in channel q is of the stream client k follows.
Current(k, q, n) == n \in DOMAIN q /\ q[n].t = "Session" /\ q[n].gen = k.gen

\* The events in the channel lead from the position of the view to the task's.
StreamFits(v, k, q) ==
  /\ \A n \in DOMAIN q : Current(k, q, n) =>
       /\ q[n].s = k.view.s /\ q[n].at \in k.view.cur + 1 .. Len(v.log[k.view.s])
       /\ q[n].at = k.view.cur + 1 \/ \E m \in DOMAIN q :
                                        m < n /\ Current(k, q, m) /\ q[m].at = q[n].at - 1
       /\ \A m \in DOMAIN q : Current(k, q, m) /\ m < n => q[m].at < q[n].at
  /\ k.sub # NoTask =>
       /\ k.sub.s = k.view.s /\ k.sub.cur \in k.view.cur .. Len(v.log[k.view.s])
       /\ \A n \in DOMAIN q : Current(k, q, n) => q[n].at <= k.sub.cur
       /\ k.sub.cur = k.view.cur \/ \E n \in DOMAIN q : Current(k, q, n) /\ q[n].at = k.sub.cur

\* No event is of a stream to come, and the task is of the stream followed.
ChannelFits(k, q) ==
  /\ IsQueue(q)
  /\ \A n \in DOMAIN q : q[n].t = "Session" => q[n].gen \in 0 .. k.gen /\ q[n].s \in Sessions
  /\ DOMAIN k.sub = TaskFields /\ (k.sub # NoTask => k.sub.gen = k.gen)

ClientFits(v, k, q) ==
  /\ Sound(v, k) /\ ViewFits(v, k.view) /\ ChannelFits(k, q)
  /\ k.exit = "None" /\ k.view # NoView => StreamFits(v, k, q)

LogsFit(v) ==
  /\ {"log", "live", "unborn"} \subseteq DOMAIN v /\ DOMAIN v.log = Sessions
  /\ v.live \subseteq Sessions /\ v.unborn \subseteq Sessions
  /\ \A s \in Sessions : IsQueue(v.log[s])

AnswerFits(v, a) == a.t \in {"Loaded", "Window"} => PageFits(v, a.w)

AnswersFit(v, q) == IsQueue(q) /\ \A i \in DOMAIN q : AnswerFits(v, q[i])

\* What is shown is a page of the log and what the stream has told since, and the
\* stream tells it in order.
WindowInv == LogsFit(server) /\ AnswersFit(server, evQ) /\ ClientFits(server, c, subQ)

--------------------------------------------------------------------------------
(* Pages. *)

LEMMA QueueFacts ==
  ASSUME NEW q, IsQueue(q)
  PROVE  Len(q) \in Nat /\ DOMAIN q = 1 .. Len(q)
<1>1. PICK S : q \in Seq(S)
  BY DEF IsQueue
<1> QED
  BY <1>1

LEMMA QueueAppended ==
  ASSUME NEW q, IsQueue(q), NEW m
  PROVE  /\ IsQueue(Append(q, m)) /\ Len(Append(q, m)) = Len(q) + 1
         /\ DOMAIN Append(q, m) = 1 .. (Len(q) + 1) /\ Append(q, m)[Len(q) + 1] = m
         /\ \A i \in DOMAIN q : i \in DOMAIN Append(q, m) /\ Append(q, m)[i] = q[i]
         /\ \A i \in DOMAIN Append(q, m) : (i \in DOMAIN q /\ Append(q, m)[i] = q[i])
                                           \/ Append(q, m)[i] = m
<1>1. PICK S : q \in Seq(S)
  BY DEF IsQueue
<1> DEFINE T == S \cup {m}
           p == Append(q, m)
<1>2. q \in Seq(T) /\ m \in T
  BY <1>1
<1>3. /\ p \in Seq(T) /\ Len(p) = Len(q) + 1 /\ DOMAIN p = 1 .. (Len(q) + 1)
      /\ DOMAIN q = 1 .. Len(q)
      /\ Len(q) \in Nat /\ p[Len(q) + 1] = m /\ \A i \in 1 .. Len(q) : p[i] = q[i]
  BY <1>2
<1> HIDE DEF p, T
<1>4. \A i \in DOMAIN p : (i \in DOMAIN q /\ p[i] = q[i]) \/ p[i] = m
  BY <1>3
<1>5. \A i \in DOMAIN q : i \in DOMAIN p /\ p[i] = q[i]
  BY <1>3
<1> QED
  BY <1>3, <1>4, <1>5 DEF IsQueue, p

LEMMA QueueShifted ==
  ASSUME NEW q, IsQueue(q), q # <<>>
  PROVE  /\ IsQueue(Tail(q)) /\ 1 \in DOMAIN q /\ Head(q) = q[1]
         /\ \A i \in DOMAIN Tail(q) : i + 1 \in DOMAIN q /\ Tail(q)[i] = q[i + 1]
         /\ \A i \in DOMAIN q : i # 1 => i - 1 \in DOMAIN Tail(q) /\ Tail(q)[i - 1] = q[i]
<1>1. PICK S : q \in Seq(S)
  BY DEF IsQueue
<1>2. /\ Tail(q) \in Seq(S) /\ DOMAIN Tail(q) = 1 .. (Len(q) - 1) /\ Len(q) \in Nat \ {0}
      /\ DOMAIN q = 1 .. Len(q) /\ \A i \in 1 .. (Len(q) - 1) : Tail(q)[i] = q[i + 1]
      /\ Head(q) = q[1]
  BY <1>1
<1>3. \A i \in DOMAIN Tail(q) : i + 1 \in DOMAIN q /\ Tail(q)[i] = q[i + 1]
  BY <1>2
<1>4. \A i \in DOMAIN q : i # 1 => i - 1 \in DOMAIN Tail(q) /\ Tail(q)[i - 1] = q[i]
  BY <1>2
<1> QED
  BY <1>2, <1>3, <1>4 DEF IsQueue

LEMMA EntriesFacts ==
  ASSUME NEW l, IsQueue(l)
  PROVE  EntriesIn(l) \subseteq 1 .. Len(l) /\ IsFiniteSet(EntriesIn(l)) /\ Len(l) \in Nat
<1>1. Len(l) \in Nat /\ EntriesIn(l) \subseteq 1 .. Len(l)
  BY QueueFacts DEF EntriesIn
<1>2. IsFiniteSet(1 .. Len(l))
  BY <1>1, FS_Interval
<1> QED
  BY <1>1, <1>2, FS_Subset

\* The last elements of a set have no hole, and neither have the first.
LEMMA TailIsWhole ==
  ASSUME NEW S \in SUBSET Int, IsFiniteSet(S), NEW n \in Nat,
         NEW a \in Tail_n(S, n), NEW i \in S, a <= i
  PROVE  i \in Tail_n(S, n)
<1> DEFINE above(x) == {j \in S : j > x}
<1>1. above(i) \subseteq above(a) /\ IsFiniteSet(above(a)) /\ a \in S
  <2>1. a \in S
    BY DEF Tail_n
  <2>2. \A j \in above(i) : j \in S /\ j > a
    <3> SUFFICES ASSUME NEW j \in S, j > i
                 PROVE  j > a
      OBVIOUS
    <3>1. j \in Int /\ i \in Int /\ a \in Int
      BY <2>1
    <3> QED
      BY <3>1
  <2>3. above(a) \subseteq S /\ above(i) \subseteq above(a)
    BY <2>2
  <2> HIDE DEF above
  <2> QED
    BY <2>1, <2>3, FS_Subset
<1>2. Cardinality(above(i)) <= Cardinality(above(a)) /\ IsFiniteSet(above(i))
  <2> HIDE DEF above
  <2> QED
    BY <1>1, FS_Subset
<1>3. Cardinality(above(i)) \in Nat /\ Cardinality(above(a)) \in Nat
  <2> HIDE DEF above
  <2> QED
    BY <1>1, <1>2, FS_CardinalityType
<1>4. Cardinality(above(a)) < n
  BY DEF Tail_n
<1>5. Cardinality(above(i)) < n
  <2> HIDE DEF above
  <2> QED
    BY <1>2, <1>3, <1>4
<1> QED
  BY <1>5 DEF Tail_n

LEMMA HeadIsWhole ==
  ASSUME NEW S \in SUBSET Int, IsFiniteSet(S), NEW n \in Nat,
         NEW a \in Head_n(S, n), NEW i \in S, i <= a
  PROVE  i \in Head_n(S, n)
<1> DEFINE below(x) == {j \in S : j < x}
<1>1. below(i) \subseteq below(a) /\ IsFiniteSet(below(a)) /\ a \in S
  <2>1. a \in S
    BY DEF Head_n
  <2>2. \A j \in below(i) : j \in S /\ j < a
    <3> SUFFICES ASSUME NEW j \in S, j < i
                 PROVE  j < a
      OBVIOUS
    <3>1. j \in Int /\ i \in Int /\ a \in Int
      BY <2>1
    <3> QED
      BY <3>1
  <2>3. below(a) \subseteq S /\ below(i) \subseteq below(a)
    BY <2>2
  <2> HIDE DEF below
  <2> QED
    BY <2>1, <2>3, FS_Subset
<1>2. Cardinality(below(i)) <= Cardinality(below(a)) /\ IsFiniteSet(below(i))
  <2> HIDE DEF below
  <2> QED
    BY <1>1, FS_Subset
<1>3. Cardinality(below(i)) \in Nat /\ Cardinality(below(a)) \in Nat
  <2> HIDE DEF below
  <2> QED
    BY <1>1, <1>2, FS_CardinalityType
<1>4. Cardinality(below(a)) < n
  BY DEF Head_n
<1>5. Cardinality(below(i)) < n
  <2> HIDE DEF below
  <2> QED
    BY <1>2, <1>3, <1>4
<1> QED
  BY <1>5 DEF Head_n

\* Of the entries of a snapshot a page leaves out none between two it has.
LEMMA PageIsWhole ==
  ASSUME NEW all \in SUBSET Int, IsFiniteSet(all), NEW target, NEW shown \in SUBSET Int
  PROVE  LET ents == Page(all, target, shown)
         IN  /\ ents \subseteq all
             /\ \A i \in all \ ents : (\E a \in ents : a < i) => AllBefore(ents, i)
<1> DEFINE ents == Page(all, target, shown)
           older == {i \in all : \A j \in shown : i < j}
           newer == {i \in all : \A j \in shown : i > j}
<1>1. Window \in Nat
  BY ClientAssumption
<1>2. /\ older \in SUBSET Int /\ newer \in SUBSET Int
      /\ IsFiniteSet(older) /\ IsFiniteSet(newer)
  BY FS_Subset
<1>3. ents \subseteq all
  BY DEF Page, Tail_n, Head_n
<1> SUFFICES ASSUME NEW i \in all \ ents, NEW a \in ents, a < i, NEW b \in ents
             PROVE  b < i
  BY <1>3 DEF AllBefore
<1>4. a \in Int /\ b \in Int /\ i \in Int
  BY <1>3
<1>5. CASE target = "Latest"
  <2>1. ents = Tail_n(all, Window)
    BY <1>5 DEF Page
  <2>2. i \in Tail_n(all, Window)
    BY <1>1, <1>4, <2>1, TailIsWhole
  <2> QED
    BY <2>1, <2>2
<1>6. CASE target = "Oldest"
  <2>1. ents = Head_n(all, Window)
    BY <1>6 DEF Page
  <2>2. CASE i <= b
    BY <1>1, <1>4, <2>1, <2>2, HeadIsWhole
  <2> QED
    BY <1>4, <2>2
<1>7. CASE target = "Older"
  <2>1. ents = Tail_n(older, Window)
    BY <1>7 DEF Page
  <2>2. a \in older /\ b \in older
    BY <2>1 DEF Tail_n
  <2>3. i \notin older
    <3> SUFFICES ASSUME i \in older
                 PROVE  FALSE
      OBVIOUS
    <3> HIDE DEF older, ents
    <3>1. i \in Tail_n(older, Window)
      BY <1>1, <1>2, <1>4, <2>1, TailIsWhole
    <3> QED
      BY <2>1, <3>1
  <2>4. PICK j \in shown : ~(i < j)
    BY <2>3
  <2>5. b < j /\ j \in Int
    BY <2>2
  <2> QED
    BY <1>4, <2>4, <2>5
<1>8. CASE target \notin {"Latest", "Oldest", "Older"}
  <2>1. ents = Head_n(newer, Window)
    BY <1>8 DEF Page
  <2>2. a \in newer
    BY <2>1 DEF Head_n
  <2>3. i \in newer
    <3> SUFFICES ASSUME NEW j \in shown
                 PROVE  i > j
      OBVIOUS
    <3>1. a > j /\ j \in Int
      BY <2>2
    <3> QED
      BY <1>4, <3>1
  <2>4. CASE i <= b
    <3> HIDE DEF newer, ents
    <3> QED
      BY <1>1, <1>2, <1>4, <2>1, <2>3, <2>4, HeadIsWhole
  <2> QED
    BY <1>4, <2>4
<1> QED
  BY <1>5, <1>6, <1>7, <1>8

LEMMA PrefixEntries ==
  ASSUME NEW l, IsQueue(l), NEW n \in 0 .. Len(l)
  PROVE  EntriesIn(SubSeq(l, 1, n)) = {i \in EntriesIn(l) : i <= n}
<1>1. PICK S : l \in Seq(S)
  BY DEF IsQueue
<1>2. Len(SubSeq(l, 1, n)) = n /\ \A i \in 1 .. n : SubSeq(l, 1, n)[i] = l[i]
  BY <1>1
<1>3. Len(l) \in Nat
  BY <1>1
<1> QED
  BY <1>2, <1>3 DEF EntriesIn

\* What the server reads for a window is a page.
LEMMA WindowIsPage ==
  ASSUME NEW v, LogsFit(v), NEW m, AskFits(v, m), m.op = "Window", m.s \in Sessions
  PROVE  PageFits(v, WindowOf(v, m))
<1> DEFINE n == Snapshot(v, m)
           l == v.log[m.s]
           all == EntriesIn(SubSeq(l, 1, n))
           ents == Page(all, m.x, m.shown)
           w == WindowOf(v, m)
<1>1. IsQueue(l) /\ n \in 0 .. Len(l) /\ m.shown \subseteq Int
  BY DEF AskFits, LogsFit
<1>2. /\ DOMAIN w = PageFields /\ w.s = m.s /\ w.cur = n /\ w.ents = ents
      /\ w.newer = (\E i \in all : \A j \in ents : i > j)
  BY DEF WindowOf, PageFields
<1>3. all = {i \in EntriesIn(l) : i <= n}
  <2> HIDE DEF n, l
  <2> QED
    BY <1>1, PrefixEntries
<1>4. EntriesIn(l) \subseteq 1 .. Len(l) /\ IsFiniteSet(EntriesIn(l)) /\ Len(l) \in Nat
  BY <1>1, EntriesFacts
<1> HIDE DEF w, n, all, ents
<1>5. all \in SUBSET Int /\ IsFiniteSet(all)
  <2> HIDE DEF l
  <2> QED
    BY <1>3, <1>4, FS_Subset
<1>6. /\ ents \subseteq all
      /\ \A i \in all \ ents : (\E a \in ents : a < i) => AllBefore(ents, i)
  BY <1>1, <1>5, PageIsWhole DEF ents
<1>7. \A b \in ents : b <= n
  BY <1>3, <1>6
<1>8. ASSUME NEW i \in EntriesIn(l), Missed(l, ents, i), i <= n
      PROVE  w.newer /\ AllBefore(ents, i)
  <2>1. i \in all \ ents /\ AllBefore(ents, i)
    BY <1>3, <1>6, <1>8 DEF Missed
  <2>2. \A j \in ents : i > j
    BY <1>5, <1>6, <2>1 DEF AllBefore
  <2> QED
    BY <1>2, <2>1, <2>2
<1>9. ents \subseteq EntriesIn(l)
  BY <1>3, <1>6
<1>10. PageFits(v, w)
  <2>1. /\ DOMAIN w = PageFields /\ w.s \in Sessions /\ v.log[w.s] = l
        /\ w.cur \in 0 .. Len(l) /\ w.ents \subseteq EntriesIn(l) /\ \A b \in w.ents : b <= w.cur
    BY <1>1, <1>2, <1>7, <1>9
  <2> HIDE DEF l
  <2> QED
    BY <1>2, <1>8, <2>1 DEF PageFits
<1> QED
  BY <1>10 DEF w

--------------------------------------------------------------------------------
(* The handlers that leave the window and the stream as they are. *)

\* View w shows the window view u does, or none.
Alike(u, w) ==
  /\ u = NoView => w = NoView
  /\ DOMAIN u = ViewFields =>
       \/ w = NoView
       \/ /\ DOMAIN w = ViewFields /\ w.s = u.s /\ w.ents = u.ents /\ w.cur = u.cur
          /\ w.snap = u.snap /\ w.since = u.since /\ w.newer = u.newer
          /\ u.deferred => w.deferred

\* The task is the same, or aborted with its generation.
SameTask(k, j) ==
  \/ j.gen = k.gen /\ j.sub = k.sub
  \/ j.gen \in Nat /\ j.gen > k.gen /\ j.sub = NoTask

Still(v, k, j) == Sound(v, k) => Sound(v, j) /\ Alike(k.view, j.view) /\ SameTask(k, j)

LEMMA AlikeTwice == \A u, w, x : Alike(u, w) /\ Alike(w, x) => Alike(u, x)
BY DEF Alike

LEMMA NoViewFields == DOMAIN NoView = {"s"} /\ NoView.s \notin Sessions
BY ClientAssumption DEF NoView

LEMMA AlikeFields ==
  ASSUME NEW u, NEW x
  PROVE  /\ Alike(u, u) /\ Alike(u, [u EXCEPT !.deferred = TRUE])
         /\ Alike(u, [u EXCEPT !.cmd = x]) /\ Alike(u, [u EXCEPT !.runs = x])
         /\ Alike(u, [u EXCEPT !.act = x]) /\ Alike(u, [u EXCEPT !.transient = x])
         /\ Alike(u, [u EXCEPT !.archived = x]) /\ Alike(u, [u EXCEPT !.tail = x])
<1>1. u = NoView => /\ [u EXCEPT !.deferred = TRUE] = u
                    /\ [u EXCEPT !.cmd = x] = u /\ [u EXCEPT !.runs = x] = u
                    /\ [u EXCEPT !.act = x] = u /\ [u EXCEPT !.transient = x] = u
                    /\ [u EXCEPT !.archived = x] = u /\ [u EXCEPT !.tail = x] = u
  BY DEF NoView
<1> QED
  BY <1>1 DEF Alike, ViewFields

LEMMA StillSelf == \A v, k : Still(v, k, k)
BY DEF Still, SameTask, Alike

LEMMA StillTwice == \A v, k, j, l : Still(v, k, j) /\ Still(v, j, l) => Still(v, k, l)
<1> TAKE v, k, j, l
<1> SUFFICES ASSUME Still(v, k, j), Still(v, j, l), Sound(v, k)
             PROVE  Sound(v, l) /\ Alike(k.view, l.view) /\ SameTask(k, l)
  BY DEF Still
<1>1. /\ Sound(v, j) /\ Alike(k.view, j.view) /\ SameTask(k, j)
      /\ Sound(v, l) /\ Alike(j.view, l.view) /\ SameTask(j, l)
  BY DEF Still
<1>2. k.gen \in Nat /\ j.gen \in Nat /\ l.gen \in Nat
  BY <1>1 DEF Sound
<1>3. SameTask(k, l)
  BY <1>1, <1>2 DEF SameTask
<1> QED
  BY <1>1, <1>3, AlikeTwice

LEMMA ViewStill == \A v, k, u : Alike(k.view, u) => Still(v, k, [k EXCEPT !.view = u])
BY DEF Still, Sound, SameTask, ClientFields

LEMMA FailStill == \A v, k, why : Still(v, k, Fail(k, why))
BY AlikeFields DEF Still, Sound, SameTask, ClientFields, Fail

LEMMA SendStill ==
  ASSUME NEW v, NEW k, NEW m, AskFits(v, m)
  PROVE  Still(v, k, Send(k, m))
<1>1. Send(k, m) \in {k, Fail(k, "Queue"), [k EXCEPT !.q = Append(@, m)]}
  BY DEF Send
<1>2. Still(v, k, [k EXCEPT !.q = Append(@, m)])
  <2> DEFINE j == [k EXCEPT !.q = Append(@, m)]
             p == Append(k.q, m)
  <2> SUFFICES ASSUME Sound(v, k)
               PROVE  Sound(v, j) /\ Alike(k.view, j.view) /\ SameTask(k, j)
    BY DEF Still
  <2>1. /\ DOMAIN j = ClientFields /\ j.q = p /\ j.gen = k.gen /\ j.cmd = k.cmd
        /\ j.view = k.view /\ j.sub = k.sub
    BY DEF Sound, ClientFields
  <2>2. AsksFit(v, p)
    <3>1. IsQueue(k.q) /\ \A i \in DOMAIN k.q : AskFits(v, k.q[i])
      BY DEF Sound, AsksFit
    <3>2. IsQueue(p) /\ \A i \in DOMAIN p : (i \in DOMAIN k.q /\ p[i] = k.q[i]) \/ p[i] = m
      BY <3>1, QueueAppended
    <3> HIDE DEF p
    <3> QED
      BY <3>1, <3>2 DEF AsksFit
  <2> HIDE DEF j
  <2> QED
    BY <2>1, <2>2, AlikeFields DEF Sound, SameTask
<1> QED
  BY <1>1, <1>2, StillSelf, FailStill

LEMMA QueriesFit == \A v, op, s : op \notin {"Window", "Loaded"} => AskFits(v, Query(op, s))
BY DEF AskFits, Query, Command

LEMMA QueriesStill ==
  \A v, k, s, op : op \notin {"Window", "Loaded"} => Still(v, k, Send(k, Query(op, s)))
BY QueriesFit, SendStill

LEMMA InitialQueriesStill == \A v, k : Still(v, k, EnqueueInitialQueries(k))
<1> TAKE v, k
<1> DEFINE j == EnqueueInitialQueries(k)
<1> SUFFICES ASSUME Sound(v, k)
             PROVE  Sound(v, j) /\ Alike(k.view, j.view) /\ SameTask(k, j)
  BY DEF Still
<1>1. /\ DOMAIN k = ClientFields /\ IsQueue(k.q) /\ k.gen \in Nat
      /\ k.cmd.op \notin {"Window", "Loaded"} /\ \A i \in DOMAIN k.q : AskFits(v, k.q[i])
  BY DEF Sound, AsksFit
<1>2. /\ DOMAIN j = ClientFields /\ IsQueue(j.q)
      /\ \A x \in ClientFields \ {"q", "exit"} : j[x] = k[x]
      /\ \A i \in DOMAIN j.q :
           \/ i \in DOMAIN k.q /\ j.q[i] = k.q[i]
           \/ \E op \in {"Sessions", "Status", "Default", "Settings", "Models"} :
                j.q[i] = Query(op, NoSession)
  BY <1>1, InitialQueue
<1> HIDE DEF j
<1>3. AsksFit(v, j.q)
  BY <1>1, <1>2, QueriesFit DEF AsksFit
<1>4. j.gen = k.gen /\ j.cmd = k.cmd /\ j.view = k.view /\ j.sub = k.sub
  BY <1>2 DEF ClientFields
<1> QED
  BY <1>1, <1>2, <1>3, <1>4, AlikeFields DEF Sound, SameTask

LEMMA ViewsStill ==
  ASSUME NEW v, NEW k
  PROVE  /\ Still(v, k, CloseSession(k)) /\ Still(v, k, Detach(k)) /\ Still(v, k, RefreshDone(k))
         /\ Still(v, k, PageFailed(k))
         /\ \A id : Still(v, k, FinishMutation(k, id)) /\ Still(v, k, FinishCredentialMutation(k, id))
<1>1. Alike(k.view, k.view) /\ Alike(k.view, NoView)
  BY AlikeFields DEF Alike
<1>2. Still(v, k, CloseSession(k))
  BY <1>1 DEF Still, Sound, SameTask, ClientFields, CloseSession
<1>3. Still(v, k, Detach(k))
  BY <1>1 DEF Still, Sound, SameTask, ClientFields, Detach
<1>4. Still(v, k, RefreshDone(k)) /\ Still(v, k, PageFailed(k))
  BY <1>1 DEF Still, Sound, SameTask, ClientFields, RefreshDone, PageFailed
<1>5. \A id : Still(v, k, FinishMutation(k, id))
  BY <1>1, FailStill DEF Still, Sound, SameTask, ClientFields, FinishMutation, NoCommand
<1>6. \A id : Still(v, k, FinishCredentialMutation(k, id))
  BY <1>1, FailStill DEF Still, Sound, SameTask, ClientFields, FinishCredentialMutation
<1> QED
  BY <1>2, <1>3, <1>4, <1>5, <1>6

LEMMA RunViews ==
  \A k, s, r, st : \/ ApplyRun(k, s, r, st) \in {Fail(k, "Session"), Fail(k, "Run")}
                   \/ \E u : Alike(k.view, u) /\ ApplyRun(k, s, r, st) = [k EXCEPT !.view = u]
<1> TAKE k, s, r, st
<1> DEFINE u == k.view
           w == [u EXCEPT !.runs = [i \in DOMAIN @ \cup {r} |-> IF i = r THEN st ELSE @[i]]]
           ended == [w EXCEPT !.act = IF @ = r THEN 0 ELSE @,
                              !.transient = IF @ = r THEN 0 ELSE @,
                              !.runs = IF Historical(u) /\ \A e \in u.ents : Owner(s, e) # r
                                       THEN [i \in DOMAIN @ \ {r} |-> @[i]] ELSE @]
           begun == [w EXCEPT !.act = r]
<1>1. ApplyRun(k, s, r, st)
        \in {Fail(k, "Session"), Fail(k, "Run"), [k EXCEPT !.view = ended],
             [k EXCEPT !.view = begun]}
  BY DEF ApplyRun
<1>2. Alike(u, w)
  BY AlikeFields
<1>3. Alike(w, begun)
  BY AlikeFields
<1>4. Alike(w, ended)
  <2> HIDE DEF w
  <2>1. PICK act, transient, runs :
          ended = [[[w EXCEPT !.act = act] EXCEPT !.transient = transient] EXCEPT !.runs = runs]
    OBVIOUS
  <2> HIDE DEF ended
  <2> DEFINE x == [w EXCEPT !.act = act]
             y == [x EXCEPT !.transient = transient]
  <2>2. Alike(w, x)
    BY AlikeFields
  <2>3. Alike(x, y)
    BY AlikeFields
  <2>4. Alike(y, ended)
    <3> HIDE DEF y
    <3> QED
      BY <2>1, AlikeFields DEF y
  <2> HIDE DEF x, y
  <2> QED
    BY <2>2, <2>3, <2>4, AlikeTwice
<1> HIDE DEF w, ended, begun
<1>5. Alike(u, ended) /\ Alike(u, begun)
  BY <1>2, <1>3, <1>4, AlikeTwice
<1> QED
  BY <1>1, <1>5

LEMMA RunStill == \A v, k, s, r, st : Still(v, k, ApplyRun(k, s, r, st))
BY RunViews, FailStill, ViewStill

LEMMA DeltaStill == \A v, k, r : Still(v, k, ApplyDelta(k, r))
<1> TAKE v, k, r
<1> DEFINE x == [k.view EXCEPT !.deferred = TRUE]
           y == [k.view EXCEPT !.transient = r]
<1>1. ApplyDelta(k, r) \in {Fail(k, "Run"), [k EXCEPT !.view = x], [k EXCEPT !.view = y]}
  BY DEF ApplyDelta
<1>2. Alike(k.view, x) /\ Alike(k.view, y)
  BY AlikeFields
<1> HIDE DEF x, y
<1>3. Still(v, k, [k EXCEPT !.view = x]) /\ Still(v, k, [k EXCEPT !.view = y])
  BY <1>2, ViewStill
<1> QED
  BY <1>1, <1>3, FailStill

LEMMA CatalogStill ==
  /\ \A v, k, s : Still(v, k, SessionDeleted(k, s))
  /\ \A v, k, o : Still(v, k, ApplyCatalogEvent(k, o))
<1>1. \A v, k, x : Still(v, k, [k EXCEPT !.list = x])
  BY AlikeFields DEF Still, Sound, SameTask, ClientFields
<1>2. ASSUME NEW v, NEW k, NEW s
      PROVE  Still(v, k, SessionDeleted(k, s))
  <2>1. PICK j : Still(v, k, j) /\ SessionDeleted(k, s) \in {j, CloseSession(j)}
    BY <1>1 DEF SessionDeleted
  <2> QED
    BY <2>1, ViewsStill, StillTwice
<1>3. ASSUME NEW v, NEW k, NEW o
      PROVE  Still(v, k, ApplyCatalogEvent(k, o))
  <2>1. CASE o.k = "Created"
    <3>1. PICK list : ApplyCatalogEvent(k, o) = [k EXCEPT !.list = list]
      BY <2>1 DEF ApplyCatalogEvent
    <3>2. Still(v, k, [k EXCEPT !.list = list])
      BY <1>1
    <3> QED
      BY <3>1, <3>2
  <2>2. CASE o.k = "Removed"
    BY <1>2, <2>2 DEF ApplyCatalogEvent
  <2>3. CASE o.k \notin {"Created", "Removed"} /\ o.s \notin DOMAIN k.list
    BY <2>3, FailStill DEF ApplyCatalogEvent
  <2>4. CASE o.k \notin {"Created", "Removed"} /\ o.s \in DOMAIN k.list
    <3> DEFINE j == [k EXCEPT !.list[o.s] = o.archived]
               u == [j.view EXCEPT !.archived = o.archived]
    <3>1. Still(v, k, j)
      BY <1>1
    <3>2. ApplyCatalogEvent(k, o) \in {j, [j EXCEPT !.view = u]}
      BY <2>4 DEF ApplyCatalogEvent
    <3> HIDE DEF j
    <3>3. Still(v, j, [j EXCEPT !.view = u])
      BY AlikeFields, ViewStill
    <3> HIDE DEF u
    <3> QED
      BY <3>1, <3>2, <3>3, StillTwice
  <2> QED
    BY <2>1, <2>2, <2>3, <2>4
<1> QED
  BY <1>2, <1>3

LEMMA LoadStill == \A v, k, s : Still(v, k, LoadRequested(k, s))
<1> TAKE v, k, s
<1> DEFINE j == [k EXCEPT !.requested = s]
           i == IF k.refresh = 0 THEN Send(j, Query("Default", NoSession)) ELSE j
<1>1. LoadRequested(k, s) = Send(i, Query("Load", s))
  BY DEF LoadRequested
<1>2. Still(v, k, j)
  BY AlikeFields DEF Still, Sound, SameTask, ClientFields
<1> HIDE DEF j
<1>3. Still(v, j, i)
  BY StillSelf, QueriesStill
<1> HIDE DEF i
<1> QED
  BY <1>1, <1>2, <1>3, QueriesStill, StillTwice

\* The answers that are no page.
LEMMA QueryAnswerStill ==
  ASSUME NEW v, NEW k, NEW a, a.t \notin {"Loaded", "Window"}
  PROVE  Still(v, k, HandleQueryAnswer(k, a))
<1>1. CASE a.t = "Sessions"
  <2>1. PICK list, cursor, task :
          HandleQueryAnswer(k, a)
            = [RefreshDone(k) EXCEPT !.list = list, !.catCur = cursor, !.cat = task]
    BY <1>1 DEF HandleQueryAnswer
  <2>2. Still(v, RefreshDone(k), HandleQueryAnswer(k, a))
    BY <2>1, AlikeFields DEF Still, Sound, SameTask, ClientFields
  <2> QED
    BY <2>2, ViewsStill, StillTwice
<1>2. CASE a.t = "Context"
  <2>1. HandleQueryAnswer(k, a) \in {k, Fail(k, "Session")}
    BY <1>2 DEF HandleQueryAnswer
  <2> QED
    BY <2>1, StillSelf, FailStill
<1>3. CASE a.t = "QueryFailed"
  <2>1. \E j \in {k, RefreshDone(k)} : HandleQueryAnswer(k, a) \in {j, PageFailed(j)}
    BY <1>3 DEF HandleQueryAnswer
  <2> QED
    BY <2>1, ViewsStill, StillSelf, StillTwice
<1>4. CASE a.t \notin {"Sessions", "Loaded", "Window", "Context", "QueryFailed"}
  <2>1. HandleQueryAnswer(k, a) = RefreshDone(k)
    BY <1>4 DEF HandleQueryAnswer
  <2> QED
    BY <2>1, ViewsStill
<1> QED
  BY <1>1, <1>2, <1>3, <1>4

LEMMA MutationAnswerStill == \A v, k, a : Still(v, k, HandleMutationAnswer(k, a))
<1> TAKE v, k, a
<1> DEFINE f == FinishMutation(k, a.id)
           g == FinishCredentialMutation(k, a.id)
           h == HandleMutationAnswer(k, a)
<1>1. Still(v, k, f) /\ Still(v, k, g) /\ Still(v, k, k)
  BY ViewsStill, StillSelf
<1>2. CASE a.t = "MutationUnknown"
  <2>1. h = Fail(k, "Answer") \/ h = [k EXCEPT !.unknown = k.pending]
    BY <1>2 DEF HandleMutationAnswer
  <2>2. Still(v, k, [k EXCEPT !.unknown = k.pending])
    BY AlikeFields DEF Still, Sound, SameTask, ClientFields
  <2> HIDE DEF h
  <2> QED
    BY <2>1, <2>2, FailStill DEF h
<1>3. CASE a.t = "MutationFailed"
  BY <1>1, <1>3 DEF HandleMutationAnswer
<1>4. CASE a.t \in {"Credential", "CredentialFailed"}
  <2>1. h \in {g, Send(g, Query("Status", NoSession))}
    BY <1>4 DEF HandleMutationAnswer
  <2>2. Still(v, g, Send(g, Query("Status", NoSession)))
    BY QueriesStill
  <2> HIDE DEF h, g
  <2> QED
    BY <1>1, <2>1, <2>2, StillTwice DEF h
<1> DEFINE Early == {"MutationUnknown", "MutationFailed", "Credential", "CredentialFailed"}
<1>5. CASE a.t \notin Early /\ f.exit # "None"
  BY <1>1, <1>5 DEF HandleMutationAnswer
<1>6. CASE a.t \notin Early /\ f.exit = "None"
  <2>1. SUFFICES Still(v, f, h)
    <3> HIDE DEF f, h
    <3> QED
      BY <1>1, <2>1, StillTwice DEF h
  <2>2. CASE a.t = "Create"
    <3> DEFINE l == ApplyCatalogEvent(f, [k |-> "Created", s |-> a.s])
    <3>1. h = LoadRequested(l, a.s)
      BY <1>6, <2>2 DEF HandleMutationAnswer
    <3>2. Still(v, f, l) /\ Still(v, l, LoadRequested(l, a.s))
      BY CatalogStill, LoadStill
    <3> HIDE DEF f, h, l
    <3> QED
      BY <3>1, <3>2, StillTwice
  <2>3. CASE a.t \in {"Rename", "Archive"}
    <3>1. \E o : h = ApplyCatalogEvent(f, o)
      BY <1>6, <2>3 DEF HandleMutationAnswer
    <3> HIDE DEF f, h
    <3> QED
      BY <3>1, CatalogStill
  <2>4. CASE a.t = "Delete"
    <3>1. \E j \in {f, Detach(f)} : h = SessionDeleted(j, a.s)
      BY <1>6, <2>4 DEF HandleMutationAnswer
    <3> HIDE DEF f, h
    <3> QED
      BY <3>1, CatalogStill, ViewsStill, StillTwice
  <2>5. CASE a.t = "Submit"
    <3> DEFINE j == [f EXCEPT !.follows = TRUE]
    <3>1. h = ApplyRun(j, a.s, a.x, a.v)
      BY <1>6, <2>5 DEF HandleMutationAnswer
    <3>2. Still(v, f, j) /\ Still(v, j, ApplyRun(j, a.s, a.x, a.v))
      <4> HIDE DEF f
      <4>1. Still(v, f, j)
        BY AlikeFields DEF Still, Sound, SameTask, ClientFields
      <4> QED
        BY <4>1, RunStill
    <3> HIDE DEF f, h, j
    <3> QED
      BY <3>1, <3>2, StillTwice
  <2>6. CASE a.t = "Exec"
    <3>1. \/ h = Fail(f, "Session")
          \/ \E x : h = [f EXCEPT !.follows = TRUE, !.view = [@ EXCEPT !.cmd = x]]
      <4> HIDE DEF f
      <4> QED
        BY <1>6, <2>6 DEF HandleMutationAnswer, f
    <3> HIDE DEF f, h
    <3>2. \A x : Alike(f.view, [f.view EXCEPT !.cmd = x])
      BY AlikeFields
    <3>3. \A x : Still(v, f, [f EXCEPT !.follows = TRUE, !.view = [@ EXCEPT !.cmd = x]])
      BY <3>2 DEF Still, Sound, SameTask, ClientFields
    <3>4. CASE h = Fail(f, "Session")
      BY <3>4, FailStill
    <3>5. ASSUME NEW x, h = [f EXCEPT !.follows = TRUE, !.view = [@ EXCEPT !.cmd = x]]
          PROVE  Still(v, f, h)
      <4>1. Still(v, f, [f EXCEPT !.follows = TRUE, !.view = [@ EXCEPT !.cmd = x]])
        BY <3>3
      <4> QED
        BY <3>5, <4>1
    <3> QED
      BY <3>1, <3>4, <3>5
  <2>7. CASE a.t = "CancelRun"
    <3> DEFINE runs == [f.view.runs EXCEPT ![a.x] = a.v]
               u == [f.view EXCEPT !.runs = runs]
               j == [f EXCEPT !.view = u]
               act == [j.view EXCEPT !.act = 0]
               w == [act EXCEPT !.transient = 0]
               l == [j EXCEPT !.view = w]
    <3>1. h \in {Fail(f, "Session"), Fail(f, "Run"), j, l}
      <4> HIDE DEF f
      <4> QED
        BY <1>6, <2>7 DEF HandleMutationAnswer, f
    <3> HIDE DEF f, h
    <3>2. Still(v, f, j)
      <4>1. Alike(f.view, u)
        BY AlikeFields
      <4> QED
        BY <4>1, ViewStill
    <3> HIDE DEF j
    <3>3. Still(v, j, l)
      <4>1. Alike(j.view, act) /\ Alike(act, w)
        BY AlikeFields
      <4>2. Alike(j.view, w)
        BY <4>1, AlikeTwice
      <4> QED
        BY <4>2, ViewStill
    <3> HIDE DEF l
    <3> QED
      BY <3>1, <3>2, <3>3, FailStill, StillTwice
  <2>8. CASE a.t = "CancelCmd"
    <3>1. h \in {Fail(f, "Command"), f}
      BY <1>6, <2>8 DEF HandleMutationAnswer
    <3> HIDE DEF f, h
    <3> QED
      BY <3>1, FailStill, StillSelf
  <2>9. CASE a.t \notin {"Create", "Rename", "Archive", "Delete", "Submit", "Exec", "CancelRun",
                         "CancelCmd"}
    <3>1. h \in {Fail(f, "Quit"), f}
      BY <1>6, <2>9 DEF HandleMutationAnswer
    <3> HIDE DEF f, h
    <3> QED
      BY <3>1, FailStill, StillSelf
  <2> QED
    BY <2>2, <2>3, <2>4, <2>5, <2>6, <2>7, <2>8, <2>9
<1> QED
  BY <1>2, <1>3, <1>4, <1>5, <1>6

\* The events that are none of the session's stream.
LEMMA OtherEventStill ==
  ASSUME NEW v, NEW k, NEW e, ~(e.t = "Session" /\ e.gen = k.gen)
  PROVE  Still(v, k, HandleSubscriptionEvent(k, e))
<1> DEFINE h == HandleSubscriptionEvent(k, e)
<1>1. CASE e.t = "Catalog"
  <2>1. PICK i \in {k, Detach(k)} : h = [ApplyCatalogEvent(i, e) EXCEPT !.catCur = e.at]
    BY <1>1 DEF HandleSubscriptionEvent
  <2> DEFINE l == ApplyCatalogEvent(i, e)
  <2>2. Still(v, k, i) /\ Still(v, i, l)
    BY ViewsStill, StillSelf, CatalogStill
  <2> HIDE DEF l
  <2>3. Still(v, l, [l EXCEPT !.catCur = e.at])
    BY AlikeFields DEF Still, Sound, SameTask, ClientFields
  <2> HIDE DEF h
  <2> QED
    BY <2>1, <2>2, <2>3, StillTwice DEF l, h
<1>2. CASE e.t = "Delta" /\ e.gen = k.gen
  <2>1. h \in {Fail(k, "Session"), ApplyDelta(k, e.r)}
    BY <1>2 DEF HandleSubscriptionEvent
  <2> QED
    BY <2>1, FailStill, DeltaStill
<1>3. CASE e.t = "CatalogSnapshotRequired" \/ e.t = "SessionSnapshotRequired"
  <2>1. \/ h = k
        \/ \E op \in {"Sessions", "Load"} : \E s : h = Send(k, Query(op, s))
    BY <1>3 DEF HandleSubscriptionEvent
  <2> QED
    BY <2>1, StillSelf, QueriesStill
<1>4. CASE e.t = "SessionFailed"
  <2> DEFINE u == [k.view EXCEPT !.transient = 0]
  <2>1. h \in {k, [k EXCEPT !.view = u]}
    BY <1>4 DEF HandleSubscriptionEvent
  <2>2. Alike(k.view, u)
    BY AlikeFields
  <2>3. Still(v, k, [k EXCEPT !.view = u])
    BY <2>2, ViewStill
  <2> HIDE DEF h
  <2> QED
    BY <2>1, <2>3, StillSelf DEF h
<1>5. CASE e.t \in {"Session", "Delta"} /\ e.gen # k.gen
  <2>1. h = k
    BY <1>5 DEF HandleSubscriptionEvent
  <2> HIDE DEF h
  <2> QED
    BY <2>1, StillSelf DEF h
<1>6. CASE e.t \notin {"Catalog", "Session", "Delta", "CatalogSnapshotRequired",
                      "SessionSnapshotRequired", "SessionFailed"}
  <2>1. h = k
    BY <1>6 DEF HandleSubscriptionEvent
  <2> HIDE DEF h
  <2> QED
    BY <2>1, StillSelf DEF h
<1> QED
  BY <1>1, <1>2, <1>3, <1>4, <1>5, <1>6

\* A key starts a mutation, which is no request for a page.
LEMMA StartStill ==
  ASSUME NEW v, NEW k, NEW m, m.op \notin {"Window", "Loaded"}
  PROVE  Still(v, k, StartMutation(k, m)) /\ Still(v, k, StartCredentialMutation(k, m))
<1> DEFINE j == Send(k, m)
<1>1. Still(v, k, j)
  <2>1. AskFits(v, m)
    BY DEF AskFits
  <2> QED
    BY <2>1, SendStill
<1>2. /\ StartMutation(k, m)
           \in {k, j, [j EXCEPT !.cmd = m, !.pending = TRUE, !.unknown = FALSE, !.issued = @ + 1]}
      /\ StartCredentialMutation(k, m)
           \in {Fail(k, "Busy"), j,
                [j EXCEPT !.cred = m.id, !.pending = TRUE, !.unknown = FALSE, !.issued = @ + 1]}
  BY DEF StartMutation, StartCredentialMutation
<1> HIDE DEF j
<1>3. Still(v, j, [j EXCEPT !.cmd = m, !.pending = TRUE, !.unknown = FALSE, !.issued = @ + 1])
  BY AlikeFields DEF Still, Sound, SameTask, ClientFields
<1>4. Still(v, j, [j EXCEPT !.cred = m.id, !.pending = TRUE, !.unknown = FALSE, !.issued = @ + 1])
  BY AlikeFields DEF Still, Sound, SameTask, ClientFields
<1> QED
  BY <1>1, <1>2, <1>3, <1>4, StillSelf, FailStill, StillTwice

--------------------------------------------------------------------------------
(* What the handlers do to the window and to the stream. *)

LEMMA StreamStill ==
  ASSUME NEW v, NEW k, NEW j, NEW q, ChannelFits(k, q), k.gen \in Nat, SameTask(k, j),
         k.view # NoView => StreamFits(v, k, q), j.view = NoView \/ DOMAIN k.view = ViewFields,
         Alike(k.view, j.view)
  PROVE  /\ ChannelFits(j, q)
         /\ j.view # NoView => StreamFits(v, j, q)
<1>1. CASE j.gen = k.gen /\ j.sub = k.sub
  <2>1. ChannelFits(j, q)
    BY <1>1 DEF ChannelFits
  <2>2. ASSUME j.view # NoView
        PROVE  StreamFits(v, j, q)
    <3>1. k.view # NoView /\ DOMAIN k.view = ViewFields
      BY <2>2 DEF Alike
    <3>2. j.view.s = k.view.s /\ j.view.cur = k.view.cur
      BY <2>2, <3>1 DEF Alike
    <3>3. StreamFits(v, k, q)
      BY <3>1
    <3> QED
      BY <1>1, <3>2, <3>3 DEF StreamFits, Current
  <2> QED
    BY <2>1, <2>2
<1>2. CASE j.gen \in Nat /\ j.gen > k.gen /\ j.sub = NoTask
  <2>1. DOMAIN NoTask = TaskFields
    BY DEF NoTask, TaskFields
  <2>2. \A n \in DOMAIN q : q[n].t = "Session" => q[n].gen \in 0 .. k.gen
    BY DEF ChannelFits
  <2>3. \A n \in DOMAIN q : ~Current(j, q, n)
    BY <1>2, <2>2 DEF Current
  <2>4. ChannelFits(j, q)
    <3>1. 0 .. k.gen \subseteq 0 .. j.gen
      BY <1>2
    <3> QED
      BY <1>2, <2>1, <3>1 DEF ChannelFits
  <2> QED
    BY <1>2, <2>3, <2>4 DEF StreamFits
<1> QED
  BY <1>1, <1>2 DEF SameTask

LEMMA ViewAlike ==
  ASSUME NEW v, NEW u, NEW w, ViewFits(v, u), Alike(u, w)
  PROVE  ViewFits(v, w) /\ (w = NoView \/ DOMAIN u = ViewFields)
<1>1. CASE u = NoView
  BY <1>1 DEF Alike, ViewFits
<1>2. CASE u # NoView /\ w # NoView
  <2>1. u.s \in Sessions /\ WindowFits(v.log[u.s], u) /\ DOMAIN u = ViewFields
    BY <1>2 DEF ViewFits, WindowFits
  <2>2. /\ DOMAIN w = ViewFields /\ w.s = u.s /\ w.ents = u.ents /\ w.cur = u.cur
        /\ w.snap = u.snap /\ w.since = u.since /\ w.newer = u.newer
        /\ u.deferred => w.deferred
    BY <1>2, <2>1 DEF Alike
  <2>3. Historical(u) => Historical(w)
    BY <2>2 DEF Historical
  <2>4. WindowFits(v.log[u.s], w)
    BY <2>1, <2>2, <2>3 DEF WindowFits
  <2> QED
    BY <2>1, <2>2, <2>4 DEF ViewFits
<1> QED
  BY <1>1, <1>2 DEF ViewFits

LEMMA FitsStill ==
  ASSUME NEW v, NEW k, NEW j, NEW q, ClientFits(v, k, q), k.exit = "None", Still(v, k, j)
  PROVE  ClientFits(v, j, q)
<1>1. /\ Sound(v, k) /\ ViewFits(v, k.view) /\ ChannelFits(k, q) /\ k.gen \in Nat
      /\ k.view # NoView => StreamFits(v, k, q)
  BY DEF ClientFits, Sound
<1>2. Sound(v, j) /\ Alike(k.view, j.view) /\ SameTask(k, j)
  BY <1>1 DEF Still
<1>3. ViewFits(v, j.view) /\ (j.view = NoView \/ DOMAIN k.view = ViewFields)
  BY <1>1, <1>2, ViewAlike
<1>4. ChannelFits(j, q) /\ (j.view # NoView => StreamFits(v, j, q))
  BY <1>1, <1>2, <1>3, StreamStill
<1> QED
  BY <1>2, <1>3, <1>4 DEF ClientFits

\* The next event of the stream adds its entry, or marks the window historical.
LEMMA WindowAdvances ==
  ASSUME NEW l, IsQueue(l), NEW u, WindowFits(l, u), NEW e, e = u.cur + 1, e <= Len(l),
         NEW w, DOMAIN w = ViewFields, w.snap = u.snap, w.since = u.since, w.newer = u.newer,
         w.cur = e,
         \/ /\ w.ents = u.ents /\ (u.deferred => w.deferred)
            /\ e \in EntriesIn(l) => Historical(w) \/ e \in u.ents
         \/ /\ w.ents = u.ents \cup {e} /\ e \in EntriesIn(l) /\ ~Historical(u)
  PROVE  WindowFits(l, w)
<1>1. EntriesIn(l) \subseteq 1 .. Len(l) /\ Len(l) \in Nat
  BY EntriesFacts
<1>2. /\ u.ents \subseteq EntriesIn(l) /\ u.snap \in 0 .. Len(l) /\ u.cur \in 0 .. Len(l)
      /\ u.since \in 0 .. u.cur
  BY DEF WindowFits
<1>3. w.ents \subseteq EntriesIn(l) /\ w.cur \in 0 .. Len(l) /\ w.since \in 0 .. w.cur
  BY <1>1, <1>2
<1> SUFFICES ASSUME u.snap <= u.since
             PROVE  /\ \A b \in w.ents : b <= w.cur
                    /\ \A i \in EntriesIn(l) :
                         Missed(l, w.ents, i) /\ i <= w.snap => Historical(w) /\ AllBefore(w.ents, i)
                    /\ \A i \in EntriesIn(l) \ w.ents :
                         w.since < i /\ i <= w.cur => Historical(w) /\ AllBefore(w.ents, i)
  BY <1>2, <1>3 DEF WindowFits
<1>4. /\ \A b \in u.ents : b <= u.cur
      /\ \A i \in EntriesIn(l) :
           Missed(l, u.ents, i) /\ i <= u.snap => Historical(u) /\ AllBefore(u.ents, i)
      /\ \A i \in EntriesIn(l) \ u.ents :
           u.since < i /\ i <= u.cur => Historical(u) /\ AllBefore(u.ents, i)
  BY DEF WindowFits
<1>5. \A b \in u.ents : b \in Int /\ b < e
  BY <1>1, <1>2, <1>4
<1>6. CASE /\ w.ents = u.ents /\ (u.deferred => w.deferred)
           /\ e \in EntriesIn(l) => Historical(w) \/ e \in u.ents
  <2>1. Historical(u) => Historical(w)
    BY <1>6 DEF Historical
  <2>2. \A b \in w.ents : b <= w.cur
    BY <1>2, <1>5, <1>6
  <2>3. ASSUME NEW i \in EntriesIn(l) \ w.ents, w.since < i, i <= w.cur
        PROVE  Historical(w) /\ AllBefore(w.ents, i)
    <3>1. CASE i <= u.cur
      BY <1>4, <1>6, <2>1, <2>3, <3>1
    <3>2. CASE ~(i <= u.cur)
      <4>1. i = e
        BY <1>1, <1>2, <2>3, <3>2
      <4> QED
        BY <1>5, <1>6, <2>3, <4>1 DEF AllBefore
    <3> QED
      BY <3>1, <3>2
  <2> QED
    BY <1>4, <1>6, <2>1, <2>2, <2>3
<1>7. CASE w.ents = u.ents \cup {e} /\ e \in EntriesIn(l) /\ ~Historical(u)
  <2>1. \A b \in w.ents : b <= w.cur
    BY <1>2, <1>5, <1>7
  <2>2. ASSUME NEW i \in EntriesIn(l), Missed(l, w.ents, i), i <= w.snap
        PROVE  FALSE
    <3>1. PICK a \in w.ents : a < i
      BY <2>2 DEF Missed
    <3>2. i \notin w.ents /\ i \in Int /\ i < e
      BY <1>1, <1>2, <2>2 DEF Missed
    <3>3. a \in u.ents
      BY <1>2, <1>7, <3>1, <3>2
    <3>4. Missed(l, u.ents, i) /\ i <= u.snap
      BY <1>7, <2>2, <3>1, <3>2, <3>3 DEF Missed
    <3> QED
      BY <1>4, <1>7, <3>4
  <2>3. ASSUME NEW i \in EntriesIn(l) \ w.ents, w.since < i, i <= w.cur
        PROVE  FALSE
    <3>1. i \in EntriesIn(l) \ u.ents /\ i # e
      BY <1>7, <2>3
    <3>2. i <= u.cur /\ u.since < i
      BY <1>1, <1>2, <2>3, <3>1
    <3> QED
      BY <1>4, <1>7, <3>1, <3>2
  <2> QED
    BY <2>1, <2>2, <2>3
<1> QED
  BY <1>6, <1>7

\* Fields that no event of the session touches.
LEMMA SessionEventFields ==
  \A k, s, e : DOMAIN k = ClientFields =>
    LET j == ApplySessionEvent(k, s, e)
    IN  DOMAIN j = ClientFields /\ \A x \in ClientFields \ {"view", "exit"} : j[x] = k[x]
<1> DEFINE Other(k, j) ==
             DOMAIN k = ClientFields =>
               DOMAIN j = ClientFields /\ \A x \in ClientFields \ {"view", "exit"} : j[x] = k[x]
<1>1. \A k : Other(k, k) /\ \A why : Other(k, Fail(k, why))
  BY DEF Fail, ClientFields
<1>2. \A k, u : Other(k, [k EXCEPT !.view = u])
  BY DEF ClientFields
<1>3. \A k, j, l : Other(k, j) /\ Other(j, l) => Other(k, l)
  OBVIOUS
<1> HIDE DEF Other
<1> SUFFICES ASSUME NEW k, NEW s, NEW e
             PROVE  Other(k, ApplySessionEvent(k, s, e))
  BY DEF Other
<1> DEFINE o == server.log[s][e]
           a == ApplyRun(k, s, o.r, o.v)
           d == CASE o.k = "entry" -> ApplyEntry(k, e)
                  [] o.k = "run"   -> IF a.exit # "None" \/ ~Historical(k.view) THEN a
                                      ELSE [a EXCEPT !.view.deferred = TRUE]
                  [] OTHER         -> [k EXCEPT !.view.cmd = e]
<1>4. Other(k, a)
  <2>1. \/ a \in {Fail(k, "Session"), Fail(k, "Run")}
        \/ \E u : a = [k EXCEPT !.view = u]
    BY DEF ApplyRun
  <2> HIDE DEF a
  <2> QED
    BY <1>1, <1>2, <2>1
<1>5. Other(k, ApplyEntry(k, e))
  <2>1. ApplyEntry(k, e) = k \/ \E u : ApplyEntry(k, e) = [k EXCEPT !.view = u]
    BY DEF ApplyEntry
  <2> QED
    BY <1>1, <1>2, <2>1
<1>6. Other(k, d)
  <2> HIDE DEF a, o
  <2>1. \/ d \in {ApplyEntry(k, e), a}
        \/ \E u : d = [a EXCEPT !.view = u]
        \/ \E u : d = [k EXCEPT !.view = u]
    OBVIOUS
  <2> HIDE DEF d
  <2> QED
    BY <1>2, <1>3, <1>4, <1>5, <2>1
<1>7. ApplySessionEvent(k, s, e) = Fail(k, "Session") \/ \E u : ApplySessionEvent(k, s, e) = [d EXCEPT !.view = u]
  <2> HIDE DEF a
  <2> QED
    BY DEF ApplySessionEvent, a
<1> HIDE DEF d
<1> QED
  BY <1>1, <1>2, <1>3, <1>6, <1>7

\* The view d of event e, before its cursor is advanced.
Told(l, u, e, d) ==
  /\ DOMAIN d = ViewFields /\ d.s = u.s /\ d.snap = u.snap /\ d.since = u.since /\ d.newer = u.newer
  /\ \/ /\ d.ents = u.ents /\ (u.deferred => d.deferred)
        /\ e \in EntriesIn(l) => Historical(d) \/ e \in u.ents
     \/ /\ d.ents = u.ents \cup {e} /\ e \in EntriesIn(l) /\ ~Historical(u)

LEMMA EntryTold ==
  ASSUME NEW k, DOMAIN k = ClientFields, DOMAIN k.view = ViewFields,
         NEW l, NEW e \in EntriesIn(l)
  PROVE  Told(l, k.view, e, ApplyEntry(k, e).view)
<1> DEFINE u == k.view
           x == Settled(u, e)
<1>1. /\ DOMAIN x = ViewFields /\ x.s = u.s /\ x.snap = u.snap /\ x.since = u.since
      /\ x.newer = u.newer /\ x.ents = u.ents /\ x.deferred = u.deferred
  BY DEF Settled, ViewFields
<1> HIDE DEF x
<1>2. ApplyEntry(k, e).view
        = IF Historical(u) THEN [x EXCEPT !.deferred = TRUE]
          ELSE IF e \in u.ents THEN u
          ELSE IF Cardinality(u.ents) >= Held THEN [x EXCEPT !.deferred = TRUE, !.tail = TRUE]
          ELSE [x EXCEPT !.ents = @ \cup {e}]
  BY DEF ApplyEntry, ClientFields, x
<1> HIDE DEF u
<1>3. CASE Historical(u)
  BY <1>1, <1>2, <1>3 DEF Told, Historical, ViewFields, u
<1>4. CASE ~Historical(u) /\ e \in u.ents
  BY <1>2, <1>4 DEF Told, Historical, u
<1>5. CASE ~Historical(u) /\ e \notin u.ents /\ Cardinality(u.ents) >= Held
  BY <1>1, <1>2, <1>5 DEF Told, Historical, ViewFields, u
<1>6. CASE ~Historical(u) /\ e \notin u.ents /\ ~(Cardinality(u.ents) >= Held)
  BY <1>1, <1>2, <1>6 DEF Told, ViewFields, u
<1> QED
  BY <1>3, <1>4, <1>5, <1>6

LEMMA SessionEventTold ==
  ASSUME NEW k, DOMAIN k = ClientFields, DOMAIN k.view = ViewFields,
         NEW e \in 1 .. Len(server.log[k.view.s])
  PROVE  LET w == ApplySessionEvent(k, k.view.s, e).view
         IN  \/ w = NoView
             \/ \E d : Told(server.log[k.view.s], k.view, e, d) /\ w = [d EXCEPT !.cur = e]
<1> DEFINE s == k.view.s
           l == server.log[s]
           o == server.log[s][e]
           a == ApplyRun(k, s, o.r, o.v)
           d == CASE o.k = "entry" -> ApplyEntry(k, e)
                  [] o.k = "run"   -> IF a.exit # "None" \/ ~Historical(k.view) THEN a
                                      ELSE [a EXCEPT !.view.deferred = TRUE]
                  [] OTHER         -> [k EXCEPT !.view.cmd = e]
           w == ApplySessionEvent(k, s, e).view
<1>1. ApplySessionEvent(k, s, e) = [d EXCEPT !.view = [@ EXCEPT !.cur = e]]
  BY DEF ApplySessionEvent
<1>2. e \in EntriesIn(l) <=> o.k = "entry"
  BY DEF EntriesIn
<1>3. ASSUME NEW y, Alike(k.view, y), y # NoView, o.k # "entry"
      PROVE  Told(l, k.view, e, y)
  BY <1>2, <1>3 DEF Alike, Told
<1>4. Alike(k.view, k.view) /\ DOMAIN k = ClientFields
  BY AlikeFields
<1>5. "view" \in DOMAIN d /\ (d.view = NoView \/ Told(l, k.view, e, d.view))
  <2>1. CASE o.k = "entry"
    <3>1. d = ApplyEntry(k, e)
      BY <2>1
    <3>2. "view" \in DOMAIN ApplyEntry(k, e)
      BY DEF ApplyEntry, ClientFields
    <3> QED
      BY <1>2, <2>1, <3>1, <3>2, EntryTold
  <2>2. CASE o.k = "run"
    <3>1. "view" \in DOMAIN a /\ Alike(k.view, a.view)
      <4>1. \/ a \in {Fail(k, "Session"), Fail(k, "Run")}
            \/ \E u : Alike(k.view, u) /\ a = [k EXCEPT !.view = u]
        BY RunViews
      <4> HIDE DEF a
      <4> QED
        BY <1>4, <4>1 DEF Fail, ClientFields
    <3>2. d \in {a, [a EXCEPT !.view.deferred = TRUE]}
      BY <2>2
    <3> HIDE DEF a, d
    <3> DEFINE y == [a.view EXCEPT !.deferred = TRUE]
    <3>3. Alike(a.view, y)
      BY AlikeFields
    <3>4. [a EXCEPT !.view.deferred = TRUE].view = y
      BY <3>1
    <3>5. "view" \in DOMAIN d /\ d.view \in {a.view, y}
      BY <3>1, <3>2, <3>4
    <3>6. Alike(k.view, y)
      BY <3>1, <3>3, AlikeTwice
    <3> QED
      BY <1>3, <2>2, <3>1, <3>5, <3>6
  <2>3. CASE o.k \notin {"entry", "run"}
    <3> DEFINE y == [k.view EXCEPT !.cmd = e]
    <3>1. d = [k EXCEPT !.view = y]
      BY <2>3
    <3>2. d.view = y /\ "view" \in DOMAIN d
      BY <3>1 DEF ClientFields
    <3>3. Alike(k.view, y)
      BY AlikeFields
    <3> QED
      BY <1>3, <2>3, <3>2, <3>3
  <2> QED
    BY <2>1, <2>2, <2>3
<1>6. w = [d.view EXCEPT !.cur = e]
  <2> HIDE DEF d
  <2> QED
    BY <1>1, <1>5
<1> HIDE DEF d
<1>7. [NoView EXCEPT !.cur = e] = NoView
  BY DEF NoView
<1>8. CASE d.view = NoView
  BY <1>6, <1>7, <1>8
<1>9. CASE d.view # NoView
  <2>1. \E x : Told(l, k.view, e, x) /\ w = [x EXCEPT !.cur = e]
    BY <1>5, <1>6, <1>9
  <2> QED
    BY <2>1
<1> QED
  BY <1>8, <1>9

LEMMA SessionEventFits ==
  ASSUME NEW k, DOMAIN k = ClientFields, k.view.s \in Sessions, k.view # NoView,
         IsQueue(server.log[k.view.s]), ViewFits(server, k.view), NEW e, e = k.view.cur + 1,
         e <= Len(server.log[k.view.s])
  PROVE  LET w == ApplySessionEvent(k, k.view.s, e).view
         IN  ViewFits(server, w) /\ (w = NoView \/ (w.s = k.view.s /\ w.cur = e))
<1> DEFINE l == server.log[k.view.s]
           w == ApplySessionEvent(k, k.view.s, e).view
<1>1. /\ WindowFits(l, k.view) /\ DOMAIN k.view = ViewFields /\ k.view.cur \in 0 .. Len(l)
      /\ Len(l) \in Nat
  BY QueueFacts DEF ViewFits, WindowFits
<1>2. e \in 1 .. Len(l)
  BY <1>1
<1>3. w = NoView \/ \E d : Told(l, k.view, e, d) /\ w = [d EXCEPT !.cur = e]
  BY <1>1, <1>2, SessionEventTold
<1> HIDE DEF w
<1>4. ASSUME NEW d, Told(l, k.view, e, d), w = [d EXCEPT !.cur = e]
      PROVE  WindowFits(l, w) /\ w.s = k.view.s /\ w.cur = e
  <2>1. /\ DOMAIN w = ViewFields /\ w.s = d.s /\ w.snap = d.snap /\ w.since = d.since
        /\ w.newer = d.newer /\ w.ents = d.ents /\ w.deferred = d.deferred /\ w.cur = e
    BY <1>4 DEF Told, ViewFields
  <2>2. Historical(d) <=> Historical(w)
    BY <2>1 DEF Historical
  <2> HIDE DEF l
  <2>3. \/ /\ w.ents = k.view.ents /\ (k.view.deferred => w.deferred)
           /\ e \in EntriesIn(l) => Historical(w) \/ e \in k.view.ents
        \/ /\ w.ents = k.view.ents \cup {e} /\ e \in EntriesIn(l) /\ ~Historical(k.view)
    BY <1>4, <2>1, <2>2 DEF Told
  <2>4. IsQueue(l) /\ e = k.view.cur + 1 /\ e <= Len(l)
    BY DEF l
  <2>5. w.s = k.view.s /\ w.snap = k.view.snap /\ w.since = k.view.since /\ w.newer = k.view.newer
    BY <1>4, <2>1 DEF Told
  <2>6. WindowFits(l, w)
    BY <1>1, <2>1, <2>3, <2>4, <2>5, WindowAdvances
  <2> QED
    BY <2>1, <2>5, <2>6
<1>5. CASE w = NoView
  BY <1>5 DEF ViewFits, w
<1>6. CASE w # NoView
  BY <1>3, <1>4, <1>6 DEF ViewFits, w
<1> QED
  BY <1>5, <1>6 DEF w

--------------------------------------------------------------------------------
(* What the loop takes from the channels. *)

LEMMA PopAside ==
  ASSUME NEW v, NEW k, NEW q, ChannelFits(k, q), q # <<>>, k.view # NoView => StreamFits(v, k, q),
         ~Current(k, q, 1)
  PROVE  ChannelFits(k, Tail(q)) /\ (k.view # NoView => StreamFits(v, k, Tail(q)))
<1> DEFINE p == Tail(q)
<1>1. /\ IsQueue(p) /\ 1 \in DOMAIN q
      /\ \A i \in DOMAIN p : i + 1 \in DOMAIN q /\ p[i] = q[i + 1]
      /\ \A i \in DOMAIN q : i # 1 => i - 1 \in DOMAIN p /\ p[i - 1] = q[i]
  BY QueueShifted DEF ChannelFits
<1>2. DOMAIN p \subseteq Int /\ DOMAIN q \subseteq Int
  BY <1>1, QueueFacts DEF ChannelFits
<1> HIDE DEF p
<1>3. ChannelFits(k, p)
  BY <1>1 DEF ChannelFits
<1>4. \A n \in DOMAIN p : Current(k, p, n) <=> Current(k, q, n + 1)
  BY <1>1 DEF Current
<1>5. \A n \in DOMAIN q : Current(k, q, n) => n # 1 /\ n - 1 \in DOMAIN p /\ p[n - 1] = q[n]
                                              /\ Current(k, p, n - 1)
  BY <1>1 DEF Current
<1>6. ASSUME StreamFits(v, k, q)
      PROVE  StreamFits(v, k, p)
  <2>1. ASSUME NEW n \in DOMAIN p, Current(k, p, n)
        PROVE  /\ p[n].s = k.view.s /\ p[n].at \in k.view.cur + 1 .. Len(v.log[k.view.s])
               /\ p[n].at = k.view.cur + 1 \/ \E m \in DOMAIN p :
                     m < n /\ Current(k, p, m) /\ p[m].at = p[n].at - 1
               /\ \A m \in DOMAIN p : Current(k, p, m) /\ m < n => p[m].at < p[n].at
    <3>1. Current(k, q, n + 1) /\ n + 1 \in DOMAIN q /\ p[n] = q[n + 1]
      BY <1>1, <1>4, <2>1
    <3>2. /\ q[n + 1].s = k.view.s /\ q[n + 1].at \in k.view.cur + 1 .. Len(v.log[k.view.s])
          /\ q[n + 1].at = k.view.cur + 1 \/ \E m \in DOMAIN q :
                m < n + 1 /\ Current(k, q, m) /\ q[m].at = q[n + 1].at - 1
          /\ \A m \in DOMAIN q : Current(k, q, m) /\ m < n + 1 => q[m].at < q[n + 1].at
      BY <1>6, <3>1 DEF StreamFits
    <3>3. ASSUME NEW m \in DOMAIN q, m < n + 1, Current(k, q, m), q[m].at = q[n + 1].at - 1
          PROVE  \E i \in DOMAIN p : i < n /\ Current(k, p, i) /\ p[i].at = p[n].at - 1
      <4>1. m - 1 \in DOMAIN p /\ m - 1 < n /\ Current(k, p, m - 1) /\ p[m - 1] = q[m]
        BY <1>2, <1>5, <3>3
      <4> QED
        BY <3>1, <3>3, <4>1
    <3>4. ASSUME NEW m \in DOMAIN p, Current(k, p, m), m < n
          PROVE  p[m].at < p[n].at
      <4>1. m + 1 \in DOMAIN q /\ Current(k, q, m + 1) /\ m + 1 < n + 1 /\ p[m] = q[m + 1]
        BY <1>1, <1>2, <1>4, <3>4
      <4> QED
        BY <3>1, <3>2, <4>1
    <3> QED
      BY <3>1, <3>2, <3>3, <3>4
  <2>2. ASSUME k.sub # NoTask
        PROVE  /\ k.sub.s = k.view.s /\ k.sub.cur \in k.view.cur .. Len(v.log[k.view.s])
               /\ \A n \in DOMAIN p : Current(k, p, n) => p[n].at <= k.sub.cur
               /\ k.sub.cur = k.view.cur
                  \/ \E n \in DOMAIN p : Current(k, p, n) /\ p[n].at = k.sub.cur
    <3>1. /\ k.sub.s = k.view.s /\ k.sub.cur \in k.view.cur .. Len(v.log[k.view.s])
          /\ \A n \in DOMAIN q : Current(k, q, n) => q[n].at <= k.sub.cur
          /\ k.sub.cur = k.view.cur \/ \E n \in DOMAIN q : Current(k, q, n) /\ q[n].at = k.sub.cur
      BY <1>6, <2>2 DEF StreamFits
    <3>2. \A n \in DOMAIN p : Current(k, p, n) => p[n].at <= k.sub.cur
      BY <1>1, <1>4, <3>1
    <3>3. k.sub.cur = k.view.cur \/ \E n \in DOMAIN p : Current(k, p, n) /\ p[n].at = k.sub.cur
      BY <1>5, <3>1
    <3> QED
      BY <3>1, <3>2, <3>3
  <2> QED
    BY <2>1, <2>2 DEF StreamFits
<1> QED
  BY <1>3, <1>6 DEF p

\* The first event of the stream brings the view one position on.
LEMMA PopCurrent ==
  ASSUME NEW v, NEW k, NEW q, ChannelFits(k, q), q # <<>>, StreamFits(v, k, q), Current(k, q, 1),
         k.view.cur \in Int, NEW j, j.gen = k.gen, j.sub = k.sub
  PROVE  /\ q[1].s = k.view.s /\ q[1].at = k.view.cur + 1 /\ q[1].at <= Len(v.log[k.view.s])
         /\ ChannelFits(j, Tail(q))
         /\ j.view.s = k.view.s /\ j.view.cur = q[1].at => StreamFits(v, j, Tail(q))
<1> DEFINE p == Tail(q)
           l == v.log[k.view.s]
<1>1. /\ IsQueue(p) /\ 1 \in DOMAIN q
      /\ \A i \in DOMAIN p : i + 1 \in DOMAIN q /\ p[i] = q[i + 1]
      /\ \A i \in DOMAIN q : i # 1 => i - 1 \in DOMAIN p /\ p[i - 1] = q[i]
  BY QueueShifted DEF ChannelFits
<1>2. DOMAIN p \subseteq Nat \ {0} /\ DOMAIN q \subseteq Nat \ {0}
  BY <1>1, QueueFacts DEF ChannelFits
<1> HIDE DEF p
<1>3. ChannelFits(j, p)
  BY <1>1 DEF ChannelFits
<1>4. \A n \in DOMAIN p : Current(j, p, n) <=> Current(k, q, n + 1)
  BY <1>1 DEF Current
<1>5. \A n \in DOMAIN q : Current(k, q, n) /\ n # 1 =>
        n - 1 \in DOMAIN p /\ p[n - 1] = q[n] /\ Current(j, p, n - 1)
  BY <1>1 DEF Current
<1>6. ASSUME NEW n \in DOMAIN q, Current(k, q, n)
      PROVE  /\ q[n].s = k.view.s /\ q[n].at \in k.view.cur + 1 .. Len(l)
             /\ q[n].at = k.view.cur + 1 \/ \E m \in DOMAIN q :
                   m < n /\ Current(k, q, m) /\ q[m].at = q[n].at - 1
             /\ \A m \in DOMAIN q : Current(k, q, m) /\ m < n => q[m].at < q[n].at
  BY <1>6 DEF StreamFits
<1>7. q[1].s = k.view.s /\ q[1].at = k.view.cur + 1 /\ q[1].at <= Len(l)
  <2>1. ~\E m \in DOMAIN q : m < 1
    BY <1>2
  <2> QED
    BY <1>1, <1>6, <2>1
<1>8. ASSUME j.view.s = k.view.s, j.view.cur = q[1].at
      PROVE  StreamFits(v, j, p)
  <2>1. ASSUME NEW n \in DOMAIN p, Current(j, p, n)
        PROVE  /\ p[n].s = j.view.s /\ p[n].at \in j.view.cur + 1 .. Len(l)
               /\ p[n].at = j.view.cur + 1 \/ \E m \in DOMAIN p :
                     m < n /\ Current(j, p, m) /\ p[m].at = p[n].at - 1
               /\ \A m \in DOMAIN p : Current(j, p, m) /\ m < n => p[m].at < p[n].at
    <3>1. Current(k, q, n + 1) /\ n + 1 \in DOMAIN q /\ p[n] = q[n + 1]
      BY <1>1, <1>4, <2>1
    <3>2. /\ q[n + 1].s = k.view.s /\ q[n + 1].at \in k.view.cur + 1 .. Len(l)
          /\ q[n + 1].at = k.view.cur + 1 \/ \E m \in DOMAIN q :
                m < n + 1 /\ Current(k, q, m) /\ q[m].at = q[n + 1].at - 1
          /\ \A m \in DOMAIN q : Current(k, q, m) /\ m < n + 1 => q[m].at < q[n + 1].at
      BY <1>6, <3>1
    <3>3. q[1].at < q[n + 1].at
      <4>1. 1 < n + 1
        BY <1>2
      <4> QED
        BY <1>1, <3>2, <4>1
    <3>4. p[n].at \in j.view.cur + 1 .. Len(l)
      BY <1>7, <1>8, <3>1, <3>2, <3>3
    <3>5. PICK m \in DOMAIN q : m < n + 1 /\ Current(k, q, m) /\ q[m].at = q[n + 1].at - 1
      BY <1>7, <3>2, <3>3
    <3>6. ASSUME NEW i \in DOMAIN p, Current(j, p, i), i < n
          PROVE  p[i].at < p[n].at
      <4>1. i + 1 \in DOMAIN q /\ Current(k, q, i + 1) /\ i + 1 < n + 1 /\ p[i] = q[i + 1]
        BY <1>1, <1>2, <1>4, <3>6
      <4> QED
        BY <3>1, <3>2, <4>1
    <3>7. p[n].at = j.view.cur + 1 \/ \E i \in DOMAIN p :
            i < n /\ Current(j, p, i) /\ p[i].at = p[n].at - 1
      <4>1. CASE m = 1
        BY <1>7, <1>8, <3>1, <3>2, <3>5, <4>1
      <4>2. CASE m # 1
        <5>1. m - 1 \in DOMAIN p /\ m - 1 < n /\ Current(j, p, m - 1) /\ p[m - 1] = q[m]
          BY <1>2, <1>5, <3>5, <4>2
        <5> QED
          BY <3>1, <3>5, <5>1
      <4> QED
        BY <4>1, <4>2
    <3> QED
      BY <1>8, <3>1, <3>2, <3>4, <3>6, <3>7
  <2>2. ASSUME j.sub # NoTask
        PROVE  /\ j.sub.s = j.view.s /\ j.sub.cur \in j.view.cur .. Len(l)
               /\ \A n \in DOMAIN p : Current(j, p, n) => p[n].at <= j.sub.cur
               /\ j.sub.cur = j.view.cur
                  \/ \E n \in DOMAIN p : Current(j, p, n) /\ p[n].at = j.sub.cur
    <3>1. /\ k.sub.s = k.view.s /\ k.sub.cur \in k.view.cur .. Len(l)
          /\ \A n \in DOMAIN q : Current(k, q, n) => q[n].at <= k.sub.cur
          /\ k.sub.cur = k.view.cur \/ \E n \in DOMAIN q : Current(k, q, n) /\ q[n].at = k.sub.cur
      BY <2>2 DEF StreamFits
    <3>2. \A n \in DOMAIN p : Current(j, p, n) => p[n].at <= k.sub.cur
      BY <1>1, <1>4, <3>1
    <3>3. k.sub.cur \in j.view.cur .. Len(l)
      BY <1>1, <1>7, <1>8, <3>1
    <3>4. PICK n \in DOMAIN q : Current(k, q, n) /\ q[n].at = k.sub.cur
      BY <1>1, <1>7, <3>1
    <3>5. j.sub.cur = j.view.cur \/ \E i \in DOMAIN p : Current(j, p, i) /\ p[i].at = j.sub.cur
      BY <1>5, <1>8, <3>4
    <3> QED
      BY <1>8, <3>1, <3>2, <3>3, <3>5
  <2> QED
    BY <1>8, <2>1, <2>2 DEF StreamFits
<1> QED
  BY <1>3, <1>7, <1>8 DEF p

\* A page is a window, wherever the stream of the session stands.
LEMMA PageIsWindow ==
  ASSUME NEW v, LogsFit(v), NEW w, PageFits(v, w), NEW x, DOMAIN x = ViewFields,
         x.s = w.s, x.ents = w.ents, x.newer = w.newer, x.snap = w.cur, x.since = x.cur,
         x.cur \in 0 .. Len(v.log[w.s])
  PROVE  ViewFits(v, x)
<1> DEFINE l == v.log[w.s]
<1>1. /\ w.s \in Sessions /\ w.cur \in 0 .. Len(l) /\ w.ents \subseteq EntriesIn(l)
      /\ \A b \in w.ents : b <= w.cur
      /\ \A i \in EntriesIn(l) : Missed(l, w.ents, i) /\ i <= w.cur => w.newer /\ AllBefore(w.ents, i)
  BY DEF PageFits
<1>2. IsQueue(l)
  BY <1>1 DEF LogsFit
<1>3. EntriesIn(l) \subseteq 1 .. Len(l) /\ Len(l) \in Nat
  BY <1>2, EntriesFacts
<1>4. x.cur \in 0 .. Len(l)
  OBVIOUS
<1> HIDE DEF l
<1>5. x.since \in 0 .. x.cur
  BY <1>3, <1>4
<1>6. ASSUME x.snap <= x.since
      PROVE  \A b \in x.ents : b <= x.cur
  <2> SUFFICES ASSUME NEW b \in x.ents
               PROVE  b <= x.cur
    OBVIOUS
  <2>1. b \in Int /\ b <= w.cur /\ w.cur \in Int /\ x.cur \in Int /\ w.cur <= x.cur
    BY <1>1, <1>3, <1>4, <1>6
  <2> QED
    BY <2>1
<1>7. \A i \in EntriesIn(l) :
        Missed(l, x.ents, i) /\ i <= x.snap => Historical(x) /\ AllBefore(x.ents, i)
  BY <1>1 DEF Historical
<1>8. \A i \in EntriesIn(l) : ~(x.since < i /\ i <= x.cur)
  BY <1>3, <1>4
<1>9. WindowFits(l, x)
  BY <1>1, <1>4, <1>5, <1>6, <1>7, <1>8 DEF WindowFits
<1> QED
  BY <1>1, <1>9 DEF ViewFits, l

\* View x shows page w, at the position of its snapshot or of the stream.
Shows(k, w, target, x) ==
  /\ DOMAIN x = ViewFields /\ x.s = w.s /\ x.ents = w.ents /\ x.newer = w.newer
  /\ x.snap = w.cur /\ x.since = x.cur
  /\ x.cur = IF target = "Latest" THEN w.cur ELSE k.view.cur

\* Client j is k with view x.
Views(k, j, x) ==
  \E loading, follows : j = [k EXCEPT !.view = x, !.loading = loading, !.follows = follows]

LEMMA InstalledWindow ==
  ASSUME NEW k, DOMAIN k = ClientFields, NEW w, DOMAIN w = PageFields, NEW target
  PROVE  LET j == InstallTranscriptWindow(k, w, target)
         IN  \/ j = Fail(k, "Session")
             \/ k.view.s = w.s /\ \E x : Views(k, j, x) /\ Shows(k, w, target, x)
<1> DEFINE u == k.view
           ids == DOMAIN w.runs \cup ({u.act} \ {0})
           merged == [w EXCEPT !.runs = [r \in ids |-> IF r \in DOMAIN u.runs THEN u.runs[r]
                                                       ELSE w.runs[r]],
                               !.act = u.act, !.cmd = u.cmd, !.cur = u.cur]
           win == [(IF target = "Latest" THEN w ELSE merged) EXCEPT !.archived = u.archived]
           x == [ViewOf(win) EXCEPT !.deferred = target # "Latest" /\ u.deferred, !.snap = w.cur]
           j == InstallTranscriptWindow(k, w, target)
<1>1. \/ j = Fail(k, "Session")
      \/ /\ u.s = w.s
         /\ j = [k EXCEPT !.view = x, !.loading = FALSE, !.follows = target \in {"Latest", "Older"}]
  BY DEF InstallTranscriptWindow
<1>2. /\ DOMAIN merged = PageFields /\ merged.s = w.s /\ merged.ents = w.ents
      /\ merged.newer = w.newer /\ merged.cur = u.cur
  BY DEF PageFields
<1> HIDE DEF merged
<1>3. /\ win.s = w.s /\ win.ents = w.ents /\ win.newer = w.newer
      /\ win.cur = IF target = "Latest" THEN w.cur ELSE u.cur
  BY <1>2 DEF PageFields
<1> HIDE DEF win
<1>4. /\ DOMAIN x = ViewFields /\ x.s = w.s /\ x.ents = w.ents /\ x.newer = w.newer
      /\ x.snap = w.cur /\ x.since = win.cur /\ x.cur = win.cur
  BY <1>3 DEF ViewOf, ViewFields
<1> HIDE DEF x, j
<1>5. Shows(k, w, target, x)
  BY <1>3, <1>4 DEF Shows
<1>6. j = Fail(k, "Session") \/ (u.s = w.s /\ Views(k, j, x))
  BY <1>1 DEF Views
<1> QED
  BY <1>5, <1>6 DEF j

LEMMA ResubscribeFits ==
  ASSUME NEW v, NEW k, NEW q, Sound(v, k), ViewFits(v, k.view), ChannelFits(k, q), NEW w,
         k.exit = "None" => /\ k.view.s = w.s /\ k.view.cur = w.cur
                            /\ w.cur \in 0 .. Len(v.log[w.s])
  PROVE  ClientFits(v, Resubscribe(k, w), q)
<1>1. CASE k.exit # "None"
  BY <1>1 DEF Resubscribe, ClientFits
<1>2. CASE k.exit = "None"
  <2> DEFINE task == [s |-> w.s, cur |-> w.cur, gen |-> k.gen + 1, fails |-> 0]
             j == [k EXCEPT !.gen = @ + 1, !.sub = task]
  <2>1. Resubscribe(k, w) = j
    BY <1>2 DEF Resubscribe
  <2>2. DOMAIN k = ClientFields /\ k.gen \in Nat /\ AsksFit(v, k.q) /\ k.cmd.op \notin {"Window", "Loaded"}
    BY DEF Sound
  <2>3. /\ DOMAIN j = ClientFields /\ j.gen = k.gen + 1 /\ j.sub = task /\ j.q = k.q
        /\ j.cmd = k.cmd /\ j.view = k.view
    BY <2>2 DEF ClientFields
  <2>4. /\ DOMAIN task = TaskFields /\ task.s = w.s /\ task.cur = w.cur /\ task.gen = k.gen + 1
    BY DEF TaskFields
  <2> HIDE DEF j, task
  <2>5. Sound(v, j)
    BY <2>2, <2>3 DEF Sound
  <2>6. IsQueue(q) /\ \A n \in DOMAIN q : q[n].t = "Session" => q[n].gen \in 0 .. k.gen
                                                               /\ q[n].s \in Sessions
    BY DEF ChannelFits
  <2>7. ChannelFits(j, q)
    <3>1. 0 .. k.gen \subseteq 0 .. j.gen
      BY <2>2, <2>3
    <3> QED
      BY <2>3, <2>4, <2>6, <3>1 DEF ChannelFits
  <2>8. \A n \in DOMAIN q : ~Current(j, q, n)
    BY <2>2, <2>3, <2>6 DEF Current
  <2>9. /\ w.cur \in 0 .. Len(v.log[w.s]) /\ k.view.s = w.s /\ k.view.cur = w.cur
    BY <1>2
  <2>10. StreamFits(v, j, q)
    <3>1. j.sub.cur \in j.view.cur .. Len(v.log[j.view.s])
      BY <2>3, <2>4, <2>9
    <3> QED
      BY <2>3, <2>4, <2>8, <2>9, <3>1 DEF StreamFits
  <2> QED
    BY <2>1, <2>3, <2>5, <2>7, <2>10 DEF ClientFits
<1> QED
  BY <1>1, <1>2

LEMMA LoadedFits ==
  ASSUME NEW v, LogsFit(v), NEW k, NEW q, ClientFits(v, k, q), k.exit = "None",
         NEW a, a.t = "Loaded", AnswerFits(v, a)
  PROVE  ClientFits(v, HandleQueryAnswer(k, a), q)
<1> DEFINE w == a.w
           j == OpenSessionWindow(k, w)
<1>1. PageFits(v, w)
  BY DEF AnswerFits
<1>2. Sound(v, k) /\ ViewFits(v, k.view) /\ ChannelFits(k, q) /\ DOMAIN k = ClientFields
  BY DEF ClientFits, Sound
<1>3. HandleQueryAnswer(k, a) \in {k, Resubscribe(j, w)}
  BY DEF HandleQueryAnswer
<1>4. /\ Sound(v, j) /\ ViewFits(v, j.view) /\ ChannelFits(j, q)
      /\ j.exit = "None" => j.view.s = w.s /\ j.view.cur = w.cur
  <2>1. CASE j = Fail(k, "Session")
    BY <1>2, <2>1 DEF Fail, Sound, ChannelFits, ClientFields
  <2>2. CASE j = [k EXCEPT !.view = ViewOf(w), !.loading = FALSE, !.follows = TRUE]
    <3> DEFINE x == ViewOf(w)
    <3>1. /\ DOMAIN x = ViewFields /\ x.s = w.s /\ x.ents = w.ents /\ x.newer = w.newer
          /\ x.snap = w.cur /\ x.since = x.cur /\ x.cur = w.cur
      BY DEF ViewOf, ViewFields
    <3> HIDE DEF x, w
    <3>2. ViewFits(v, x)
      <4>1. w.cur \in 0 .. Len(v.log[w.s])
        BY <1>1 DEF PageFits
      <4> QED
        BY <1>1, <3>1, <4>1, PageIsWindow
    <3>3. /\ DOMAIN j = ClientFields /\ j.view = x /\ j.gen = k.gen /\ j.q = k.q /\ j.cmd = k.cmd
          /\ j.sub = k.sub
      BY <1>2, <2>2 DEF ClientFields, x
    <3> HIDE DEF j
    <3> QED
      BY <1>2, <3>1, <3>2, <3>3 DEF Sound, ChannelFits
  <2> QED
    BY <2>1, <2>2 DEF OpenSessionWindow
<1>5. w.cur \in 0 .. Len(v.log[w.s])
  BY <1>1 DEF PageFits
<1> HIDE DEF j, w
<1>6. ClientFits(v, Resubscribe(j, w), q)
  BY <1>4, <1>5, ResubscribeFits
<1> QED
  BY <1>3, <1>6

LEMMA WindowAnswerFits ==
  ASSUME NEW v, LogsFit(v), NEW k, NEW q, ClientFits(v, k, q), k.exit = "None",
         NEW a, a.t = "Window", AnswerFits(v, a)
  PROVE  ClientFits(v, HandleQueryAnswer(k, a), q)
<1> DEFINE w == a.w
           j == InstallTranscriptWindow(k, w, a.x)
<1>1. PageFits(v, w) /\ DOMAIN w = PageFields /\ w.s \in Sessions
  BY DEF AnswerFits, PageFits
<1>2. /\ Sound(v, k) /\ ViewFits(v, k.view) /\ ChannelFits(k, q) /\ DOMAIN k = ClientFields
      /\ k.view # NoView => StreamFits(v, k, q)
  BY DEF ClientFits, Sound
<1>3. /\ HandleQueryAnswer(k, a) \in {k, j, Resubscribe(j, w)}
      /\ a.x # "Latest" => HandleQueryAnswer(k, a) \in {k, j}
      /\ a.x = "Latest" => HandleQueryAnswer(k, a) \in {k, Resubscribe(j, w)}
  BY DEF HandleQueryAnswer
<1>4. CASE j = Fail(k, "Session")
  <2>1. j.exit = "Session" /\ ClientFits(v, j, q)
    BY <1>2, <1>4 DEF Fail, Sound, ChannelFits, ClientFields, ClientFits
  <2>2. Resubscribe(j, w) = j
    BY <2>1 DEF Resubscribe
  <2> QED
    BY <1>3, <2>1, <2>2
<1>5. \/ j = Fail(k, "Session")
      \/ k.view.s = w.s /\ \E x : Views(k, j, x) /\ Shows(k, w, a.x, x)
  <2>1. DOMAIN k = ClientFields /\ DOMAIN w = PageFields
    BY <1>1, <1>2
  <2> HIDE DEF w
  <2> QED
    BY <2>1, InstalledWindow
<1>6. CASE j # Fail(k, "Session")
  <2>1. PICK x : Views(k, j, x) /\ Shows(k, w, a.x, x)
    BY <1>5, <1>6
  <2>2. k.view.s = w.s
    BY <1>5, <1>6
  <2> HIDE DEF w
  <2>3. /\ DOMAIN j = ClientFields /\ j.view = x /\ j.gen = k.gen /\ j.q = k.q /\ j.cmd = k.cmd
        /\ j.sub = k.sub /\ j.exit = k.exit
    BY <1>2, <2>1 DEF Views, ClientFields
  <2> HIDE DEF j
  <2>4. k.view # NoView
    BY <1>1, <2>2, NoViewFields
  <2>5. k.view.cur \in 0 .. Len(v.log[w.s]) /\ w.cur \in 0 .. Len(v.log[w.s])
    BY <1>1, <1>2, <2>2, <2>4 DEF ViewFits, WindowFits, PageFits
  <2>6. x.cur \in 0 .. Len(v.log[w.s])
    BY <2>1, <2>5 DEF Shows
  <2>7. ViewFits(v, x)
    BY <1>1, <2>1, <2>6, PageIsWindow DEF Shows
  <2>8. Sound(v, j) /\ ChannelFits(j, q)
    BY <1>2, <2>3 DEF Sound, ChannelFits
  <2>9. CASE a.x = "Latest"
    <3>1. ClientFits(v, Resubscribe(j, w), q)
      BY <2>1, <2>3, <2>5, <2>7, <2>8, <2>9, ResubscribeFits DEF Shows
    <3> QED
      BY <1>3, <2>9, <3>1
  <2>10. CASE a.x # "Latest"
    <3>1. StreamFits(v, k, q)
      BY <1>2, <2>4
    <3>2. j.view.s = k.view.s /\ j.view.cur = k.view.cur
      BY <2>1, <2>2, <2>3, <2>10 DEF Shows
    <3>3. StreamFits(v, j, q)
      BY <2>3, <3>1, <3>2 DEF StreamFits, Current
    <3>4. ClientFits(v, j, q)
      BY <2>3, <2>7, <2>8, <3>3 DEF ClientFits
    <3> QED
      BY <1>3, <2>10, <3>4
  <2> QED
    BY <2>9, <2>10
<1> QED
  BY <1>4, <1>6

LEMMA AnswerTaken ==
  ASSUME NEW v, LogsFit(v), NEW k, NEW q, ClientFits(v, k, q), k.exit = "None",
         NEW a, AnswerFits(v, a)
  PROVE  ClientFits(v, HandleQueryAnswer(k, a), q) /\ ClientFits(v, HandleMutationAnswer(k, a), q)
<1>1. ASSUME a.t \notin {"Loaded", "Window"}
      PROVE  ClientFits(v, HandleQueryAnswer(k, a), q)
  <2>1. Still(v, k, HandleQueryAnswer(k, a))
    BY <1>1, QueryAnswerStill
  <2> QED
    BY <2>1, FitsStill
<1>2. a.t = "Loaded" => ClientFits(v, HandleQueryAnswer(k, a), q)
  BY LoadedFits
<1>3. a.t = "Window" => ClientFits(v, HandleQueryAnswer(k, a), q)
  BY WindowAnswerFits
<1>4. ClientFits(v, HandleMutationAnswer(k, a), q)
  <2>1. Still(v, k, HandleMutationAnswer(k, a))
    BY MutationAnswerStill
  <2> QED
    BY <2>1, FitsStill
<1> QED
  BY <1>1, <1>2, <1>3, <1>4

LEMMA LatestFits ==
  ASSUME NEW v, LogsFit(v), NEW s
  PROVE  AskFits(v, LatestOf(s)) /\ LatestOf(s).op = "Window" /\ LatestOf(s).s = s
<1>1. \A x \in Sessions : Len(v.log[x]) \in 0 .. Len(v.log[x])
  BY QueueFacts DEF LogsFit
<1>2. /\ LatestOf(s).op = "Window" /\ LatestOf(s).s = s /\ LatestOf(s).shown = {}
      /\ LatestOf(s).x = "Latest"
  BY DEF LatestOf
<1> QED
  BY <1>1, <1>2 DEF AskFits, Snapshot

LEMMA EventTaken ==
  ASSUME LogsFit(server), NEW k, NEW q, ClientFits(server, k, q), k.exit = "None", q # <<>>
  PROVE  ClientFits(server, HandleSubscriptionEvent(k, Head(q)), Tail(q))
<1> DEFINE e == Head(q)
           h == HandleSubscriptionEvent(k, e)
<1>1. /\ Sound(server, k) /\ ViewFits(server, k.view) /\ ChannelFits(k, q)
      /\ DOMAIN k = ClientFields
      /\ k.view # NoView => StreamFits(server, k, q)
  BY DEF ClientFits, Sound
<1>2. e = q[1] /\ 1 \in DOMAIN q
  BY <1>1, QueueShifted DEF ChannelFits
<1>3. CASE ~Current(k, q, 1)
  <2>1. ~(e.t = "Session" /\ e.gen = k.gen)
    BY <1>2, <1>3 DEF Current
  <2>2. ClientFits(server, k, Tail(q))
    BY <1>1, <1>3, PopAside DEF ClientFits
  <2> QED
    BY <2>1, <2>2, OtherEventStill, FitsStill
<1>4. CASE Current(k, q, 1)
  <2> DEFINE j == ApplySessionEvent(k, e.s, e.at)
             i == [j EXCEPT !.loading = TRUE]
  <2>1. e.t = "Session" /\ e.gen = k.gen /\ e.s \in Sessions
    BY <1>1, <1>2, <1>4 DEF Current, ChannelFits
  <2>2. h = j \/ (j.exit = "None" /\ h = Send(i, LatestOf(j.view.s)))
    BY <2>1 DEF HandleSubscriptionEvent
  <2>3. DOMAIN j = ClientFields /\ \A x \in ClientFields \ {"view", "exit"} : j[x] = k[x]
    BY <1>1, SessionEventFields
  <2>4. j.gen = k.gen /\ j.sub = k.sub /\ j.q = k.q /\ j.cmd = k.cmd
    BY <2>3 DEF ClientFields
  <2>5. Sound(server, j) /\ ChannelFits(j, Tail(q))
    <3>1. IsQueue(Tail(q)) /\ \A n \in DOMAIN Tail(q) : n + 1 \in DOMAIN q /\ Tail(q)[n] = q[n + 1]
      BY <1>1, QueueShifted DEF ChannelFits
    <3> HIDE DEF j
    <3> QED
      BY <1>1, <2>3, <2>4, <3>1 DEF Sound, ChannelFits
  <2>6. CASE k.view.s # e.s
    <3>1. j = Fail(k, "Session")
      BY <2>6 DEF ApplySessionEvent
    <3>2. j.view = k.view /\ j.exit = "Session"
      BY <1>1, <3>1 DEF Fail, ClientFields
    <3>3. h = j
      BY <2>2, <3>2
    <3> HIDE DEF j, h
    <3> QED
      BY <1>1, <2>5, <3>2, <3>3 DEF ClientFits, h
  <2>7. CASE k.view.s = e.s
    <3>1. k.view # NoView /\ k.view.s \in Sessions
      BY <2>1, <2>7, NoViewFields
    <3>2. k.view.cur \in Int /\ StreamFits(server, k, q)
      BY <1>1, <3>1 DEF ViewFits, WindowFits
    <3>3. /\ e.at = k.view.cur + 1 /\ e.at <= Len(server.log[k.view.s])
          /\ j.view.s = k.view.s /\ j.view.cur = e.at => StreamFits(server, j, Tail(q))
      BY <1>1, <1>2, <1>4, <2>4, <3>2, PopCurrent
    <3>4. ViewFits(server, j.view) /\ (j.view = NoView \/ (j.view.s = k.view.s /\ j.view.cur = e.at))
      <4>1. IsQueue(server.log[k.view.s])
        BY <3>1 DEF LogsFit
      <4> QED
        BY <1>1, <2>7, <3>1, <3>3, <4>1, SessionEventFits
    <3> HIDE DEF j
    <3>5. ClientFits(server, j, Tail(q))
      BY <2>5, <3>3, <3>4 DEF ClientFits
    <3>6. Still(server, j, i)
      BY AlikeFields DEF Still, Sound, SameTask, ClientFields
    <3>7. i.exit = j.exit
      BY <2>3 DEF ClientFields
    <3>8. AskFits(server, LatestOf(j.view.s))
      BY LatestFits
    <3> HIDE DEF i
    <3>9. Still(server, i, Send(i, LatestOf(j.view.s)))
      BY <3>8, SendStill
    <3>10. CASE j.exit = "None" /\ h = Send(i, LatestOf(j.view.s))
      <4>1. Still(server, j, h)
        BY <3>6, <3>9, <3>10, StillTwice
      <4> HIDE DEF h
      <4> QED
        BY <3>5, <3>10, <4>1, FitsStill DEF h
    <3> QED
      BY <2>2, <3>5, <3>10
  <2> QED
    BY <2>6, <2>7
<1> QED
  BY <1>3, <1>4

--------------------------------------------------------------------------------
(* What the server does to its logs. *)

\* The logs of server w are those of v with what was appended since.
Extends(l, x) == Len(l) <= Len(x) /\ \A i \in 1 .. Len(l) : x[i] = l[i]

Grows(v, w) == LogsFit(v) => LogsFit(w) /\ \A s \in Sessions : Extends(v.log[s], w.log[s])

LEMMA GrowsTwice == \A v, w, x : Grows(v, w) /\ Grows(w, x) => Grows(v, x)
<1> TAKE v, w, x
<1> SUFFICES ASSUME Grows(v, w), Grows(w, x), LogsFit(v), NEW s \in Sessions
             PROVE  LogsFit(x) /\ Extends(v.log[s], x.log[s])
  BY DEF Grows
<1>1. LogsFit(w) /\ LogsFit(x) /\ Extends(v.log[s], w.log[s]) /\ Extends(w.log[s], x.log[s])
  BY DEF Grows
<1>2. Len(v.log[s]) \in Nat /\ Len(w.log[s]) \in Nat /\ Len(x.log[s]) \in Nat
  BY <1>1, QueueFacts DEF LogsFit
<1>3. Extends(v.log[s], x.log[s])
  <2> DEFINE a == v.log[s]
             b == w.log[s]
             d == x.log[s]
  <2>1. /\ Len(a) \in Nat /\ Len(b) \in Nat /\ Len(d) \in Nat /\ Len(a) <= Len(b) /\ Len(b) <= Len(d)
        /\ \A i \in 1 .. Len(a) : b[i] = a[i]
        /\ \A i \in 1 .. Len(b) : d[i] = b[i]
    BY <1>1, <1>2 DEF Extends
  <2> HIDE DEF a, b, d
  <2>2. Extends(a, d)
    BY <2>1 DEF Extends
  <2> QED
    BY <2>2 DEF a, d
<1> QED
  BY <1>1, <1>3

\* A step that leaves the logs alone.
LEMMA SameLogs ==
  ASSUME NEW v, NEW w,
         LogsFit(v) => /\ {"log", "live", "unborn"} \subseteq DOMAIN w /\ w.log = v.log
                       /\ w.live \subseteq Sessions /\ w.unborn \subseteq Sessions
  PROVE  Grows(v, w)
<1>1. \A l : IsQueue(l) => Extends(l, l)
  BY QueueFacts DEF Extends
<1> QED
  BY <1>1 DEF Grows, LogsFit

LEMMA GrowsSelf == \A v : Grows(v, v)
BY SameLogs DEF LogsFit

LEMMA JoinedQueues ==
  ASSUME NEW l, IsQueue(l), NEW es, IsQueue(es)
  PROVE  IsQueue(l \o es) /\ Extends(l, l \o es)
<1>1. PICK S : l \in Seq(S)
  BY DEF IsQueue
<1>2. PICK T : es \in Seq(T)
  BY DEF IsQueue
<1>3. l \in Seq(S \cup T) /\ es \in Seq(S \cup T)
  BY <1>1, <1>2
<1>4. /\ l \o es \in Seq(S \cup T) /\ Len(l \o es) = Len(l) + Len(es)
      /\ Len(l) \in Nat /\ Len(es) \in Nat
      /\ \A i \in 1 .. Len(l) : (l \o es)[i] = l[i]
  BY <1>3
<1>5. Len(l) <= Len(l \o es)
  BY <1>4
<1> QED
  BY <1>4, <1>5 DEF IsQueue, Extends

LEMMA LoggedGrows ==
  ASSUME NEW v, NEW s, NEW es, IsQueue(es)
  PROVE  Grows(v, Logged(v, s, es))
<1> DEFINE w == Logged(v, s, es)
<1> SUFFICES ASSUME LogsFit(v)
             PROVE  LogsFit(w) /\ \A x \in Sessions : Extends(v.log[x], w.log[x])
  BY DEF Grows
<1>1. /\ {"log", "live", "unborn"} \subseteq DOMAIN w /\ w.live = v.live /\ w.unborn = v.unborn
      /\ w.log = [v.log EXCEPT ![s] = @ \o es]
  BY DEF Logged, LogsFit
<1>2. /\ DOMAIN w.log = Sessions
      /\ \A x \in Sessions : w.log[x] = IF x = s THEN v.log[x] \o es ELSE v.log[x]
  BY <1>1 DEF LogsFit
<1>3. ASSUME NEW x \in Sessions
      PROVE  IsQueue(w.log[x]) /\ Extends(v.log[x], w.log[x])
  <2>1. IsQueue(v.log[x])
    BY DEF LogsFit
  <2>2. IsQueue(v.log[x] \o es) /\ Extends(v.log[x], v.log[x] \o es)
    BY <2>1, JoinedQueues
  <2>3. Extends(v.log[x], v.log[x])
    BY <2>1, QueueFacts DEF Extends
  <2> HIDE DEF w
  <2> QED
    BY <1>2, <2>1, <2>2, <2>3
<1> HIDE DEF w
<1> QED
  BY <1>1, <1>2, <1>3 DEF LogsFit

LEMMA ShortQueues == \A a, b : IsQueue(<<a>>) /\ IsQueue(<<a, b>>)
<1> TAKE a, b
<1>1. <<a>> \in Seq({a, b}) /\ <<a, b>> \in Seq({a, b})
  OBVIOUS
<1> QED
  BY <1>1 DEF IsQueue

LEMMA ListedGrows == \A v, k, s : Grows(v, Listed(v, k, s))
<1> TAKE v, k, s
<1>1. LogsFit(v) => /\ {"log", "live", "unborn"} \subseteq DOMAIN Listed(v, k, s)
                    /\ Listed(v, k, s).log = v.log /\ Listed(v, k, s).live = v.live
                    /\ Listed(v, k, s).unborn = v.unborn
  BY DEF Listed, LogsFit
<1> QED
  BY <1>1, SameLogs DEF LogsFit

LEMMA AppliedGrows ==
  ASSUME NEW v, NEW m, Admitted(v, m)
  PROVE  Grows(v, Applied(v, m))
<1> DEFINE w == Applied(v, m)
<1>1. CASE m.op = "Create"
  <2> DEFINE s == CHOOSE x \in v.unborn : TRUE
             y == [v EXCEPT !.live = @ \cup {s}, !.unborn = @ \ {s}]
  <2>1. w = Listed(y, "Created", s)
    BY <1>1 DEF Applied
  <2>2. v.unborn # {}
    BY <1>1 DEF Admitted
  <2>3. s \in v.unborn
    BY <2>2
  <2> HIDE DEF s
  <2>4. LogsFit(v) => /\ {"log", "live", "unborn"} \subseteq DOMAIN y /\ y.log = v.log
                      /\ y.live = v.live \cup {s} /\ y.unborn = v.unborn \ {s}
    BY DEF LogsFit
  <2>5. Grows(v, y)
    <3> HIDE DEF y
    <3> QED
      BY <2>3, <2>4, SameLogs DEF LogsFit
  <2> HIDE DEF y, w
  <2> QED
    BY <2>1, <2>5, ListedGrows, GrowsTwice DEF w
<1>2. CASE m.op = "Rename"
  BY <1>2, ListedGrows DEF Applied
<1>3. CASE m.op = "Archive"
  <2>1. PICK archived : w = Listed([v EXCEPT !.archived = archived], "Changed", m.s)
    BY <1>3 DEF Applied
  <2>2. Grows(v, [v EXCEPT !.archived = archived])
    BY SameLogs DEF LogsFit
  <2> HIDE DEF w
  <2> QED
    BY <2>1, <2>2, ListedGrows, GrowsTwice DEF w
<1>4. CASE m.op = "Delete"
  <2> DEFINE y == [v EXCEPT !.live = @ \ {m.s}]
  <2>1. w = Listed(y, "Removed", m.s)
    BY <1>4 DEF Applied
  <2>2. Grows(v, y)
    BY SameLogs DEF LogsFit
  <2> HIDE DEF w, y
  <2> QED
    BY <2>1, <2>2, ListedGrows, GrowsTwice DEF w
<1>5. CASE m.op \in {"Submit", "Exec"}
  <2>1. \E a, b : w \in {Logged(v, m.s, <<a>>), Logged(v, m.s, <<a, b>>)}
    BY <1>5 DEF Applied
  <2> HIDE DEF w
  <2> QED
    BY <2>1, LoggedGrows, ShortQueues DEF w
<1>6. CASE m.op \notin {"Create", "Rename", "Archive", "Delete", "Submit", "Exec"}
  <2>1. w = v \/ \E cancelled, a : w = Logged([v EXCEPT !.cancelled = cancelled], m.s, <<a>>)
    BY <1>6 DEF Applied
  <2>2. \A cancelled : Grows(v, [v EXCEPT !.cancelled = cancelled])
    BY SameLogs DEF LogsFit
  <2> HIDE DEF w
  <2>3. CASE w = v
    BY <2>3, GrowsSelf DEF w
  <2>4. ASSUME NEW cancelled, NEW a, w = Logged([v EXCEPT !.cancelled = cancelled], m.s, <<a>>)
        PROVE  Grows(v, w)
    <3> DEFINE y == [v EXCEPT !.cancelled = cancelled]
    <3>1. Grows(v, y)
      BY <2>2
    <3>2. Grows(y, Logged(y, m.s, <<a>>))
      BY LoggedGrows, ShortQueues
    <3> HIDE DEF y
    <3> QED
      BY <2>4, <3>1, <3>2, GrowsTwice DEF y
  <2> QED
    BY <2>1, <2>3, <2>4 DEF w
<1> QED
  BY <1>1, <1>2, <1>3, <1>4, <1>5, <1>6

LEMMA ExecutedGrows == \A v, m : Grows(v, Executed(v, m).server)
<1> TAKE v, m
<1> DEFINE w == Executed(v, m).server
           y == Applied(v, m)
<1>1. w = v \/ (Admitted(v, m) /\ \E r : w = [y EXCEPT !.receipts = r])
  BY DEF Executed
<1>2. CASE w = v
  BY <1>2, GrowsSelf
<1>3. ASSUME NEW r, Admitted(v, m), w = [y EXCEPT !.receipts = r]
      PROVE  Grows(v, w)
  <2>1. Grows(v, y)
    BY <1>3, AppliedGrows
  <2> HIDE DEF y
  <2>2. Grows(y, [y EXCEPT !.receipts = r])
    BY SameLogs DEF LogsFit
  <2> HIDE DEF w
  <2> QED
    BY <1>3, <2>1, <2>2, GrowsTwice
<1> HIDE DEF w, y
<1> QED
  BY <1>1, <1>2, <1>3 DEF w

\* What a log has been extended by is after all it had.
LEMMA ExtendedEntries ==
  ASSUME NEW l, IsQueue(l), NEW x, IsQueue(x), Extends(l, x)
  PROVE  /\ Len(l) \in Nat /\ Len(x) \in Nat /\ Len(l) <= Len(x)
         /\ EntriesIn(l) \subseteq EntriesIn(x)
         /\ \A i \in EntriesIn(x) : i \in Int /\ (i <= Len(l) => i \in EntriesIn(l))
BY QueueFacts DEF Extends, EntriesIn

LEMMA ExtendedWindow ==
  ASSUME NEW l, IsQueue(l), NEW x, IsQueue(x), Extends(l, x), NEW u, WindowFits(l, u)
  PROVE  WindowFits(x, u)
<1>1. /\ Len(l) \in Nat /\ Len(x) \in Nat /\ Len(l) <= Len(x) /\ EntriesIn(l) \subseteq EntriesIn(x)
      /\ \A i \in EntriesIn(x) : i \in Int /\ (i <= Len(l) => i \in EntriesIn(l))
  BY ExtendedEntries
<1>2. /\ DOMAIN u = ViewFields /\ u.ents \subseteq EntriesIn(l)
      /\ u.snap \in 0 .. Len(l) /\ u.cur \in 0 .. Len(l) /\ u.since \in 0 .. u.cur
  BY DEF WindowFits
<1>3. u.ents \subseteq EntriesIn(x) /\ u.snap \in 0 .. Len(x) /\ u.cur \in 0 .. Len(x)
  BY <1>1, <1>2
<1>4. ASSUME u.snap <= u.since
      PROVE  /\ \A b \in u.ents : b <= u.cur
             /\ \A i \in EntriesIn(x) :
                  Missed(x, u.ents, i) /\ i <= u.snap => Historical(u) /\ AllBefore(u.ents, i)
             /\ \A i \in EntriesIn(x) \ u.ents :
                  u.since < i /\ i <= u.cur => Historical(u) /\ AllBefore(u.ents, i)
  <2>1. /\ \A b \in u.ents : b <= u.cur
        /\ \A i \in EntriesIn(l) :
             Missed(l, u.ents, i) /\ i <= u.snap => Historical(u) /\ AllBefore(u.ents, i)
        /\ \A i \in EntriesIn(l) \ u.ents :
             u.since < i /\ i <= u.cur => Historical(u) /\ AllBefore(u.ents, i)
    BY <1>4 DEF WindowFits
  <2>2. \A i \in EntriesIn(x) : i <= u.snap \/ i <= u.cur => i \in EntriesIn(l)
    BY <1>1, <1>2
  <2> QED
    BY <2>1, <2>2 DEF Missed
<1> QED
  BY <1>2, <1>3, <1>4 DEF WindowFits

LEMMA GrownPages ==
  ASSUME NEW v, NEW w, LogsFit(v), Grows(v, w), NEW x, PageFits(v, x)
  PROVE  PageFits(w, x)
<1> DEFINE l == v.log[x.s]
           y == w.log[x.s]
<1>1. /\ DOMAIN x = PageFields /\ x.s \in Sessions /\ x.cur \in 0 .. Len(l)
      /\ x.ents \subseteq EntriesIn(l) /\ \A b \in x.ents : b <= x.cur
      /\ \A i \in EntriesIn(l) : Missed(l, x.ents, i) /\ i <= x.cur => x.newer /\ AllBefore(x.ents, i)
  BY DEF PageFits
<1>2. IsQueue(l) /\ IsQueue(y) /\ Extends(l, y)
  BY <1>1 DEF Grows, LogsFit
<1>3. /\ Len(l) \in Nat /\ Len(y) \in Nat /\ Len(l) <= Len(y) /\ EntriesIn(l) \subseteq EntriesIn(y)
      /\ \A i \in EntriesIn(y) : i \in Int /\ (i <= Len(l) => i \in EntriesIn(l))
  BY <1>2, ExtendedEntries
<1>4. x.cur \in 0 .. Len(y) /\ \A i \in EntriesIn(y) : i <= x.cur => i \in EntriesIn(l)
  BY <1>1, <1>3
<1>5. \A i \in EntriesIn(y) : Missed(y, x.ents, i) /\ i <= x.cur => x.newer /\ AllBefore(x.ents, i)
  BY <1>1, <1>4 DEF Missed
<1>6. x.ents \subseteq EntriesIn(y)
  BY <1>1, <1>3
<1> QED
  BY <1>1, <1>4, <1>5, <1>6 DEF PageFits

LEMMA GrownAsks ==
  ASSUME NEW v, NEW w, LogsFit(v), Grows(v, w), NEW m, AskFits(v, m)
  PROVE  AskFits(w, m)
<1> SUFFICES ASSUME m.op = "Window", m.s \in Sessions
             PROVE  Snapshot(w, m) \in 0 .. Len(w.log[m.s])
  BY DEF AskFits
<1>1. Snapshot(v, m) \in 0 .. Len(v.log[m.s])
  BY DEF AskFits
<1>2. /\ IsQueue(v.log[m.s]) /\ IsQueue(w.log[m.s]) /\ Extends(v.log[m.s], w.log[m.s])
  BY DEF Grows, LogsFit
<1>3. /\ Len(v.log[m.s]) \in Nat /\ Len(w.log[m.s]) \in Nat
      /\ Len(v.log[m.s]) <= Len(w.log[m.s])
  BY <1>2, ExtendedEntries
<1> QED
  BY <1>1, <1>3 DEF Snapshot

LEMMA GrownStream ==
  ASSUME NEW v, NEW w, NEW k, NEW q, StreamFits(v, k, q), k.view.cur \in Int,
         Len(v.log[k.view.s]) \in Int, Len(w.log[k.view.s]) \in Int,
         Len(v.log[k.view.s]) <= Len(w.log[k.view.s])
  PROVE  StreamFits(w, k, q)
<1>1. /\ k.view.cur + 1 .. Len(v.log[k.view.s]) \subseteq k.view.cur + 1 .. Len(w.log[k.view.s])
      /\ k.view.cur .. Len(v.log[k.view.s]) \subseteq k.view.cur .. Len(w.log[k.view.s])
  OBVIOUS
<1>2. k.sub # NoTask => k.sub.cur \in k.view.cur .. Len(v.log[k.view.s])
  BY DEF StreamFits
<1>3. \A n \in DOMAIN q : Current(k, q, n) => q[n].at \in k.view.cur + 1 .. Len(v.log[k.view.s])
  BY DEF StreamFits
<1> DEFINE a == k.view.cur + 1 .. Len(v.log[k.view.s])
           b == k.view.cur + 1 .. Len(w.log[k.view.s])
<1>4. \A n \in DOMAIN q : Current(k, q, n) => q[n].at \in b
  BY <1>1, <1>3
<1>5. k.sub # NoTask => k.sub.cur \in k.view.cur .. Len(w.log[k.view.s])
  BY <1>1, <1>2
<1> QED
  BY <1>4, <1>5 DEF StreamFits

LEMMA GrownFits ==
  ASSUME NEW v, NEW w, LogsFit(v), Grows(v, w)
  PROVE  /\ LogsFit(w)
         /\ \A a : AnswerFits(v, a) => AnswerFits(w, a)
         /\ \A k, q : ClientFits(v, k, q) => ClientFits(w, k, q)
<1>1. LogsFit(w) /\ \A s \in Sessions : Extends(v.log[s], w.log[s])
  BY DEF Grows
<1>2. \A a : AnswerFits(v, a) => AnswerFits(w, a)
  BY GrownPages DEF AnswerFits
<1>3. ASSUME NEW k, NEW q, ClientFits(v, k, q)
      PROVE  ClientFits(w, k, q)
  <2>1. /\ Sound(v, k) /\ ViewFits(v, k.view) /\ ChannelFits(k, q)
        /\ k.exit = "None" /\ k.view # NoView => StreamFits(v, k, q)
    BY <1>3 DEF ClientFits
  <2>2. Sound(w, k)
    <3>1. \A m : AskFits(v, m) => AskFits(w, m)
      BY GrownAsks
    <3> QED
      BY <2>1, <3>1 DEF Sound, AsksFit
  <2>3. CASE k.view = NoView
    BY <2>1, <2>2, <2>3 DEF ClientFits, ViewFits
  <2>4. CASE k.view # NoView
    <3>1. k.view.s \in Sessions /\ WindowFits(v.log[k.view.s], k.view)
      BY <2>1, <2>4 DEF ViewFits
    <3>2. /\ IsQueue(v.log[k.view.s]) /\ IsQueue(w.log[k.view.s])
          /\ Extends(v.log[k.view.s], w.log[k.view.s])
      BY <1>1, <3>1 DEF LogsFit
    <3>3. /\ Len(v.log[k.view.s]) \in Nat /\ Len(w.log[k.view.s]) \in Nat
          /\ Len(v.log[k.view.s]) <= Len(w.log[k.view.s])
      BY <3>2, ExtendedEntries
    <3>4. WindowFits(w.log[k.view.s], k.view)
      BY <3>1, <3>2, ExtendedWindow
    <3>5. k.view.cur \in Int
      BY <3>1, <3>3 DEF WindowFits
    <3>6. StreamFits(v, k, q) => StreamFits(w, k, q)
      BY <3>3, <3>5, GrownStream
    <3> QED
      BY <2>1, <2>2, <3>1, <3>4, <3>6 DEF ClientFits, ViewFits
  <2> QED
    BY <2>3, <2>4
<1> QED
  BY <1>1, <1>2, <1>3

\* Pages come from the logs only.
LEMMA AnswersArePages ==
  ASSUME NEW v, LogsFit(v), NEW m, AskFits(v, m)
  PROVE  AnswerFits(Executed(v, m).server, Executed(v, m).ans)
<1> DEFINE x == Executed(v, m)
<1>1. \A why : Failed(m, why).t = why
  BY DEF Failed
<1>2. CASE m.op \notin Mutations
  <2>1. x.server = v /\ x.ans = QueryAnswer(v, m)
    BY <1>2 DEF Executed
  <2> HIDE DEF x
  <2> DEFINE a == QueryAnswer(v, m)
  <2>2. CASE m.op \in {"Load", "Window", "Context"} /\ m.s \notin v.live
    <3>1. a.t = "QueryFailed"
      BY <1>1, <2>2 DEF QueryAnswer
    <3> QED
      BY <2>1, <3>1 DEF AnswerFits, x
  <2>3. CASE m.op = "Load" /\ m.s \in v.live
    <3>1. a.w = WindowOf(v, LatestOf(m.s))
      BY <2>3 DEF QueryAnswer
    <3>2. m.s \in Sessions
      BY <2>3 DEF LogsFit
    <3>3. PageFits(v, WindowOf(v, LatestOf(m.s)))
      BY <3>2, LatestFits, WindowIsPage
    <3> QED
      BY <2>1, <3>1, <3>3 DEF AnswerFits, x
  <2>4. CASE m.op = "Window" /\ m.s \in v.live
    <3>1. a.w = WindowOf(v, m)
      BY <2>4 DEF QueryAnswer
    <3>2. m.s \in Sessions
      BY <2>4 DEF LogsFit
    <3> QED
      BY <2>1, <2>4, <3>1, <3>2, WindowIsPage DEF AnswerFits, x
  <2>5. CASE m.op \notin {"Load", "Window"} /\ ~(m.op = "Context" /\ m.s \notin v.live)
    <3>1. a.t = m.op
      BY <2>5 DEF QueryAnswer
    <3>2. a.t \notin {"Loaded", "Window"}
      BY <2>5, <3>1 DEF AskFits
    <3> QED
      BY <2>1, <3>2 DEF AnswerFits, x
  <2> QED
    BY <2>2, <2>3, <2>4, <2>5
<1>3. CASE m.op \in Mutations
  <2>1. \A w, y : AnswerTo(w, m, y).t = m.op
    BY DEF AnswerTo, CatalogAnswer, AcceptanceAnswer, CancellationAnswer, Answer
  <2>2. ReceiptAnswer(v, m).t \in {m.op, "MutationFailed"}
    BY <1>1, <2>1 DEF ReceiptAnswer
  <2>3. x.ans.t \in {m.op, "MutationFailed"}
    BY <1>1, <1>3, <2>1, <2>2 DEF Executed
  <2>4. m.op \notin {"Loaded", "Window"}
    BY <1>3 DEF Mutations
  <2> HIDE DEF x
  <2> QED
    BY <2>3, <2>4 DEF AnswerFits, x
<1> QED
  BY <1>2, <1>3

--------------------------------------------------------------------------------
(* The steps. *)

LEMMA WindowKey ==
  ASSUME WindowInv, NEW k, Press(k), Still(server, c, k)
  PROVE  WindowInv'
<1>1. /\ c.exit = "None" /\ c' = k
      /\ server' = server /\ evQ' = evQ /\ subQ' = subQ
  BY DEF Press
<1>2. ClientFits(server, k, subQ)
  BY <1>1, FitsStill DEF WindowInv
<1> QED
  BY <1>1, <1>2 DEF WindowInv

LEMMA FieldStill ==
  ASSUME NEW v, NEW k, NEW x
  PROVE  /\ Still(v, k, [k EXCEPT !.follows = x]) /\ Still(v, k, [k EXCEPT !.loading = x])
         /\ Still(v, k, [k EXCEPT !.refresh = x]) /\ Still(v, k, [k EXCEPT !.unknown = x])
         /\ Still(v, k, [k EXCEPT !.shuffled = x]) /\ Still(v, k, [k EXCEPT !.relisted = x])
         /\ Still(v, k, [k EXCEPT !.cat = x])
         /\ Still(v, k, [k EXCEPT !.cmd = NoCommand, !.pending = FALSE, !.unknown = FALSE])
BY AlikeFields DEF Still, Sound, SameTask, ClientFields, NoCommand

LEMMA NavigateStill ==
  ASSUME WindowInv, InSession, NEW target
  PROVE  Still(server, c, Navigate(target))
<1> DEFINE j == [c EXCEPT !.loading = TRUE]
           m == [op |-> "Window", id |-> 0, s |-> c.view.s, x |-> target,
                 shown |-> c.view.ents, snap |-> c.view.snap]
           l == server.log[c.view.s]
<1>1. Navigate(target) \in {j, Send(j, m)}
  BY DEF Navigate
<1>2. Still(server, c, j)
  BY FieldStill
<1>3. c.view.s \in Sessions /\ WindowFits(l, c.view) /\ IsQueue(l)
  BY DEF WindowInv, ClientFits, ViewFits, InSession, LogsFit
<1>4. /\ EntriesIn(l) \subseteq 1 .. Len(l) /\ Len(l) \in Nat
      /\ c.view.ents \subseteq EntriesIn(l) /\ c.view.snap \in 0 .. Len(l)
  BY <1>3, EntriesFacts DEF WindowFits
<1>5. AskFits(server, m)
  <2>1. /\ m.op = "Window" /\ m.s = c.view.s /\ m.shown = c.view.ents /\ m.snap = c.view.snap
    OBVIOUS
  <2> HIDE DEF m
  <2>2. m.shown \subseteq Int
    BY <1>4, <2>1
  <2>3. Snapshot(server, m) \in 0 .. Len(server.log[m.s])
    BY <1>4, <2>1 DEF Snapshot
  <2> QED
    BY <2>1, <2>2, <2>3 DEF AskFits
<1> HIDE DEF j, m
<1>6. Still(server, j, Send(j, m))
  BY <1>5, SendStill
<1> QED
  BY <1>1, <1>2, <1>6, StillTwice

LEMMA WindowUser ==
  ASSUME WindowInv, User
  PROVE  WindowInv'
<1> DEFINE Ops == {"Create", "Rename", "Archive", "Delete", "Submit", "Exec", "CancelRun",
                   "CancelCmd", "Set", "Stop", "Credential"}
<1>1. ASSUME NEW s \in Sessions, KeyOpen(s)
      PROVE  WindowInv'
  BY <1>1, LoadStill, WindowKey DEF KeyOpen
<1>2. ASSUME NEW op \in Ops, NEW s, NEW x,
             \/ Press(StartMutation(c, Fresh(op, s, x)))
             \/ Press(StartCredentialMutation(c, Fresh(op, s, x)))
      PROVE  WindowInv'
  <2>1. Fresh(op, s, x).op \notin {"Window", "Loaded"}
    BY DEF Fresh, Command
  <2> QED
    BY <1>2, <2>1, StartStill, WindowKey
<1>3. CASE \/ \E s \in Sessions : KeyRename(s) \/ KeyArchive(s) \/ KeyDelete(s)
           \/ KeyCreate \/ KeyCancel \/ KeyCredential
           \/ \E op \in {"Submit", "Exec"} : KeySubmit(op)
           \/ \E op \in {"Set", "Stop"} : KeySet(op)
  <2>1. \E op \in Ops : \E s, x : \/ Press(StartMutation(c, Fresh(op, s, x)))
                                  \/ Press(StartCredentialMutation(c, Fresh(op, s, x)))
    BY <1>3 DEF KeyRename, KeyArchive, KeyDelete, KeyCreate, KeyCancel, KeyCredential,
       KeySubmit, KeySet
  <2> QED
    BY <1>2, <2>1
<1>4. CASE KeyClose
  BY <1>4, ViewsStill, StillTwice, WindowKey DEF KeyClose
<1>5. CASE KeyRefresh
  <2>1. CASE c.refresh # 0
    BY <1>5, <2>1, StillSelf, WindowKey DEF KeyRefresh
  <2>2. CASE c.refresh = 0
    <3> DEFINE j == [c EXCEPT !.refresh = RefreshCount]
               k == EnqueueInitialQueries(j)
               l == IF c.requested = NoSession THEN k ELSE Send(k, Query("Load", c.requested))
    <3>1. Press(l)
      BY <1>5, <2>2 DEF KeyRefresh
    <3>2. Still(server, c, j)
      BY FieldStill
    <3>3. Still(server, j, k)
      BY InitialQueriesStill
    <3>4. Still(server, k, l)
      <4> HIDE DEF k
      <4> QED
        BY StillSelf, QueriesStill
    <3> HIDE DEF j, k, l
    <3> QED
      BY <3>1, <3>2, <3>3, <3>4, StillTwice, WindowKey
  <2> QED
    BY <2>1, <2>2
<1>6. CASE KeyContext
  BY <1>6, QueriesStill, WindowKey DEF KeyContext
<1>7. CASE \/ \E d \in {"Older", "Oldest"} : KeyUp(d)
           \/ \E d \in {"Newer", "Latest"} : KeyDown(d)
  <2>1. PICK k : /\ InSession /\ Press(k)
                 /\ k \in {[c EXCEPT !.follows = FALSE], [c EXCEPT !.follows = TRUE]}
                    \/ \E d : k = Navigate(d)
    BY <1>7 DEF KeyUp, KeyDown
  <2>2. Still(server, c, [c EXCEPT !.follows = FALSE])
    BY FieldStill
  <2>3. Still(server, c, [c EXCEPT !.follows = TRUE])
    BY FieldStill
  <2>4. \A d : Still(server, c, Navigate(d))
    BY <2>1, NavigateStill
  <2>5. Still(server, c, k)
    BY <2>1, <2>2, <2>3, <2>4
  <2> QED
    BY <2>1, <2>5, WindowKey
<1>8. CASE KeyRetry
  <2> DEFINE k == [c EXCEPT !.unknown = FALSE]
  <2>1. Press(Fail(c, "Queue")) \/ Press(Send(k, c.cmd))
    <3>1. DOMAIN c = ClientFields
      BY DEF WindowInv, ClientFits, Sound
    <3>2. Retried(c) = Send(k, c.cmd)
      BY DEF Retried
    <3> QED
      BY <1>8, <3>2 DEF KeyRetry
  <2>2. AskFits(server, c.cmd)
    BY DEF WindowInv, ClientFits, Sound, AskFits
  <2>3. Still(server, c, k)
    BY FieldStill
  <2> HIDE DEF k
  <2>4. Still(server, c, Send(k, c.cmd))
    BY <2>2, <2>3, SendStill, StillTwice
  <2> QED
    BY <2>1, <2>4, FailStill, WindowKey
<1>9. CASE KeyAbandon
  BY <1>9, FieldStill, WindowKey DEF KeyAbandon
<1> QED
  BY <1>1, <1>3, <1>4, <1>5, <1>6, <1>7, <1>8, <1>9 DEF User

LEMMA NotedStill == \A v, a : Still(v, c, Noted(a))
BY FieldStill, StillSelf DEF Noted

LEMMA NotedExit == \A a : Noted(a).exit = c.exit
BY DEF Noted

LEMMA TakenTail ==
  ASSUME NEW v, NEW q, AnswersFit(v, q), q # <<>>
  PROVE  AnswerFits(v, Head(q)) /\ AnswersFit(v, Tail(q))
<1>1. IsQueue(q) /\ \A i \in DOMAIN q : AnswerFits(v, q[i])
  BY DEF AnswersFit
<1>2. /\ IsQueue(Tail(q)) /\ 1 \in DOMAIN q /\ Head(q) = q[1]
      /\ \A i \in DOMAIN Tail(q) : i + 1 \in DOMAIN q /\ Tail(q)[i] = q[i + 1]
  BY <1>1, QueueShifted
<1> QED
  BY <1>1, <1>2 DEF AnswersFit

LEMMA WindowLoop ==
  ASSUME WindowInv, Loop
  PROVE  WindowInv'
<1>1. CASE TakeRequestEvent
  <2> DEFINE a == Head(evQ)
             k == Noted(a)
  <2>1. /\ c.exit = "None" /\ evQ # <<>> /\ evQ' = Tail(evQ) /\ server' = server /\ subQ' = subQ
        /\ c' = IF a.id = 0 THEN HandleQueryAnswer(k, a) ELSE HandleMutationAnswer(k, a)
    BY <1>1 DEF TakeRequestEvent
  <2>2. AnswerFits(server, a) /\ AnswersFit(server, Tail(evQ))
    BY <2>1, TakenTail DEF WindowInv
  <2>3. ClientFits(server, k, subQ)
    BY <2>1, NotedStill, FitsStill DEF WindowInv
  <2>4. k.exit = "None"
    BY <2>1, NotedExit
  <2> HIDE DEF k, a
  <2>5. ClientFits(server, c', subQ)
    BY <2>1, <2>2, <2>3, <2>4, AnswerTaken DEF WindowInv
  <2> QED
    BY <2>1, <2>2, <2>5 DEF WindowInv
<1>2. CASE TakeSubscriptionEvent
  <2>1. /\ c.exit = "None" /\ subQ # <<>> /\ subQ' = Tail(subQ) /\ server' = server /\ evQ' = evQ
        /\ c' = HandleSubscriptionEvent(c, Head(subQ))
    BY <1>2 DEF TakeSubscriptionEvent
  <2>2. ClientFits(server, HandleSubscriptionEvent(c, Head(subQ)), Tail(subQ))
    BY <2>1, EventTaken DEF WindowInv
  <2> QED
    BY <2>1, <2>2 DEF WindowInv
<1> QED
  BY <1>1, <1>2 DEF Loop

LEMMA AnsweredQueue ==
  ASSUME NEW v, NEW q, AnswersFit(v, q), NEW a, AnswerFits(v, a)
  PROVE  AnswersFit(v, Append(q, a))
<1>1. IsQueue(q) /\ \A i \in DOMAIN q : AnswerFits(v, q[i])
  BY DEF AnswersFit
<1>2. /\ IsQueue(Append(q, a))
      /\ \A i \in DOMAIN Append(q, a) : (i \in DOMAIN q /\ Append(q, a)[i] = q[i])
                                        \/ Append(q, a)[i] = a
  BY <1>1, QueueAppended
<1> QED
  BY <1>1, <1>2 DEF AnswersFit

\* The worker answers from the logs, or fails, and may be done with the request.
LEMMA WorkerFits ==
  ASSUME WindowInv, WorkerServes, Grows(server, server'), subQ' = subQ,
         c' = c \/ c' = [c EXCEPT !.q = Tail(@)],
         evQ' = evQ \/ \E a : AnswerFits(server', a) /\ evQ' = Append(evQ, a)
  PROVE  WindowInv'
<1>1. c.exit = "None" /\ c.q # <<>>
  BY DEF WorkerServes
<1>2. Still(server, c, c')
  <2>1. CASE c' = c
    BY <2>1, StillSelf
  <2>2. CASE c' = [c EXCEPT !.q = Tail(@)]
    <3> DEFINE j == [c EXCEPT !.q = Tail(@)]
    <3> SUFFICES ASSUME Sound(server, c)
                 PROVE  Sound(server, j) /\ Alike(c.view, j.view) /\ SameTask(c, j)
      BY <2>2 DEF Still
    <3>1. /\ DOMAIN j = ClientFields /\ j.q = Tail(c.q) /\ j.gen = c.gen /\ j.cmd = c.cmd
          /\ j.view = c.view /\ j.sub = c.sub
      BY DEF Sound, ClientFields
    <3>2. AsksFit(server, Tail(c.q))
      <4>1. IsQueue(c.q) /\ \A i \in DOMAIN c.q : AskFits(server, c.q[i])
        BY DEF Sound, AsksFit
      <4>2. /\ IsQueue(Tail(c.q))
            /\ \A i \in DOMAIN Tail(c.q) : i + 1 \in DOMAIN c.q /\ Tail(c.q)[i] = c.q[i + 1]
        BY <1>1, <4>1, QueueShifted
      <4> QED
        BY <4>1, <4>2 DEF AsksFit
    <3> HIDE DEF j
    <3> QED
      BY <3>1, <3>2, AlikeFields DEF Sound, SameTask
  <2> QED
    BY <2>1, <2>2
<1>3. ClientFits(server, c', subQ)
  BY <1>1, <1>2, FitsStill DEF WindowInv
<1>4. LogsFit(server') /\ ClientFits(server', c', subQ') /\ AnswersFit(server', evQ)
  BY <1>3, GrownFits DEF WindowInv, AnswersFit
<1>5. AnswersFit(server', evQ')
  BY <1>4, AnsweredQueue
<1> QED
  BY <1>4, <1>5 DEF WindowInv

LEMMA WindowWorker ==
  ASSUME WindowInv, Worker
  PROVE  WindowInv'
<1> DEFINE m == Head(c.q)
           x == Executed(server, m)
<1>1. WorkerServes
  BY DEF Worker, WorkerAnswers, WorkerLoses, WorkerUnusable, WorkerMismatch
<1>2. AskFits(server, m)
  <2>1. c.q # <<>> /\ IsQueue(c.q) /\ \A i \in DOMAIN c.q : AskFits(server, c.q[i])
    BY <1>1 DEF WorkerServes, WindowInv, ClientFits, Sound, AsksFit
  <2>2. 1 \in DOMAIN c.q /\ m = c.q[1]
    BY <2>1, QueueShifted
  <2> QED
    BY <2>1, <2>2
<1> HIDE DEF m
<1>3. Grows(server, x.server) /\ Grows(server, server) /\ AnswerFits(x.server, x.ans)
  BY <1>2, ExecutedGrows, GrowsSelf, AnswersArePages DEF WindowInv
<1> HIDE DEF x
<1>4. \A v, n, why : why \notin {"Loaded", "Window"} => AnswerFits(v, Failed(n, why))
  BY DEF AnswerFits, Failed
<1>5. \A v : AnswerFits(v, FailureEvent(m))
  BY <1>4 DEF FailureEvent
<1>6. CASE WorkerAnswers
  <2>1. /\ server' = x.server /\ subQ' = subQ /\ c' = [c EXCEPT !.q = Tail(@)]
        /\ evQ' \in {Append(evQ, Failed(m, "CredentialFailed")), Append(evQ, x.ans)}
    BY <1>6 DEF WorkerAnswers, Served, m, x
  <2>2. AnswerFits(server', Failed(m, "CredentialFailed"))
    BY <1>4
  <2> QED
    BY <1>1, <1>3, <2>1, <2>2, WorkerFits
<1>7. CASE WorkerLoses
  <2>1. /\ server' \in {x.server, server} /\ subQ' = subQ
        /\ c' = c \/ c' = [c EXCEPT !.q = Tail(@)]
        /\ evQ' \in {evQ, Append(evQ, FailureEvent(m))}
    BY <1>7 DEF WorkerLoses, AttemptFails, Served, m, x
  <2> QED
    BY <1>1, <1>3, <1>5, <2>1, WorkerFits
<1>8. CASE WorkerUnusable
  <2>1. /\ server' = server /\ subQ' = subQ
        /\ c' = c \/ c' = [c EXCEPT !.q = Tail(@)]
        /\ evQ' \in {evQ, Append(evQ, FailureEvent(m))}
    BY <1>8 DEF WorkerUnusable, AttemptFails, Served, m
  <2> QED
    BY <1>1, <1>3, <1>5, <2>1, WorkerFits
<1>9. CASE WorkerMismatch
  <2>1. /\ server' = x.server /\ subQ' = subQ /\ c' = [c EXCEPT !.q = Tail(@)]
        /\ evQ' = Append(evQ, FailureEvent(m))
    BY <1>9 DEF WorkerMismatch, Served, m, x
  <2> QED
    BY <1>1, <1>3, <1>5, <2>1, WorkerFits
<1> QED
  BY <1>6, <1>7, <1>8, <1>9 DEF Worker

\* An event of no session, or of the task's session, joins the channel.
LEMMA NotifiedAside ==
  ASSUME NEW v, NEW k, NEW q, ClientFits(v, k, q), NEW e, e.t # "Session"
  PROVE  ClientFits(v, k, Append(q, e))
<1> DEFINE p == Append(q, e)
<1>1. IsQueue(q)
  BY DEF ClientFits, ChannelFits
<1>2. /\ IsQueue(p) /\ \A i \in DOMAIN q : i \in DOMAIN p /\ p[i] = q[i]
      /\ \A i \in DOMAIN p : (i \in DOMAIN q /\ p[i] = q[i]) \/ p[i] = e
  BY <1>1, QueueAppended
<1> HIDE DEF p
<1>3. \A n : Current(k, p, n) <=> Current(k, q, n)
  BY <1>2 DEF Current
<1>4. ChannelFits(k, q) => ChannelFits(k, p)
  BY <1>2 DEF ChannelFits
<1>5. StreamFits(v, k, q) => StreamFits(v, k, p)
  <2> SUFFICES ASSUME StreamFits(v, k, q)
               PROVE  StreamFits(v, k, p)
    OBVIOUS
  <2>1. \A n : Current(k, p, n) => n \in DOMAIN q /\ n \in DOMAIN p /\ p[n] = q[n]
    BY <1>2, <1>3 DEF Current
  <2>2. \A n \in DOMAIN q : n \in DOMAIN p /\ p[n] = q[n]
    BY <1>2
  <2> QED
    BY <1>3, <2>1, <2>2 DEF StreamFits
<1> QED
  BY <1>4, <1>5 DEF ClientFits, p

LEMMA NotifiedEvent ==
  ASSUME NEW v, LogsFit(v), NEW k, NEW q, ClientFits(v, k, q), k.exit = "None", k.sub # NoTask,
         k.sub.s \in v.live, k.sub.cur < Len(v.log[k.sub.s])
  PROVE  ClientFits(v, [k EXCEPT !.sub = Advanced(k.sub, EventAfter(k.sub))],
                    Append(q, EventAfter(k.sub)))
<1> DEFINE e == EventAfter(k.sub)
           task == Advanced(k.sub, e)
           j == [k EXCEPT !.sub = task]
           p == Append(q, e)
<1>1. /\ Sound(v, k) /\ ViewFits(v, k.view) /\ ChannelFits(k, q)
      /\ k.view # NoView => StreamFits(v, k, q)
  BY DEF ClientFits
<1>2. /\ DOMAIN k = ClientFields /\ k.gen \in Nat /\ IsQueue(q) /\ DOMAIN k.sub = TaskFields
      /\ k.sub.gen = k.gen
  BY <1>1 DEF Sound, ChannelFits
<1>3. /\ e.t = "Session" /\ e.gen = k.gen /\ e.s = k.sub.s /\ e.at = k.sub.cur + 1
  BY <1>2 DEF EventAfter
<1> HIDE DEF e
<1>4. /\ DOMAIN j = ClientFields /\ j.sub = task /\ j.gen = k.gen /\ j.q = k.q /\ j.cmd = k.cmd
      /\ j.view = k.view /\ j.exit = k.exit
  BY <1>2 DEF ClientFields
<1>5. /\ DOMAIN task = TaskFields /\ (task # NoTask => task.gen = k.gen)
  BY <1>2 DEF Advanced, NoTask, TaskFields
<1>6. /\ IsQueue(p) /\ DOMAIN p = 1 .. (Len(q) + 1) /\ p[Len(q) + 1] = e
      /\ \A i \in DOMAIN q : i \in DOMAIN p /\ p[i] = q[i]
      /\ \A i \in DOMAIN p : (i \in DOMAIN q /\ p[i] = q[i]) \/ p[i] = e
  BY <1>2, QueueAppended
<1>7. Len(q) \in Nat /\ DOMAIN q = 1 .. Len(q)
  BY <1>2, QueueFacts
<1> HIDE DEF j, p
<1>8. Sound(v, j)
  BY <1>1, <1>4 DEF Sound
<1>9. ChannelFits(j, p)
  <2>1. k.sub.s \in Sessions
    BY DEF LogsFit
  <2>2. k.gen \in 0 .. k.gen
    BY <1>2
  <2>3. \A n \in DOMAIN p : p[n].t = "Session" => p[n].gen \in 0 .. k.gen /\ p[n].s \in Sessions
    BY <1>1, <1>3, <1>6, <2>1, <2>2 DEF ChannelFits
  <2> HIDE DEF task
  <2> QED
    BY <1>4, <1>5, <1>6, <2>3 DEF ChannelFits
<1>10. ASSUME k.view # NoView
       PROVE  StreamFits(v, j, p)
  <2> DEFINE l == v.log[k.view.s]
             n0 == Len(q) + 1
  <2>1. StreamFits(v, k, q)
    BY <1>1, <1>10
  <2>2. /\ k.sub.s = k.view.s /\ k.sub.cur \in k.view.cur .. Len(l)
        /\ \A n \in DOMAIN q : Current(k, q, n) => q[n].at <= k.sub.cur
        /\ k.sub.cur = k.view.cur \/ \E n \in DOMAIN q : Current(k, q, n) /\ q[n].at = k.sub.cur
    BY <2>1 DEF StreamFits
  <2>3. \A n \in DOMAIN q : Current(k, q, n) =>
          /\ q[n].s = k.view.s /\ q[n].at \in k.view.cur + 1 .. Len(l)
          /\ q[n].at = k.view.cur + 1 \/ \E m \in DOMAIN q :
                                           m < n /\ Current(k, q, m) /\ q[m].at = q[n].at - 1
          /\ \A m \in DOMAIN q : Current(k, q, m) /\ m < n => q[m].at < q[n].at
    BY <2>1 DEF StreamFits
  <2>4. k.view.cur \in Int /\ Len(l) \in Int
    <3>1. k.view.s \in Sessions /\ WindowFits(l, k.view)
      BY <1>1, <1>10 DEF ViewFits
    <3>2. Len(l) \in Nat
      BY <3>1, QueueFacts DEF LogsFit
    <3> QED
      BY <3>1, <3>2 DEF WindowFits
  <2>5. k.sub.cur \in Int /\ k.sub.cur < Len(l) /\ e.at \in k.view.cur + 1 .. Len(l)
    BY <1>3, <2>2, <2>4
  <2>6. task = [k.sub EXCEPT !.cur = e.at]
    BY <1>3, <2>5 DEF Advanced
  <2>7. task.s = k.sub.s /\ task.cur = e.at
    BY <1>2, <2>6 DEF TaskFields
  <2> HIDE DEF task, l
  <2>8. n0 \in DOMAIN p /\ Current(j, p, n0) /\ n0 \notin DOMAIN q /\ \A n \in DOMAIN q : n < n0
    BY <1>3, <1>4, <1>6, <1>7 DEF Current
  <2>9. \A n \in DOMAIN p : n \in DOMAIN q \/ n = n0
    BY <1>6, <1>7
  <2>10. \A n \in DOMAIN q : Current(j, p, n) <=> Current(k, q, n)
    BY <1>4, <1>6 DEF Current
  <2> HIDE DEF n0
  <2>11. ASSUME NEW n \in DOMAIN p, Current(j, p, n)
         PROVE  /\ p[n].s = k.view.s /\ p[n].at \in k.view.cur + 1 .. Len(l)
                /\ p[n].at = k.view.cur + 1 \/ \E m \in DOMAIN p :
                                                 m < n /\ Current(j, p, m) /\ p[m].at = p[n].at - 1
                /\ \A m \in DOMAIN p : Current(j, p, m) /\ m < n => p[m].at < p[n].at
    <3>1. CASE n \in DOMAIN q
      <4>1. Current(k, q, n) /\ p[n] = q[n]
        BY <1>6, <2>10, <2>11, <3>1
      <4>2. \A m \in DOMAIN p : m < n => m \in DOMAIN q
        BY <1>6, <1>7, <2>8, <2>9, <3>1
      <4> QED
        BY <1>6, <2>3, <2>10, <3>1, <4>1, <4>2
    <3>2. CASE n = n0
      <4>1. p[n] = e
        BY <1>6, <3>2 DEF n0
      <4>2. \A m \in DOMAIN p : m < n => m \in DOMAIN q
        BY <1>6, <1>7, <2>9, <3>2 DEF n0
      <4>3. ASSUME NEW m \in DOMAIN p, Current(j, p, m), m < n
            PROVE  p[m].at < p[n].at
        <5>1. m \in DOMAIN q /\ Current(k, q, m) /\ p[m] = q[m]
          BY <1>6, <2>10, <4>2, <4>3
        <5>2. q[m].at \in Int /\ q[m].at <= k.sub.cur
          BY <2>2, <2>3, <5>1
        <5> QED
          BY <1>3, <2>5, <4>1, <5>1, <5>2
      <4>4. e.at = k.view.cur + 1 \/ \E m \in DOMAIN p :
                                       m < n /\ Current(j, p, m) /\ p[m].at = e.at - 1
        <5>1. CASE k.sub.cur = k.view.cur
          BY <1>3, <5>1
        <5>2. ASSUME NEW m \in DOMAIN q, Current(k, q, m), q[m].at = k.sub.cur
              PROVE  m < n /\ m \in DOMAIN p /\ Current(j, p, m) /\ p[m].at = e.at - 1
          BY <1>3, <1>6, <2>5, <2>8, <2>10, <3>2, <5>2
        <5> QED
          BY <2>2, <5>1, <5>2
      <4> QED
        BY <1>3, <2>2, <2>5, <4>1, <4>3, <4>4
    <3> QED
      BY <2>9, <3>1, <3>2
  <2>12. /\ task.s = k.view.s /\ task.cur \in k.view.cur .. Len(l)
         /\ \A n \in DOMAIN p : Current(j, p, n) => p[n].at <= task.cur
         /\ \E n \in DOMAIN p : Current(j, p, n) /\ p[n].at = task.cur
    <3>1. ASSUME NEW n \in DOMAIN p, Current(j, p, n)
          PROVE  p[n].at <= task.cur
      <4>1. CASE n \in DOMAIN q
        <5>1. Current(k, q, n) /\ p[n] = q[n]
          BY <1>6, <2>10, <3>1, <4>1
        <5>2. q[n].at \in Int /\ q[n].at <= k.sub.cur
          BY <2>2, <2>3, <4>1, <5>1
        <5> QED
          BY <1>3, <2>5, <2>7, <5>1, <5>2
      <4>2. CASE n = n0
        BY <1>6, <2>5, <2>7, <4>2 DEF n0
      <4> QED
        BY <2>9, <4>1, <4>2
    <3>2. p[n0].at = task.cur
      BY <1>6, <2>7 DEF n0
    <3>3. task.cur \in k.view.cur .. Len(l)
      BY <2>4, <2>5, <2>7
    <3> QED
      BY <2>2, <2>7, <2>8, <3>1, <3>2, <3>3
  <2> QED
    BY <1>4, <2>11, <2>12 DEF StreamFits, l
<1> HIDE DEF task
<1>11. ClientFits(v, j, p)
  BY <1>1, <1>4, <1>8, <1>9, <1>10 DEF ClientFits
<1> QED
  BY <1>11 DEF j, p, e, task

\* The task ends, or counts its failures, at the position it has reached.
LEMMA TaskChanged ==
  ASSUME NEW v, NEW k, NEW q, ClientFits(v, k, q), k.sub # NoTask, NEW x
  PROVE  /\ ClientFits(v, [k EXCEPT !.sub = NoTask], q)
         /\ ClientFits(v, [k EXCEPT !.sub = [@ EXCEPT !.fails = x]], q)
<1>1. /\ Sound(v, k) /\ ViewFits(v, k.view) /\ ChannelFits(k, q) /\ DOMAIN k = ClientFields
      /\ DOMAIN k.sub = TaskFields
      /\ k.exit = "None" /\ k.view # NoView => StreamFits(v, k, q)
  BY DEF ClientFits, Sound, ChannelFits
<1>2. ASSUME NEW task, DOMAIN task = TaskFields,
             task # NoTask => /\ k.sub # NoTask /\ task.gen = k.sub.gen
                              /\ task.s = k.sub.s /\ task.cur = k.sub.cur
      PROVE  ClientFits(v, [k EXCEPT !.sub = task], q)
  <2> DEFINE j == [k EXCEPT !.sub = task]
  <2>1. /\ DOMAIN j = ClientFields /\ j.sub = task /\ j.gen = k.gen /\ j.q = k.q /\ j.cmd = k.cmd
        /\ j.view = k.view /\ j.exit = k.exit
    BY <1>1 DEF ClientFields
  <2> HIDE DEF j
  <2>2. Sound(v, j)
    BY <1>1, <2>1 DEF Sound
  <2>3. ChannelFits(j, q)
    BY <1>1, <1>2, <2>1 DEF ChannelFits
  <2>4. StreamFits(v, k, q) => StreamFits(v, j, q)
    BY <1>2, <2>1 DEF StreamFits, Current
  <2>5. ClientFits(v, j, q)
    BY <1>1, <2>1, <2>2, <2>3, <2>4 DEF ClientFits
  <2> QED
    BY <2>5 DEF j
<1>3. DOMAIN NoTask = TaskFields
  BY DEF NoTask, TaskFields
<1>4. ClientFits(v, [k EXCEPT !.sub = NoTask], q)
  BY <1>2, <1>3
<1> DEFINE task == [k.sub EXCEPT !.fails = x]
<1>5. /\ DOMAIN task = TaskFields /\ task.gen = k.sub.gen /\ task.s = k.sub.s
      /\ task.cur = k.sub.cur
  BY <1>1 DEF TaskFields
<1>6. ClientFits(v, [k EXCEPT !.sub = task], q)
  <2> HIDE DEF task
  <2> QED
    BY <1>2, <1>5
<1>7. [k EXCEPT !.sub = [@ EXCEPT !.fails = x]] = [k EXCEPT !.sub = task]
  OBVIOUS
<1> QED
  BY <1>4, <1>6, <1>7

LEMMA WindowSubscriptions ==
  ASSUME WindowInv, Subscriptions
  PROVE  WindowInv'
<1>1. LogsFit(server) /\ AnswersFit(server, evQ) /\ ClientFits(server, c, subQ)
  BY DEF WindowInv
<1>2. SUFFICES server' = server /\ evQ' = evQ /\ ClientFits(server, c', subQ')
  BY <1>1 DEF WindowInv
<1>3. server' = server /\ evQ' = evQ /\ c.exit = "None"
  BY DEF Subscriptions, SubscriptionDelivers, SubscriptionDelta, SubscriptionLost,
     SubscriptionRestored, SubscriptionRefused, CatalogDelivers, CatalogRefused, StreamFrame,
     Following
<1>4. CASE SubscriptionDelivers
  <2>1. /\ c.sub # NoTask /\ c.sub.s \in server.live /\ c.sub.cur < Len(server.log[c.sub.s])
        /\ subQ' = Append(subQ, EventAfter(c.sub))
        /\ c' = [c EXCEPT !.sub = Advanced(c.sub, EventAfter(c.sub))]
    BY <1>4 DEF SubscriptionDelivers, Following, Notify
  <2>2. ClientFits(server, [c EXCEPT !.sub = Advanced(c.sub, EventAfter(c.sub))],
                   Append(subQ, EventAfter(c.sub)))
    BY <1>1, <1>3, <2>1, NotifiedEvent
  <2> QED
    BY <1>3, <2>1, <2>2
<1>5. CASE SubscriptionDelta
  <2>1. c' = c /\ \E r : subQ' = Append(subQ, [t |-> "Delta", gen |-> c.sub.gen, s |-> c.sub.s, r |-> r])
    BY <1>5 DEF SubscriptionDelta, Notify
  <2> QED
    BY <1>1, <1>3, <2>1, NotifiedAside
<1>6. CASE SubscriptionLost
  <2>1. /\ c.sub # NoTask
        /\ \/ subQ' = Append(subQ, [t |-> "SessionFailed"]) /\ c' = [c EXCEPT !.sub = NoTask]
           \/ /\ subQ' \in {subQ, Append(subQ, [t |-> "SessionLost", gen |-> c.sub.gen])}
              /\ c' = [c EXCEPT !.sub = [@ EXCEPT !.fails = c.sub.fails + 1]]
    BY <1>6 DEF SubscriptionLost, Notify, Following
  <2>2. /\ ClientFits(server, [c EXCEPT !.sub = NoTask], subQ)
        /\ ClientFits(server, [c EXCEPT !.sub = [@ EXCEPT !.fails = c.sub.fails + 1]], subQ)
    BY <1>1, <2>1, TaskChanged
  <2>3. ClientFits(server, c', subQ)
    BY <2>1, <2>2
  <2>4. subQ' = subQ \/ \E e : e.t # "Session" /\ subQ' = Append(subQ, e)
    BY <2>1
  <2> QED
    BY <1>3, <2>4, <2>3, NotifiedAside
<1>7. CASE SubscriptionRestored
  <2>1. c.sub # NoTask /\ subQ' = subQ /\ c' = [c EXCEPT !.sub = [@ EXCEPT !.fails = 0]]
    BY <1>7 DEF SubscriptionRestored, Following
  <2> QED
    BY <1>1, <1>3, <2>1, TaskChanged
<1>8. CASE SubscriptionRefused
  <2>1. /\ c.sub # NoTask
        /\ c' = [c EXCEPT !.sub = NoTask]
        /\ subQ' = Append(subQ, [t |-> "SessionSnapshotRequired", gen |-> c.sub.gen, s |-> c.sub.s])
    BY <1>8 DEF SubscriptionRefused, Notify, Following
  <2>2. ClientFits(server, c', subQ)
    BY <1>1, <2>1, TaskChanged
  <2> QED
    BY <1>3, <2>1, <2>2, NotifiedAside
<1>9. CASE CatalogDelivers \/ CatalogRefused
  <2>1. \E x, e : /\ c' = [c EXCEPT !.cat = x] /\ e.t # "Session"
                  /\ subQ' = Append(subQ, e)
    BY <1>9 DEF CatalogDelivers, CatalogRefused, Notify
  <2>2. PICK x : c' = [c EXCEPT !.cat = x]
    BY <2>1
  <2>3. PICK e : e.t # "Session" /\ subQ' = Append(subQ, e)
    BY <2>1
  <2>4. Still(server, c, c')
    BY <2>2, FieldStill
  <2>5. ClientFits(server, c', subQ)
    BY <1>1, <1>3, <2>4, FitsStill
  <2> QED
    BY <1>3, <2>3, <2>5, NotifiedAside
<1> QED
  BY <1>4, <1>5, <1>6, <1>7, <1>8, <1>9 DEF Subscriptions

LEMMA WindowServer ==
  ASSUME WindowInv, Server
  PROVE  WindowInv'
<1>1. c' = c /\ evQ' = evQ /\ subQ' = subQ
  BY DEF Server, RunStarts, RunEnds, CommandEnds, OtherDeletes, OtherSubmits, ServerStep
<1>2. Grows(server, server')
  <2>1. PICK s \in Sessions : \/ RunStarts(s) \/ RunEnds(s) \/ CommandEnds(s)
                              \/ OtherDeletes(s) \/ OtherSubmits(s)
    BY DEF Server
  <2>2. CASE RunStarts(s) \/ RunEnds(s) \/ CommandEnds(s)
    <3>1. \E a, b : server' \in {Logged(server, s, <<a>>), Logged(server, s, <<a, b>>)}
      BY <2>2 DEF RunStarts, RunEnds, CommandEnds, ServerStep
    <3> QED
      BY <3>1, LoggedGrows, ShortQueues
  <2>3. CASE OtherDeletes(s)
    <3> DEFINE y == [server EXCEPT !.live = @ \ {s}]
    <3>1. server' = Listed(y, "Removed", s)
      BY <2>3 DEF OtherDeletes, ServerStep
    <3>2. Grows(server, y)
      BY SameLogs DEF LogsFit
    <3> HIDE DEF y
    <3> QED
      BY <3>1, <3>2, ListedGrows, GrowsTwice
  <2>4. CASE OtherSubmits(s)
    BY <2>4, AppliedGrows DEF OtherSubmits, ServerStep
  <2> QED
    BY <2>1, <2>2, <2>3, <2>4
<1>3. LogsFit(server') /\ AnswersFit(server', evQ) /\ ClientFits(server', c, subQ)
  BY <1>2, GrownFits DEF WindowInv, AnswersFit
<1> QED
  BY <1>1, <1>3 DEF WindowInv

LEMMA WindowInit == ClientInit => WindowInv
<1> SUFFICES ASSUME ClientInit
             PROVE  WindowInv
  OBVIOUS
<1>1. Initial \subseteq Sessions /\ History \in Nat
  BY ClientAssumption
<1>2. IsQueue(<<>>) /\ DOMAIN <<>> = {}
  <2>1. <<>> \in Seq({})
    OBVIOUS
  <2> QED
    BY <2>1 DEF IsQueue
<1>3. LogsFit(server)
  <2> DEFINE h == [i \in 1 .. History |-> Ev("entry", 0, "history")]
  <2>1. h \in Seq({Ev("entry", 0, "history")})
    BY <1>1
  <2>2. IsQueue(h)
    <3> HIDE DEF h
    <3> QED
      BY <2>1 DEF IsQueue
  <2> HIDE DEF h
  <2>3. /\ {"log", "live", "unborn"} \subseteq DOMAIN server
        /\ server.log = [s \in Sessions |-> IF s \in Initial THEN h ELSE <<>>]
        /\ server.live = Initial /\ server.unborn = Sessions \ Initial
    BY DEF ClientInit, h
  <2> QED
    BY <1>1, <1>2, <2>2, <2>3 DEF LogsFit
<1>4. AnswersFit(server, evQ)
  BY <1>2 DEF ClientInit, AnswersFit
<1>5. /\ DOMAIN c = ClientFields /\ c.view = NoView /\ c.gen = 0 /\ c.cmd = NoCommand
      /\ c.sub = NoTask
      /\ c.q = [i \in 1 .. Len(InitialQueries) |-> Query(InitialQueries[i], NoSession)]
  BY DEF ClientInit, ClientFields
<1>6. AsksFit(server, c.q)
  <2> DEFINE T == {Query(InitialQueries[i], NoSession) : i \in 1 .. Len(InitialQueries)}
  <2>1. /\ Len(InitialQueries) \in Nat
        /\ \A i \in 1 .. Len(InitialQueries) :
             InitialQueries[i] \in {"Sessions", "Status", "Default", "Settings", "Models"}
    BY ClientAssumption
  <2>2. c.q \in [1 .. Len(InitialQueries) -> T]
    BY <1>5
  <2>3. c.q \in Seq(T)
    <3> HIDE DEF T
    <3> QED
      BY <2>1, <2>2
  <2>4. \A i \in DOMAIN c.q : AskFits(server, c.q[i])
    BY <1>5, <2>1, QueriesFit
  <2> QED
    BY <2>3, <2>4 DEF AsksFit, IsQueue
<1>7. Sound(server, c)
  BY <1>5, <1>6 DEF Sound, NoCommand
<1>8. ChannelFits(c, subQ)
  BY <1>2, <1>5 DEF ChannelFits, ClientInit, NoTask, TaskFields
<1> QED
  BY <1>3, <1>4, <1>5, <1>7, <1>8 DEF WindowInv, ClientFits, ViewFits

LEMMA WindowStep == WindowInv /\ [ClientNext]_clientVars => WindowInv'
<1> SUFFICES ASSUME WindowInv, [ClientNext]_clientVars
             PROVE  WindowInv'
  OBVIOUS
<1>1. CASE UNCHANGED clientVars
  BY <1>1 DEF clientVars, WindowInv
<1>2. CASE ClientNext
  BY <1>2, WindowUser, WindowLoop, WindowWorker, WindowSubscriptions, WindowServer DEF ClientNext
<1> QED
  BY <1>1, <1>2

\* A window that follows its snapshot hides no hole.
LEMMA WindowShows == WindowInv => ShownHasNoGap
<1> SUFFICES ASSUME WindowInv, c.view # NoView, c.view.snap <= c.view.since,
                    NEW i \in EntriesIn(server.log[c.view.s]) \ c.view.ents,
                    i <= c.view.snap \/ i > c.view.since, NEW a \in c.view.ents, a < i
             PROVE  (\A b \in c.view.ents : b < i) /\ (Historical(c.view) \/ i > c.view.cur)
  BY DEF ShownHasNoGap
<1> DEFINE l == server.log[c.view.s]
           u == c.view
<1>1. WindowFits(l, u) /\ IsQueue(l)
  BY DEF WindowInv, ClientFits, ViewFits, LogsFit
<1>2. EntriesIn(l) \subseteq 1 .. Len(l) /\ Len(l) \in Nat
  BY <1>1, EntriesFacts
<1>3. /\ u.ents \subseteq EntriesIn(l) /\ u.cur \in 0 .. Len(l) /\ u.since \in 0 .. u.cur
      /\ \A b \in u.ents : b <= u.cur
      /\ Missed(l, u.ents, i) /\ i <= u.snap => Historical(u) /\ AllBefore(u.ents, i)
      /\ u.since < i /\ i <= u.cur => Historical(u) /\ AllBefore(u.ents, i)
  BY <1>1 DEF WindowFits
<1>4. Missed(l, u.ents, i)
  BY DEF Missed
<1>5. i \in Int /\ u.cur \in Int /\ u.since \in Int /\ \A b \in u.ents : b \in Int
  BY <1>2, <1>3
<1>6. CASE i <= u.snap \/ i <= u.cur
  <2>1. u.since < i \/ i <= u.snap
    BY <1>5
  <2> QED
    BY <1>3, <1>4, <1>6, <2>1 DEF AllBefore
<1>7. CASE ~(i <= u.snap) /\ ~(i <= u.cur)
  BY <1>3, <1>5, <1>7
<1> QED
  BY <1>6, <1>7

\* What a client shows of a transcript has no hole: a page has none, every event of the
\* stream is the next one after the position of the view, and an entry that is not
\* appended, because the window is full or behind, marks the window historical.
THEOREM WindowTheorem == ClientSpec => []ShownHasNoGap
<1>1. ClientSpec => []WindowInv
  BY WindowInit, WindowStep, PTL DEF ClientSpec
<1> QED
  BY <1>1, WindowShows, PTL

--------------------------------------------------------------------------------
(* The control directory. *)


ServerStages ==
  {"idle", "check", "directory", "lockfile", "openlock", "trylock", "key", "writekey", "clean",
   "bind", "open", "publish", "serving", "draining", "unregister", "unlink", "gone"}

ServerType ==
  [at : ServerStages, existed : BOOLEAN, seen : BOOLEAN, outdated : BOOLEAN]

ClientStages ==
  {"discover", "lock1", "empty", "lock2", "probe", "unprobe", "reg1", "key1", "reg2", "key2",
   "reg3", "reg4", "probe2", "unprobe2", "read", "Absent", "Incomplete", "Starting",
   "Registered", "connect", "authenticate", "ended"}

ClientType ==
  [at : ClientStages, held : BOOLEAN, launched : BOOLEAN, exited : BOOLEAN, debug : BOOLEAN,
   starting : BOOLEAN, grace : BOOLEAN, incomplete : BOOLEAN,
   reg : Servers \cup {None},
   out : {"none", "Control", "CompanionExited", "StartupTimedOut", "RemainedIncomplete", "Debug",
          "Connected", "Handshake", "Authentication", "AuthenticationTimedOut"}]

ConnectionStages ==
  {"none", "pending", "challenged", "proved", "proven", "greeted", "mismatched", "accepted",
   "closed"}

ConnectionType == [s : Servers \cup {None}, at : ConnectionStages]

ConnectionTypeOK ==
  /\ dir \in BOOLEAN /\ lock \in BOOLEAN
  /\ key \in {"none", "partial", "whole"}
  /\ reg \in Servers \cup {None}
  /\ socks \subseteq Servers
  /\ holder \in Clients \cup Servers \cup {None}
  /\ srv \in [Servers -> ServerType]
  /\ cl \in [Clients -> ClientType]
  /\ conn \in [Clients -> ConnectionType]
  /\ faults \in Nat
  /\ past \in [lost : BOOLEAN, raced : SUBSET Clients]

--------------------------------------------------------------------------------
(* The inductive invariant. *)

\* The stages of a server, from the one it is left with to its end: with the key
\* whole, with the host lock, with the lock file, with the directory.
Keyed == {"clean", "bind", "open", "publish", "serving", "draining", "unregister", "unlink"}

Holding == Keyed \cup {"key", "writekey"}

Locking == Holding \cup {"trylock"}

Inside == Locking \cup {"lockfile", "openlock"}

\* What a server has made, it finds as long as it lives.
ServerKeeps(s) ==
  /\ srv[s].at \in Inside => dir
  /\ srv[s].at \in Locking => lock
  /\ srv[s].at \in Holding => holder = s
  /\ srv[s].at = "writekey" => key = "partial"
  /\ srv[s].at \in Keyed => key = "whole"
  /\ srv[s].at \in {"open", "publish", "serving"} => s \in socks
  /\ srv[s].at = "serving" => reg = s

\* The lock file is the first and the registration the last, and a key is
\* partial while it is written or when a server ended over it.
FilesInOrder ==
  /\ key # "none" \/ reg # None => lock
  /\ reg # None => key = "whole"
  /\ key = "partial" => past.lost \/ \E s \in Servers : srv[s].at = "writekey"

Cause(x) == past.lost \/ x \in past.raced

\* What a client has seen stays true, or there is a cause.  A key that is
\* partial is being written by the holder of the lock, who has not published.
ClientSaw(x) ==
  /\ cl[x].at # "ended" /\ ~cl[x].launched => srv[Companion[x]].at = "idle"
  /\ cl[x].at \in {"unprobe", "unprobe2"} => holder = x
  /\ cl[x].at = "lock2" => lock
  /\ cl[x].at = "reg2" => reg = None \/ Cause(x)
  /\ cl[x].at = "key2" => key # "none" \/ past.lost
  /\ cl[x].at \in {"reg4", "probe2"} => Cause(x) \/ (reg = None /\ holder \in Servers)
  /\ cl[x].at = "unprobe2" => Cause(x)

ConnectionInv ==
  /\ ConnectionTypeOK
  /\ FilesInOrder
  /\ \A s \in Servers : ServerKeeps(s)
  /\ \A x \in Clients : ClientSaw(x)

--------------------------------------------------------------------------------
(* The steps of a server. *)

\* A server leaves the other processes as they are.  It changes the key, the
\* registration and the endpoints of others while it holds the lock, and tells
\* the clients that seek when it publishes or gives the lock back.
Moved(s) ==
  /\ srv[s].at # "idle" \/ \A x \in Clients : Companion[x] # s
  /\ \A t \in Servers \ {s} : srv'[t] = srv[t]
  /\ cl' = cl
  /\ dir => dir'
  /\ lock => lock'
  /\ past.lost => past'.lost
  /\ past'.raced \in {past.raced, Seeking}
  /\ key' = key \/ (holder = s /\ (key' = "none" => past'.lost))
  /\ reg' = reg \/ (holder = s /\ (reg' = None \/ past'.raced = Seeking))
  /\ socks \ {s} \subseteq socks' \/ holder = s
  /\ \/ holder' = holder
     \/ holder = None /\ holder' = s
     \/ holder = s /\ holder' = None /\ past'.raced = Seeking

LEMMA OthersKeep ==
  ASSUME ConnectionInv, NEW s \in Servers, NEW t \in Servers \ {s}, Moved(s)
  PROVE  ServerKeeps(t)'
<1>1. ServerKeeps(t) /\ srv'[t] = srv[t] /\ (srv[t].at \in Holding => holder # s)
  BY DEF ConnectionInv, Moved, ServerKeeps
<1>2. /\ srv'[t].at \in Inside => dir'
      /\ srv'[t].at \in Locking => lock'
      /\ srv'[t].at \in Holding => holder' = t
  BY <1>1, ConnectionAssumption DEF Moved, ServerKeeps
<1>3. srv[t].at \in Holding => key' = key /\ reg' = reg /\ socks \ {s} \subseteq socks'
  BY <1>1 DEF Moved
<1> QED
  BY <1>1, <1>2, <1>3 DEF ServerKeeps, Holding, Keyed

\* Whatever a client has seen stays true until a server publishes or ends.
LEMMA ClientsStillSee ==
  ASSUME ConnectionInv, NEW s \in Servers, NEW x \in Clients, Moved(s)
  PROVE  ClientSaw(x)'
<1>1. ClientSaw(x) /\ cl'[x] = cl[x]
  BY DEF ConnectionInv, Moved
<1>2. Companion[x] \in Servers
  BY ConnectionAssumption
<1>3. cl[x].at \in {"reg2", "reg4", "probe2", "unprobe2"} => x \in Seeking
  BY DEF Seeking
<1>4. cl[x].at \in {"reg2", "reg4", "probe2", "unprobe2"} /\ Cause(x) => Cause(x)'
  BY <1>3 DEF Moved, Cause
<1>5. cl[x].at # "ended" /\ ~cl[x].launched => srv'[Companion[x]].at = "idle"
  BY <1>1, <1>2 DEF ClientSaw, Moved
<1>6. cl[x].at \in {"unprobe", "unprobe2"} => holder' = x
  BY <1>1, ConnectionAssumption DEF ClientSaw, Moved
<1>7. cl[x].at = "reg2" => reg' = None \/ Cause(x)'
  BY <1>1, <1>3, <1>4 DEF ClientSaw, Moved, Cause
<1>8. cl[x].at \in {"reg4", "probe2"} => Cause(x)' \/ (reg' = None /\ holder' \in Servers)
  <2>1. CASE Cause(x)
    BY <1>4, <2>1
  <2>2. CASE past'.raced = Seeking
    BY <1>3, <2>2 DEF Cause
  <2>3. CASE ~Cause(x) /\ past'.raced # Seeking
    BY <1>1, <2>3 DEF ClientSaw, Moved
  <2> QED
    BY <2>1, <2>2, <2>3
<1>9. cl[x].at = "key2" => key' # "none" \/ past'.lost
  BY <1>1 DEF ClientSaw, Moved
<1>10. cl[x].at = "unprobe2" => Cause(x)'
  BY <1>1, <1>4 DEF ClientSaw
<1>11. cl[x].at = "lock2" => lock'
  BY <1>1 DEF ClientSaw, Moved
<1> QED
  BY <1>1, <1>5, <1>6, <1>7, <1>8, <1>9, <1>10, <1>11 DEF ClientSaw

LEMMA MoveKeeps ==
  ASSUME ConnectionInv, NEW s \in Servers, Moved(s),
         ConnectionTypeOK', FilesInOrder', ServerKeeps(s)'
  PROVE  ConnectionInv'
  BY OthersKeep, ClientsStillSee DEF ConnectionInv

LEMMA GotoType ==
  ASSUME ConnectionTypeOK, NEW s \in Servers, NEW p \in ServerStages, Goto(s, p)
  PROVE  /\ srv' \in [Servers -> ServerType]
         /\ srv'[s].at = p
         /\ \A t \in Servers \ {s} : srv'[t] = srv[t]
  BY DEF ConnectionTypeOK, ServerType, Goto

LEMMA ClosedType ==
  ASSUME ConnectionTypeOK, NEW s \in Servers
  PROVE  Closed(s) \in [Clients -> ConnectionType]
<1>1. ASSUME NEW x \in Clients PROVE [conn[x] EXCEPT !.at = "closed"] \in ConnectionType
  BY DEF ConnectionTypeOK, ConnectionType, ConnectionStages
<1> QED
  BY <1>1 DEF Closed, ConnectionTypeOK

\* A process that ends keeps nothing, and its end is a cause.
LEMMA ExitKeeps ==
  ASSUME ConnectionInv, NEW s \in Servers, srv[s].at # "idle", Exit(s),
         dir' \in BOOLEAN, dir => dir', lock' \in BOOLEAN, lock => lock',
         UNCHANGED <<key, reg, cl>>, socks' \in {socks, socks \ {s}},
         conn' \in {conn, Closed(s)}, faults' \in Nat
  PROVE  ConnectionInv'
<1>1. /\ ConnectionTypeOK /\ ServerKeeps(s) /\ FilesInOrder
      /\ Seeking \subseteq Clients
  BY DEF ConnectionInv, Seeking
<1>2. /\ srv' \in [Servers -> ServerType]
      /\ srv'[s].at = "gone"
      /\ \A t \in Servers \ {s} : srv'[t] = srv[t]
  BY <1>1, GotoType DEF Exit, ServerStages
<1>3. /\ past'.lost = (past.lost \/ (dir /\ key # "whole"))
      /\ past'.raced = Seeking
      /\ past' \in [lost : BOOLEAN, raced : SUBSET Clients]
  BY <1>1 DEF Exit, ConnectionTypeOK
<1>4. holder' = IF holder = s THEN None ELSE holder
  BY DEF Exit
<1>5. ConnectionTypeOK'
  BY <1>1, <1>2, <1>3, <1>4, ClosedType DEF ConnectionTypeOK
<1>6. ServerKeeps(s)'
  BY <1>2 DEF ServerKeeps, Inside, Locking, Holding, Keyed
<1>7. srv[s].at = "writekey" => dir /\ key # "whole"
  BY <1>1 DEF ServerKeeps, Inside, Locking, Holding
<1>8. FilesInOrder'
  BY <1>1, <1>2, <1>3, <1>7 DEF FilesInOrder
<1>9. Moved(s)
  BY <1>1, <1>2, <1>3, <1>4 DEF Moved
<1> QED
  BY <1>5, <1>6, <1>8, <1>9, MoveKeeps

LEMMA SeekingType == Seeking \subseteq Clients
  BY DEF Seeking

LEMMA StartByHandKeeps ==
  ASSUME ConnectionInv, NEW s \in Servers, StartByHand(s)
  PROVE  ConnectionInv'
<1>0. ConnectionTypeOK /\ FilesInOrder /\ ServerKeeps(s)
  BY DEF ConnectionInv
<1>1. /\ srv' \in [Servers -> ServerType]
    /\ srv'[s].at = "check"
    /\ \A t \in Servers \ {s} : srv'[t] = srv[t]
  BY <1>0, GotoType DEF StartByHand, ServerStages
<1>2. ConnectionTypeOK'
  BY <1>0, <1>1 DEF StartByHand, files, ConnectionTypeOK
<1>3. ServerKeeps(s)'
  BY <1>0, <1>1 DEF StartByHand, files, At, ServerKeeps, Inside, Locking, Holding, Keyed, FilesInOrder, ConnectionTypeOK
<1>4. FilesInOrder'
  BY <1>0, <1>1 DEF StartByHand, files, At, FilesInOrder, ServerKeeps, Locking, Holding, Keyed, ConnectionTypeOK
<1>5. Moved(s)
  BY <1>0, <1>1, ConnectionAssumption DEF StartByHand, files, At, Moved, ServerKeeps, Holding, Keyed, ConnectionTypeOK
<1> QED
  BY <1>2, <1>3, <1>4, <1>5, MoveKeeps

LEMMA CheckDirectoryKeeps ==
  ASSUME ConnectionInv, NEW s \in Servers, CheckDirectory(s)
  PROVE  ConnectionInv'
<1>0. ConnectionTypeOK /\ FilesInOrder /\ ServerKeeps(s)
  BY DEF ConnectionInv
<1>1. /\ srv' \in [Servers -> ServerType]
    /\ srv'[s].at = "directory"
    /\ \A t \in Servers \ {s} : srv'[t] = srv[t]
  <2>1. srv[s] \in ServerType /\ dir \in BOOLEAN /\ "directory" \in ServerStages
    BY <1>0 DEF ConnectionTypeOK, ServerStages
  <2>2. PICK v : v = [srv[s] EXCEPT !.existed = dir, !.at = "directory"]
    OBVIOUS
  <2>3. v \in ServerType /\ v.at = "directory"
    BY <2>1, <2>2 DEF ServerType
  <2>4. srv' = [srv EXCEPT ![s] = v]
    BY <2>2 DEF CheckDirectory
  <2> QED
    BY <1>0, <2>3, <2>4 DEF ConnectionTypeOK
<1>2. ConnectionTypeOK'
  BY <1>0, <1>1 DEF CheckDirectory, files, ConnectionTypeOK
<1>3. ServerKeeps(s)'
  BY <1>0, <1>1 DEF CheckDirectory, files, At, ServerKeeps, Inside, Locking, Holding, Keyed, FilesInOrder, ConnectionTypeOK
<1>4. FilesInOrder'
  BY <1>0, <1>1 DEF CheckDirectory, files, At, FilesInOrder, ServerKeeps, Locking, Holding, Keyed, ConnectionTypeOK
<1>5. Moved(s)
  BY <1>0, <1>1, ConnectionAssumption DEF CheckDirectory, files, At, Moved, ServerKeeps, Holding, Keyed, ConnectionTypeOK
<1> QED
  BY <1>2, <1>3, <1>4, <1>5, MoveKeeps

LEMMA EnsureDirectoryKeeps ==
  ASSUME ConnectionInv, NEW s \in Servers, EnsureDirectory(s)
  PROVE  ConnectionInv'
<1>0. ConnectionTypeOK /\ FilesInOrder /\ ServerKeeps(s)
  BY DEF ConnectionInv
<1>1. CASE Goto(s, "lockfile") /\ UNCHANGED <<holder, past>>
  <2>1. /\ srv' \in [Servers -> ServerType]
      /\ srv'[s].at = "lockfile"
      /\ \A t \in Servers \ {s} : srv'[t] = srv[t]
    BY <1>0, <1>1, GotoType DEF EnsureDirectory, ServerStages
  <2>2. ConnectionTypeOK'
    BY <1>0, <1>1, <2>1 DEF EnsureDirectory, files, ConnectionTypeOK
  <2>3. ServerKeeps(s)'
    BY <1>0, <1>1, <2>1 DEF EnsureDirectory, files, At, ServerKeeps, Inside, Locking, Holding, Keyed, FilesInOrder, ConnectionTypeOK
  <2>4. FilesInOrder'
    BY <1>0, <1>1, <2>1 DEF EnsureDirectory, files, At, FilesInOrder, ServerKeeps, Locking, Holding, Keyed, ConnectionTypeOK
  <2>5. Moved(s)
    BY <1>0, <1>1, <2>1, ConnectionAssumption DEF EnsureDirectory, files, At, Moved, ServerKeeps, Holding, Keyed, ConnectionTypeOK
  <2> QED
    BY <2>2, <2>3, <2>4, <2>5, MoveKeeps
<1>2. CASE Exit(s)
  BY <1>0, <1>2, ExitKeeps DEF EnsureDirectory, At, files, ConnectionTypeOK
<1> QED
  BY <1>1, <1>2 DEF EnsureDirectory

LEMMA FindLockFileKeeps ==
  ASSUME ConnectionInv, NEW s \in Servers, FindLockFile(s)
  PROVE  ConnectionInv'
<1>0. ConnectionTypeOK /\ FilesInOrder /\ ServerKeeps(s)
  BY DEF ConnectionInv
<1>1. CASE srv[s].existed /\ ~lock
  BY <1>0, <1>1, ExitKeeps DEF FindLockFile, At, files, ConnectionTypeOK
<1>2. CASE ~(srv[s].existed /\ ~lock)
  <2>1. /\ srv' \in [Servers -> ServerType]
      /\ srv'[s].at = "openlock"
      /\ \A t \in Servers \ {s} : srv'[t] = srv[t]
    BY <1>0, <1>2 DEF FindLockFile, ServerType, ServerStages, ConnectionTypeOK, files
  <2>2. ConnectionTypeOK'
    BY <1>0, <1>2, <2>1 DEF FindLockFile, files, ConnectionTypeOK
  <2>3. ServerKeeps(s)'
    BY <1>0, <1>2, <2>1 DEF FindLockFile, files, At, ServerKeeps, Inside, Locking, Holding, Keyed, FilesInOrder, ConnectionTypeOK
  <2>4. FilesInOrder'
    BY <1>0, <1>2, <2>1 DEF FindLockFile, files, At, FilesInOrder, ServerKeeps, Locking, Holding, Keyed, ConnectionTypeOK
  <2>5. Moved(s)
    BY <1>0, <1>2, <2>1, ConnectionAssumption DEF FindLockFile, files, At, Moved, ServerKeeps, Holding, Keyed, ConnectionTypeOK
  <2> QED
    BY <2>2, <2>3, <2>4, <2>5, MoveKeeps
<1> QED
  BY <1>1, <1>2 DEF FindLockFile

LEMMA OpenLockFileKeeps ==
  ASSUME ConnectionInv, NEW s \in Servers, OpenLockFile(s)
  PROVE  ConnectionInv'
<1>0. ConnectionTypeOK /\ FilesInOrder /\ ServerKeeps(s)
  BY DEF ConnectionInv
<1>1. CASE lock /\ ~srv[s].seen
  BY <1>0, <1>1, ExitKeeps DEF OpenLockFile, At, files, ConnectionTypeOK
<1>2. CASE ~(lock /\ ~srv[s].seen)
  <2>1. /\ srv' \in [Servers -> ServerType]
      /\ srv'[s].at = "trylock"
      /\ \A t \in Servers \ {s} : srv'[t] = srv[t]
    BY <1>0, <1>2, GotoType DEF OpenLockFile, ServerStages
  <2>2. ConnectionTypeOK'
    BY <1>0, <1>2, <2>1 DEF OpenLockFile, files, ConnectionTypeOK
  <2>3. ServerKeeps(s)'
    BY <1>0, <1>2, <2>1 DEF OpenLockFile, files, At, ServerKeeps, Inside, Locking, Holding, Keyed, FilesInOrder, ConnectionTypeOK
  <2>4. FilesInOrder'
    BY <1>0, <1>2, <2>1 DEF OpenLockFile, files, At, FilesInOrder, ServerKeeps, Locking, Holding, Keyed, ConnectionTypeOK
  <2>5. Moved(s)
    BY <1>0, <1>2, <2>1, ConnectionAssumption DEF OpenLockFile, files, At, Moved, ServerKeeps, Holding, Keyed, ConnectionTypeOK
  <2> QED
    BY <2>2, <2>3, <2>4, <2>5, MoveKeeps
<1> QED
  BY <1>1, <1>2 DEF OpenLockFile

LEMMA TryLockKeeps ==
  ASSUME ConnectionInv, NEW s \in Servers, TryLock(s)
  PROVE  ConnectionInv'
<1>0. ConnectionTypeOK /\ FilesInOrder /\ ServerKeeps(s)
  BY DEF ConnectionInv
<1>1. CASE holder # None
  BY <1>0, <1>1, ExitKeeps DEF TryLock, At, files, ConnectionTypeOK
<1>2. CASE holder = None
  <2>1. /\ srv' \in [Servers -> ServerType]
      /\ srv'[s].at = "key"
      /\ \A t \in Servers \ {s} : srv'[t] = srv[t]
    BY <1>0, <1>2, GotoType DEF TryLock, ServerStages
  <2>2. ConnectionTypeOK'
    BY <1>0, <1>2, <2>1 DEF TryLock, files, ConnectionTypeOK
  <2>3. ServerKeeps(s)'
    BY <1>0, <1>2, <2>1 DEF TryLock, files, At, ServerKeeps, Inside, Locking, Holding, Keyed, FilesInOrder, ConnectionTypeOK
  <2>4. FilesInOrder'
    BY <1>0, <1>2, <2>1 DEF TryLock, files, At, FilesInOrder, ServerKeeps, Locking, Holding, Keyed, ConnectionTypeOK
  <2>5. Moved(s)
    BY <1>0, <1>2, <2>1, ConnectionAssumption DEF TryLock, files, At, Moved, ServerKeeps, Holding, Keyed, ConnectionTypeOK
  <2> QED
    BY <2>2, <2>3, <2>4, <2>5, MoveKeeps
<1> QED
  BY <1>1, <1>2 DEF TryLock

LEMMA FindKeyKeeps ==
  ASSUME ConnectionInv, NEW s \in Servers, FindKey(s)
  PROVE  ConnectionInv'
<1>0. ConnectionTypeOK /\ FilesInOrder /\ ServerKeeps(s)
  BY DEF ConnectionInv
<1>1. CASE key = "whole" /\ Goto(s, "clean") /\ UNCHANGED <<key, holder, past>>
  <2>1. /\ srv' \in [Servers -> ServerType]
      /\ srv'[s].at = "clean"
      /\ \A t \in Servers \ {s} : srv'[t] = srv[t]
    BY <1>0, <1>1, GotoType DEF FindKey, ServerStages
  <2>2. ConnectionTypeOK'
    BY <1>0, <1>1, <2>1 DEF FindKey, files, ConnectionTypeOK
  <2>3. ServerKeeps(s)'
    BY <1>0, <1>1, <2>1 DEF FindKey, files, At, ServerKeeps, Inside, Locking, Holding, Keyed, FilesInOrder, ConnectionTypeOK
  <2>4. FilesInOrder'
    BY <1>0, <1>1, <2>1 DEF FindKey, files, At, FilesInOrder, ServerKeeps, Locking, Holding, Keyed, ConnectionTypeOK
  <2>5. Moved(s)
    BY <1>0, <1>1, <2>1, ConnectionAssumption DEF FindKey, files, At, Moved, ServerKeeps, Holding, Keyed, ConnectionTypeOK
  <2> QED
    BY <2>2, <2>3, <2>4, <2>5, MoveKeeps
<1>2. CASE key = "none" /\ key' = "partial" /\ Goto(s, "writekey") /\ UNCHANGED <<holder, past>>
  <2>1. /\ srv' \in [Servers -> ServerType]
      /\ srv'[s].at = "writekey"
      /\ \A t \in Servers \ {s} : srv'[t] = srv[t]
    BY <1>0, <1>2, GotoType DEF FindKey, ServerStages
  <2>2. ConnectionTypeOK'
    BY <1>0, <1>2, <2>1 DEF FindKey, files, ConnectionTypeOK
  <2>3. ServerKeeps(s)'
    BY <1>0, <1>2, <2>1 DEF FindKey, files, At, ServerKeeps, Inside, Locking, Holding, Keyed, FilesInOrder, ConnectionTypeOK
  <2>4. FilesInOrder'
    BY <1>0, <1>2, <2>1 DEF FindKey, files, At, FilesInOrder, ServerKeeps, Locking, Holding, Keyed, ConnectionTypeOK
  <2>5. Moved(s)
    BY <1>0, <1>2, <2>1, ConnectionAssumption DEF FindKey, files, At, Moved, ServerKeeps, Holding, Keyed, ConnectionTypeOK
  <2> QED
    BY <2>2, <2>3, <2>4, <2>5, MoveKeeps
<1>3. CASE Exit(s) /\ UNCHANGED key
  BY <1>0, <1>3, ExitKeeps DEF FindKey, At, files, ConnectionTypeOK
<1> QED
  BY <1>1, <1>2, <1>3 DEF FindKey

LEMMA WriteKeyKeeps ==
  ASSUME ConnectionInv, NEW s \in Servers, WriteKey(s)
  PROVE  ConnectionInv'
<1>0. ConnectionTypeOK /\ FilesInOrder /\ ServerKeeps(s)
  BY DEF ConnectionInv
<1>1. CASE key' = "whole" /\ Goto(s, "clean") /\ UNCHANGED <<holder, faults, past>>
  <2>1. /\ srv' \in [Servers -> ServerType]
      /\ srv'[s].at = "clean"
      /\ \A t \in Servers \ {s} : srv'[t] = srv[t]
    BY <1>0, <1>1, GotoType DEF WriteKey, ServerStages
  <2>2. ConnectionTypeOK'
    BY <1>0, <1>1, <2>1, SeekingType DEF WriteKey, files, ConnectionTypeOK
  <2>3. ServerKeeps(s)'
    BY <1>0, <1>1, <2>1 DEF WriteKey, files, At, ServerKeeps, Inside, Locking, Holding, Keyed, FilesInOrder, ConnectionTypeOK
  <2>4. FilesInOrder'
    BY <1>0, <1>1, <2>1 DEF WriteKey, files, At, FilesInOrder, ServerKeeps, Locking, Holding, Keyed, ConnectionTypeOK
  <2>5. Moved(s)
    BY <1>0, <1>1, <2>1, ConnectionAssumption DEF WriteKey, files, At, Moved, ServerKeeps, Holding, Keyed, ConnectionTypeOK
  <2> QED
    BY <2>2, <2>3, <2>4, <2>5, MoveKeeps
<1>2. CASE /\ faults' = faults + 1 /\ key' = "none" /\ Goto(s, "gone")
          /\ holder' = None /\ past' = [lost |-> TRUE, raced |-> Seeking]
  <2>1. /\ srv' \in [Servers -> ServerType]
      /\ srv'[s].at = "gone"
      /\ \A t \in Servers \ {s} : srv'[t] = srv[t]
    BY <1>0, <1>2, GotoType DEF WriteKey, ServerStages
  <2>2. ConnectionTypeOK'
    BY <1>0, <1>2, <2>1, SeekingType DEF WriteKey, files, ConnectionTypeOK
  <2>3. ServerKeeps(s)'
    BY <1>0, <1>2, <2>1 DEF WriteKey, files, At, ServerKeeps, Inside, Locking, Holding, Keyed, FilesInOrder, ConnectionTypeOK
  <2>4. FilesInOrder'
    BY <1>0, <1>2, <2>1 DEF WriteKey, files, At, FilesInOrder, ServerKeeps, Locking, Holding, Keyed, ConnectionTypeOK
  <2>5. Moved(s)
    BY <1>0, <1>2, <2>1, ConnectionAssumption DEF WriteKey, files, At, Moved, ServerKeeps, Holding, Keyed, ConnectionTypeOK
  <2> QED
    BY <2>2, <2>3, <2>4, <2>5, MoveKeeps
<1> QED
  BY <1>1, <1>2 DEF WriteKey

LEMMA RemoveStaleKeeps ==
  ASSUME ConnectionInv, NEW s \in Servers, RemoveStale(s)
  PROVE  ConnectionInv'
<1>0. ConnectionTypeOK /\ FilesInOrder /\ ServerKeeps(s)
  BY DEF ConnectionInv
<1>1. /\ srv' \in [Servers -> ServerType]
    /\ srv'[s].at = "bind"
    /\ \A t \in Servers \ {s} : srv'[t] = srv[t]
  BY <1>0, GotoType DEF RemoveStale, ServerStages
<1>2. ConnectionTypeOK'
  BY <1>0, <1>1 DEF RemoveStale, files, ConnectionTypeOK
<1>3. ServerKeeps(s)'
  BY <1>0, <1>1 DEF RemoveStale, files, At, ServerKeeps, Inside, Locking, Holding, Keyed, FilesInOrder, ConnectionTypeOK
<1>4. FilesInOrder'
  BY <1>0, <1>1 DEF RemoveStale, files, At, FilesInOrder, ServerKeeps, Locking, Holding, Keyed, ConnectionTypeOK
<1>5. Moved(s)
  BY <1>0, <1>1, ConnectionAssumption DEF RemoveStale, files, At, Moved, ServerKeeps, Holding, Keyed, ConnectionTypeOK
<1> QED
  BY <1>2, <1>3, <1>4, <1>5, MoveKeeps

LEMMA BindKeeps ==
  ASSUME ConnectionInv, NEW s \in Servers, Bind(s)
  PROVE  ConnectionInv'
<1>0. ConnectionTypeOK /\ FilesInOrder /\ ServerKeeps(s)
  BY DEF ConnectionInv
<1>1. /\ srv' \in [Servers -> ServerType]
    /\ srv'[s].at = "open"
    /\ \A t \in Servers \ {s} : srv'[t] = srv[t]
  BY <1>0, GotoType DEF Bind, ServerStages
<1>2. ConnectionTypeOK'
  BY <1>0, <1>1 DEF Bind, files, ConnectionTypeOK
<1>3. ServerKeeps(s)'
  BY <1>0, <1>1 DEF Bind, files, At, ServerKeeps, Inside, Locking, Holding, Keyed, FilesInOrder, ConnectionTypeOK
<1>4. FilesInOrder'
  BY <1>0, <1>1 DEF Bind, files, At, FilesInOrder, ServerKeeps, Locking, Holding, Keyed, ConnectionTypeOK
<1>5. Moved(s)
  BY <1>0, <1>1, ConnectionAssumption DEF Bind, files, At, Moved, ServerKeeps, Holding, Keyed, ConnectionTypeOK
<1> QED
  BY <1>2, <1>3, <1>4, <1>5, MoveKeeps

LEMMA OpenApplicationKeeps ==
  ASSUME ConnectionInv, NEW s \in Servers, OpenApplication(s)
  PROVE  ConnectionInv'
<1>0. ConnectionTypeOK /\ FilesInOrder /\ ServerKeeps(s)
  BY DEF ConnectionInv
<1>1. CASE Goto(s, "publish") /\ UNCHANGED faults
  <2>1. /\ srv' \in [Servers -> ServerType]
      /\ srv'[s].at = "publish"
      /\ \A t \in Servers \ {s} : srv'[t] = srv[t]
    BY <1>0, <1>1, GotoType DEF OpenApplication, ServerStages
  <2>2. ConnectionTypeOK'
    BY <1>0, <1>1, <2>1 DEF OpenApplication, files, ConnectionTypeOK
  <2>3. ServerKeeps(s)'
    BY <1>0, <1>1, <2>1 DEF OpenApplication, files, At, ServerKeeps, Inside, Locking, Holding, Keyed, FilesInOrder, ConnectionTypeOK
  <2>4. FilesInOrder'
    BY <1>0, <1>1, <2>1 DEF OpenApplication, files, At, FilesInOrder, ServerKeeps, Locking, Holding, Keyed, ConnectionTypeOK
  <2>5. Moved(s)
    BY <1>0, <1>1, <2>1, ConnectionAssumption DEF OpenApplication, files, At, Moved, ServerKeeps, Holding, Keyed, ConnectionTypeOK
  <2> QED
    BY <2>2, <2>3, <2>4, <2>5, MoveKeeps
<1>2. CASE faults' = faults + 1 /\ Goto(s, "unlink")
  <2>1. /\ srv' \in [Servers -> ServerType]
      /\ srv'[s].at = "unlink"
      /\ \A t \in Servers \ {s} : srv'[t] = srv[t]
    BY <1>0, <1>2, GotoType DEF OpenApplication, ServerStages
  <2>2. ConnectionTypeOK'
    BY <1>0, <1>2, <2>1 DEF OpenApplication, files, ConnectionTypeOK
  <2>3. ServerKeeps(s)'
    BY <1>0, <1>2, <2>1 DEF OpenApplication, files, At, ServerKeeps, Inside, Locking, Holding, Keyed, FilesInOrder, ConnectionTypeOK
  <2>4. FilesInOrder'
    BY <1>0, <1>2, <2>1 DEF OpenApplication, files, At, FilesInOrder, ServerKeeps, Locking, Holding, Keyed, ConnectionTypeOK
  <2>5. Moved(s)
    BY <1>0, <1>2, <2>1, ConnectionAssumption DEF OpenApplication, files, At, Moved, ServerKeeps, Holding, Keyed, ConnectionTypeOK
  <2> QED
    BY <2>2, <2>3, <2>4, <2>5, MoveKeeps
<1> QED
  BY <1>1, <1>2 DEF OpenApplication

LEMMA PublishKeeps ==
  ASSUME ConnectionInv, NEW s \in Servers, Publish(s)
  PROVE  ConnectionInv'
<1>0. ConnectionTypeOK /\ FilesInOrder /\ ServerKeeps(s)
  BY DEF ConnectionInv
<1>1. CASE reg # None
  <2>1. /\ srv' \in [Servers -> ServerType]
      /\ srv'[s].at = "unlink"
      /\ \A t \in Servers \ {s} : srv'[t] = srv[t]
    BY <1>0, <1>1, GotoType DEF Publish, ServerStages
  <2>2. ConnectionTypeOK'
    BY <1>0, <1>1, <2>1, SeekingType DEF Publish, files, ConnectionTypeOK
  <2>3. ServerKeeps(s)'
    BY <1>0, <1>1, <2>1 DEF Publish, files, At, ServerKeeps, Inside, Locking, Holding, Keyed, FilesInOrder, ConnectionTypeOK
  <2>4. FilesInOrder'
    BY <1>0, <1>1, <2>1 DEF Publish, files, At, FilesInOrder, ServerKeeps, Locking, Holding, Keyed, ConnectionTypeOK
  <2>5. Moved(s)
    BY <1>0, <1>1, <2>1, ConnectionAssumption DEF Publish, files, At, Moved, ServerKeeps, Holding, Keyed, ConnectionTypeOK
  <2> QED
    BY <2>2, <2>3, <2>4, <2>5, MoveKeeps
<1>2. CASE reg = None
  <2>1. /\ srv' \in [Servers -> ServerType]
      /\ srv'[s].at = "serving"
      /\ \A t \in Servers \ {s} : srv'[t] = srv[t]
    BY <1>0, <1>2, GotoType DEF Publish, ServerStages
  <2>2. ConnectionTypeOK'
    BY <1>0, <1>2, <2>1, SeekingType DEF Publish, files, ConnectionTypeOK
  <2>3. ServerKeeps(s)'
    BY <1>0, <1>2, <2>1 DEF Publish, files, At, ServerKeeps, Inside, Locking, Holding, Keyed, FilesInOrder, ConnectionTypeOK
  <2>4. FilesInOrder'
    BY <1>0, <1>2, <2>1 DEF Publish, files, At, FilesInOrder, ServerKeeps, Locking, Holding, Keyed, ConnectionTypeOK
  <2>5. Moved(s)
    BY <1>0, <1>2, <2>1, ConnectionAssumption DEF Publish, files, At, Moved, ServerKeeps, Holding, Keyed, ConnectionTypeOK
  <2> QED
    BY <2>2, <2>3, <2>4, <2>5, MoveKeeps
<1> QED
  BY <1>1, <1>2 DEF Publish

LEMMA StopKeeps ==
  ASSUME ConnectionInv, NEW s \in Servers, Stop(s)
  PROVE  ConnectionInv'
<1>0. ConnectionTypeOK /\ FilesInOrder /\ ServerKeeps(s)
  BY DEF ConnectionInv
<1>1. /\ srv' \in [Servers -> ServerType]
    /\ srv'[s].at = "draining"
    /\ \A t \in Servers \ {s} : srv'[t] = srv[t]
  BY <1>0, GotoType DEF Stop, ServerStages
<1>2. ConnectionTypeOK'
  BY <1>0, <1>1 DEF Stop, files, ConnectionTypeOK
<1>3. ServerKeeps(s)'
  BY <1>0, <1>1 DEF Stop, files, At, ServerKeeps, Inside, Locking, Holding, Keyed, FilesInOrder, ConnectionTypeOK
<1>4. FilesInOrder'
  BY <1>0, <1>1 DEF Stop, files, At, FilesInOrder, ServerKeeps, Locking, Holding, Keyed, ConnectionTypeOK
<1>5. Moved(s)
  BY <1>0, <1>1, ConnectionAssumption DEF Stop, files, At, Moved, ServerKeeps, Holding, Keyed, ConnectionTypeOK
<1> QED
  BY <1>2, <1>3, <1>4, <1>5, MoveKeeps

LEMMA DrainKeeps ==
  ASSUME ConnectionInv, NEW s \in Servers, Drain(s)
  PROVE  ConnectionInv'
<1>0. ConnectionTypeOK /\ FilesInOrder /\ ServerKeeps(s)
  BY DEF ConnectionInv
<1>1. /\ srv' \in [Servers -> ServerType]
    /\ srv'[s].at = "unregister"
    /\ \A t \in Servers \ {s} : srv'[t] = srv[t]
  BY <1>0, GotoType DEF Drain, ServerStages
<1>2. ConnectionTypeOK'
  BY <1>0, <1>1, ClosedType DEF Drain, files, ConnectionTypeOK
<1>3. ServerKeeps(s)'
  BY <1>0, <1>1 DEF Drain, files, At, ServerKeeps, Inside, Locking, Holding, Keyed, FilesInOrder, ConnectionTypeOK
<1>4. FilesInOrder'
  BY <1>0, <1>1 DEF Drain, files, At, FilesInOrder, ServerKeeps, Locking, Holding, Keyed, ConnectionTypeOK
<1>5. Moved(s)
  BY <1>0, <1>1, ConnectionAssumption DEF Drain, files, At, Moved, ServerKeeps, Holding, Keyed, ConnectionTypeOK
<1> QED
  BY <1>2, <1>3, <1>4, <1>5, MoveKeeps

LEMMA UnregisterKeeps ==
  ASSUME ConnectionInv, NEW s \in Servers, Unregister(s)
  PROVE  ConnectionInv'
<1>0. ConnectionTypeOK /\ FilesInOrder /\ ServerKeeps(s)
  BY DEF ConnectionInv
<1>1. /\ srv' \in [Servers -> ServerType]
    /\ srv'[s].at = "unlink"
    /\ \A t \in Servers \ {s} : srv'[t] = srv[t]
  BY <1>0, GotoType DEF Unregister, ServerStages
<1>2. ConnectionTypeOK'
  BY <1>0, <1>1 DEF Unregister, files, ConnectionTypeOK
<1>3. ServerKeeps(s)'
  BY <1>0, <1>1 DEF Unregister, files, At, ServerKeeps, Inside, Locking, Holding, Keyed, FilesInOrder, ConnectionTypeOK
<1>4. FilesInOrder'
  BY <1>0, <1>1 DEF Unregister, files, At, FilesInOrder, ServerKeeps, Locking, Holding, Keyed, ConnectionTypeOK
<1>5. Moved(s)
  BY <1>0, <1>1, ConnectionAssumption DEF Unregister, files, At, Moved, ServerKeeps, Holding, Keyed, ConnectionTypeOK
<1> QED
  BY <1>2, <1>3, <1>4, <1>5, MoveKeeps

LEMMA UnlinkKeeps ==
  ASSUME ConnectionInv, NEW s \in Servers, Unlink(s)
  PROVE  ConnectionInv'
  BY ExitKeeps DEF Unlink, At, files, Living, ConnectionInv, ConnectionTypeOK

LEMMA CrashKeeps ==
  ASSUME ConnectionInv, NEW s \in Servers, Crash(s)
  PROVE  ConnectionInv'
  BY ExitKeeps DEF Crash, At, files, Living, ConnectionInv, ConnectionTypeOK

--------------------------------------------------------------------------------
(* The steps of a client. *)

\* A client changes what it knows.  It takes the lock if it is free, gives it
\* back, forgets what raced with its last discovery, and launches its companion.
Looked(x) ==
  /\ \A d \in Clients \ {x} : cl'[d] = cl[d]
  /\ \A s \in Servers :
       \/ srv'[s] = srv[s]
       \/ s = Companion[x] /\ srv[s].at = "idle" /\ srv'[s].at = "check"
  /\ UNCHANGED files
  /\ past'.lost = past.lost
  /\ \A d \in Clients \ {x} : d \in past.raced => d \in past'.raced
  /\ \/ holder' = holder
     \/ holder = None /\ holder' = x
     \/ holder = x /\ holder' = None

LEMMA LookedKeeps ==
  ASSUME ConnectionInv, NEW x \in Clients, Looked(x), ConnectionTypeOK', ClientSaw(x)'
  PROVE  ConnectionInv'
<1>1. ASSUME NEW s \in Servers PROVE ServerKeeps(s)'
  <2>1. ServerKeeps(s)
    BY DEF ConnectionInv
  <2>2. srv[s].at \in Holding => holder' = s
    BY <2>1, ConnectionAssumption DEF Looked, ServerKeeps
  <2> QED
    BY <2>1, <2>2 DEF Looked, files, ServerKeeps, Inside, Locking, Holding, Keyed
<1>2. FilesInOrder'
  BY DEF ConnectionInv, FilesInOrder, Looked, files
<1>3. ASSUME NEW d \in Clients \ {x} PROVE ClientSaw(d)'
  <2>1. ClientSaw(d) /\ cl'[d] = cl[d]
    BY DEF ConnectionInv, Looked
  <2>2. Companion[d] \in Servers /\ Companion[d] # Companion[x]
    BY ConnectionAssumption
  <2>3. cl[d].at \in {"unprobe", "unprobe2"} => holder' = d
    BY <2>1, ConnectionAssumption DEF ClientSaw, Looked
  <2>4. holder \in Servers => holder' = holder
    BY ConnectionAssumption DEF Looked
  <2>5. srv'[Companion[d]] = srv[Companion[d]]
    BY <2>2 DEF Looked
  <2> QED
    BY <2>1, <2>3, <2>4, <2>5 DEF Looked, files, ClientSaw, Cause
<1> QED
  BY <1>1, <1>2, <1>3 DEF ConnectionInv

Outcomes ==
  {"Control", "CompanionExited", "StartupTimedOut", "RemainedIncomplete", "Debug", "Connected",
   "Handshake", "Authentication", "AuthenticationTimedOut"}

\* A client that ends has given back the lock.
LEMMA EndKeeps ==
  ASSUME ConnectionInv, NEW x \in Clients, NEW why \in Outcomes,
         Look(x, Finished(x, why)),
         holder' = holder \/ (holder = x /\ holder' = None)
  PROVE  ConnectionInv'
<1>1. ConnectionTypeOK
  BY DEF ConnectionInv
<1>2. Finished(x, why) \in ClientType
  BY <1>1 DEF Finished, NewClient, ClientType, ClientStages, Outcomes, ConnectionTypeOK
<1>3. /\ cl' \in [Clients -> ClientType]
      /\ cl'[x] = Finished(x, why)
      /\ \A d \in Clients \ {x} : cl'[d] = cl[d]
  BY <1>1, <1>2 DEF Look, ConnectionTypeOK
<1>4. Looked(x)
  BY <1>3 DEF Looked, Look, files
<1>5. ConnectionTypeOK'
  BY <1>1, <1>3 DEF ConnectionTypeOK, Look, files
<1>6. cl'[x].at = "ended"
  BY <1>3 DEF Finished, NewClient
<1>7. ClientSaw(x)'
  BY <1>6 DEF ClientSaw
<1> QED
  BY <1>4, <1>5, <1>7, LookedKeeps

\* An error with a cause
LEMMA MalformedKeeps ==
  ASSUME ConnectionInv, NEW x \in Clients, Cause(x), Look(x, Malformed(x)),
         holder' = holder \/ (holder = x /\ holder' = None)
  PROVE  ConnectionInv'
<1>1. Malformed(x) = Finished(x, "Control")
  BY DEF Malformed, Cause
<1> QED
  BY <1>1, EndKeeps DEF Outcomes

\* A client that goes on with `k'
LEMMA LookKeeps ==
  ASSUME ConnectionInv, NEW x \in Clients, NEW k \in ClientType, Look(x, k),
         holder' = holder \/ (holder = None /\ holder' = x) \/ (holder = x /\ holder' = None),
         k.launched = cl[x].launched, k.at # "ended", cl[x].at # "ended",
         k.at \in {"unprobe", "unprobe2"} => holder' = x,
         k.at = "lock2" => lock,
         k.at = "reg2" => reg = None \/ Cause(x),
         k.at = "key2" => key # "none" \/ past.lost,
         k.at \in {"reg4", "probe2"} => Cause(x) \/ (reg = None /\ holder' \in Servers),
         k.at = "unprobe2" => Cause(x)
  PROVE  ConnectionInv'
<1>1. ConnectionTypeOK /\ ClientSaw(x)
  BY DEF ConnectionInv
<1>2. /\ cl' \in [Clients -> ClientType]
      /\ cl'[x] = k
      /\ \A d \in Clients \ {x} : cl'[d] = cl[d]
  BY <1>1 DEF Look, ConnectionTypeOK
<1>3. Looked(x)
  BY <1>2 DEF Looked, Look, files
<1>4. ConnectionTypeOK'
  BY <1>1, <1>2 DEF ConnectionTypeOK, Look, files
<1>5. ClientSaw(x)'
  BY <1>1, <1>2 DEF ClientSaw, Look, files, Cause
<1> QED
  BY <1>3, <1>4, <1>5, LookedKeeps

LEMMA AtType ==
  ASSUME ConnectionInv, NEW x \in Clients, NEW p \in ClientStages
  PROVE  /\ [cl[x] EXCEPT !.at = p] \in ClientType
         /\ [cl[x] EXCEPT !.at = p].at = p
         /\ [cl[x] EXCEPT !.at = p].launched = cl[x].launched
  BY DEF ConnectionInv, ConnectionTypeOK, ClientType

\* A client that goes on to the stage `p', and keeps the rest of what it saw
LEMMA GoKeeps ==
  ASSUME ConnectionInv, NEW x \in Clients, NEW p \in ClientStages \ {"ended"},
         Look(x, [cl[x] EXCEPT !.at = p]), cl[x].at # "ended",
         holder' = holder \/ (holder = None /\ holder' = x) \/ (holder = x /\ holder' = None),
         p \in {"unprobe", "unprobe2"} => holder' = x,
         p = "lock2" => lock,
         p = "reg2" => reg = None \/ Cause(x),
         p = "key2" => key # "none" \/ past.lost,
         p \in {"reg4", "probe2"} => Cause(x) \/ (reg = None /\ holder' \in Servers),
         p = "unprobe2" => Cause(x)
  PROVE  ConnectionInv'
<1>1. PICK k \in ClientType : /\ k = [cl[x] EXCEPT !.at = p]
                              /\ k.at = p /\ k.launched = cl[x].launched
  <2>1. [cl[x] EXCEPT !.at = p] \in ClientType
    BY AtType
  <2>2. /\ [cl[x] EXCEPT !.at = p].at = p
        /\ [cl[x] EXCEPT !.at = p].launched = cl[x].launched
    BY AtType
  <2> QED
    BY <2>1, <2>2
<1>2. Look(x, k)
  BY <1>1
<1>3. k.at = p /\ k.launched = cl[x].launched /\ k.at # "ended"
  BY <1>1
<1> QED
  BY <1>2, <1>3, LookKeeps

\* The stages at which nothing is remembered of what was seen
Plain ==
  {"lock1", "empty", "probe", "reg1", "key1", "reg3", "read", "Absent", "Incomplete", "Starting",
   "Registered", "connect"}

LEMMA PlainKeeps ==
  ASSUME ConnectionInv, NEW x \in Clients, NEW p \in Plain, cl[x].at # "ended",
         Look(x, [cl[x] EXCEPT !.at = p]),
         holder' = holder \/ (holder = x /\ holder' = None)
  PROVE  ConnectionInv'
<1>1. p \in ClientStages \ {"ended"}
  BY DEF Plain, ClientStages
<1>2. p \notin {"unprobe", "unprobe2", "lock2", "reg2", "key2", "reg4", "probe2"}
  BY DEF Plain
<1> QED
  BY <1>1, <1>2, GoKeeps

LEMMA SeekLockKeeps ==
  ASSUME ConnectionInv, NEW x \in Clients, SeekLock(x)
  PROVE  ConnectionInv'
<1>1. (IF lock THEN "probe" ELSE "empty") \in Plain
  BY DEF Plain
<1> QED
  BY <1>1, PlainKeeps DEF SeekLock, Step

LEMMA SeekEmptyKeeps ==
  ASSUME ConnectionInv, NEW x \in Clients, SeekEmpty(x)
  PROVE  ConnectionInv'
<1>1. CASE ~lock /\ key = "none" /\ reg = None
  BY <1>1, PlainKeeps DEF SeekEmpty, Step, Plain
<1>2. CASE ~(~lock /\ key = "none" /\ reg = None)
  <2>1. lock
    BY <1>2 DEF ConnectionInv, FilesInOrder
  <2>2. Look(x, [cl[x] EXCEPT !.at = "lock2"]) /\ UNCHANGED holder /\ cl[x].at = "empty"
    BY <1>2 DEF SeekEmpty, Step
  <2>3. "lock2" \in ClientStages \ {"ended"}
    BY DEF ClientStages
  <2> QED
    BY <2>1, <2>2, <2>3, GoKeeps
<1> QED
  BY <1>1, <1>2

LEMMA SeekLockAgainKeeps ==
  ASSUME ConnectionInv, NEW x \in Clients, SeekLockAgain(x)
  PROVE  ConnectionInv'
<1>1. lock
  BY DEF ConnectionInv, ClientSaw, SeekLockAgain
<1> QED
  BY <1>1, PlainKeeps DEF SeekLockAgain, Plain

LEMMA ProbeLockKeeps ==
  ASSUME ConnectionInv, NEW x \in Clients, ProbeLock(x)
  PROVE  ConnectionInv'
<1>0. cl[x] \in ClientType
  BY DEF ConnectionInv, ConnectionTypeOK
<1>1. CASE holder # None
  <2> DEFINE k == [cl[x] EXCEPT !.held = TRUE, !.at = "reg1"]
  <2>1. k \in ClientType /\ k.at = "reg1" /\ k.launched = cl[x].launched
    BY <1>0 DEF ClientType, ClientStages
  <2>2. Look(x, k) /\ holder' = holder /\ cl[x].at # "ended"
    BY <1>1 DEF ProbeLock
  <2> HIDE DEF k
  <2> QED
    BY <2>1, <2>2, LookKeeps
<1>2. CASE holder = None
  <2> DEFINE k == [cl[x] EXCEPT !.held = FALSE, !.at = "unprobe"]
  <2>1. k \in ClientType /\ k.at = "unprobe" /\ k.launched = cl[x].launched
    BY <1>0 DEF ClientType, ClientStages
  <2>2. Look(x, k) /\ holder' = x /\ cl[x].at # "ended"
    BY <1>2 DEF ProbeLock
  <2> HIDE DEF k
  <2> QED
    BY <1>2, <2>1, <2>2, LookKeeps
<1> QED
  BY <1>1, <1>2

LEMMA UnprobeKeeps ==
  ASSUME ConnectionInv, NEW x \in Clients, Unprobe(x)
  PROVE  ConnectionInv'
<1>1. holder = x
  BY DEF ConnectionInv, ClientSaw, Unprobe
<1> QED
  BY <1>1, PlainKeeps DEF Unprobe, Plain

LEMMA SeekPublicationKeeps ==
  ASSUME ConnectionInv, NEW x \in Clients, SeekPublication(x)
  PROVE  ConnectionInv'
<1>1. (IF reg = None THEN "Starting" ELSE "key1") \in Plain
  BY DEF Plain
<1> QED
  BY <1>1, PlainKeeps DEF SeekPublication, Step

\* Where there is no key, nothing is registered yet.
LEMMA SeekKeyKeeps ==
  ASSUME ConnectionInv, NEW x \in Clients, SeekKey(x)
  PROVE  ConnectionInv'
<1>1. CASE key = "none"
  <2>1. reg = None
    BY <1>1 DEF ConnectionInv, FilesInOrder
  <2>2. Look(x, [cl[x] EXCEPT !.at = "reg2"]) /\ holder' = holder /\ cl[x].at # "ended"
    BY <1>1 DEF SeekKey, Step
  <2>3. "reg2" \in ClientStages \ {"ended"}
    BY DEF ClientStages
  <2> QED
    BY <2>1, <2>2, <2>3, GoKeeps
<1>2. CASE key # "none"
  <2>1. Look(x, [cl[x] EXCEPT !.at = "key2"]) /\ holder' = holder /\ cl[x].at # "ended"
    BY <1>2 DEF SeekKey, Step
  <2>2. "key2" \in ClientStages \ {"ended"}
    BY DEF ClientStages
  <2> QED
    BY <1>2, <2>1, <2>2, GoKeeps
<1> QED
  BY <1>1, <1>2

LEMMA KeyIsMissingKeeps ==
  ASSUME ConnectionInv, NEW x \in Clients, KeyIsMissing(x)
  PROVE  ConnectionInv'
<1>1. CASE reg # None
  <2>1. Cause(x)
    BY <1>1 DEF ConnectionInv, ClientSaw, KeyIsMissing
  <2> QED
    BY <1>1, <2>1, MalformedKeeps DEF KeyIsMissing
<1>2. CASE reg = None
  <2>1. (IF cl[x].held THEN "Starting" ELSE "Incomplete") \in Plain
    BY DEF Plain
  <2> QED
    BY <1>2, <2>1, PlainKeeps DEF KeyIsMissing, Finding
<1> QED
  BY <1>1, <1>2

\* A key that is not whole has been lost, or the server that writes it holds the lock.
LEMMA LoadKeyKeeps ==
  ASSUME ConnectionInv, NEW x \in Clients, LoadKey(x)
  PROVE  ConnectionInv'
<1>1. CASE key = "whole"
  BY <1>1, PlainKeeps DEF LoadKey, Step, Plain
<1>2. CASE key # "whole"
  <2>1. past.lost \/ key = "partial"
    BY <1>2 DEF ConnectionInv, ConnectionTypeOK, ClientSaw, LoadKey
  <2>2. past.lost \/ \E s \in Servers : srv[s].at = "writekey" /\ holder = s
    BY <2>1 DEF ConnectionInv, FilesInOrder, ServerKeeps, Holding
  <2>3. reg = None
    BY <1>2 DEF ConnectionInv, FilesInOrder
  <2>4. Cause(x) \/ (reg = None /\ holder \in Servers)
    BY <2>2, <2>3 DEF Cause
  <2>5. Look(x, [cl[x] EXCEPT !.at = "reg4"]) /\ holder' = holder /\ cl[x].at # "ended"
    BY <1>2 DEF LoadKey, Step
  <2>6. "reg4" \in ClientStages \ {"ended"}
    BY DEF ClientStages
  <2> QED
    BY <2>4, <2>5, <2>6, GoKeeps
<1> QED
  BY <1>1, <1>2

LEMMA KeyIsPartialKeeps ==
  ASSUME ConnectionInv, NEW x \in Clients, KeyIsPartial(x)
  PROVE  ConnectionInv'
<1>1. Cause(x) \/ (reg = None /\ holder \in Servers)
  BY DEF ConnectionInv, ClientSaw, KeyIsPartial
<1>2. CASE reg # None
  BY <1>1, <1>2, MalformedKeeps DEF KeyIsPartial
<1>3. CASE reg = None
  <2>1. Look(x, [cl[x] EXCEPT !.at = "probe2"]) /\ holder' = holder /\ cl[x].at # "ended"
    BY <1>3 DEF KeyIsPartial
  <2>2. "probe2" \in ClientStages \ {"ended"}
    BY DEF ClientStages
  <2> QED
    BY <1>1, <2>1, <2>2, GoKeeps
<1> QED
  BY <1>2, <1>3

LEMMA ProbeLockAgainKeeps ==
  ASSUME ConnectionInv, NEW x \in Clients, ProbeLockAgain(x)
  PROVE  ConnectionInv'
<1>1. Cause(x) \/ holder \in Servers
  BY DEF ConnectionInv, ClientSaw, ProbeLockAgain
<1>2. CASE holder # None
  BY <1>2, PlainKeeps DEF ProbeLockAgain, Finding, Plain
<1>3. CASE holder = None
  <2>1. Cause(x)
    BY <1>1, <1>3, ConnectionAssumption
  <2>2. Look(x, [cl[x] EXCEPT !.at = "unprobe2"]) /\ holder' = x /\ cl[x].at # "ended"
    BY <1>3 DEF ProbeLockAgain
  <2>3. "unprobe2" \in ClientStages \ {"ended"}
    BY DEF ClientStages
  <2> QED
    BY <1>3, <2>1, <2>2, <2>3, GoKeeps
<1> QED
  BY <1>2, <1>3

LEMMA UnprobeAgainKeeps ==
  ASSUME ConnectionInv, NEW x \in Clients, UnprobeAgain(x)
  PROVE  ConnectionInv'
<1>1. Cause(x) /\ holder = x
  BY DEF ConnectionInv, ClientSaw, UnprobeAgain
<1> QED
  BY <1>1, MalformedKeeps DEF UnprobeAgain

LEMMA SeekRegistrationKeeps ==
  ASSUME ConnectionInv, NEW x \in Clients, SeekRegistration(x)
  PROVE  ConnectionInv'
<1>1. CASE reg = None
  <2>1. (IF cl[x].held THEN "Starting" ELSE "Absent") \in Plain
    BY DEF Plain
  <2> QED
    BY <1>1, <2>1, PlainKeeps DEF SeekRegistration, Unregistered, Finding
<1>2. CASE reg # None
  BY <1>2, PlainKeeps DEF SeekRegistration, Plain
<1> QED
  BY <1>1, <1>2

LEMMA ReadRegistrationKeeps ==
  ASSUME ConnectionInv, NEW x \in Clients, ReadRegistration(x)
  PROVE  ConnectionInv'
<1>1. CASE reg = None
  <2>1. (IF cl[x].held THEN "Starting" ELSE "Absent") \in Plain
    BY DEF Plain
  <2> QED
    BY <1>1, <2>1, PlainKeeps DEF ReadRegistration, Unregistered, Finding
<1>2. CASE reg # None
  <2> DEFINE k == [cl[x] EXCEPT !.reg = reg, !.at = "Registered"]
  <2>0. cl[x] \in ClientType /\ reg \in Servers \cup {None}
    BY DEF ConnectionInv, ConnectionTypeOK
  <2>1. k \in ClientType /\ k.at = "Registered" /\ k.launched = cl[x].launched
    BY <2>0 DEF ClientType, ClientStages
  <2>2. Look(x, k) /\ holder' = holder /\ cl[x].at # "ended"
    BY <1>2 DEF ReadRegistration
  <2> HIDE DEF k
  <2> QED
    BY <2>1, <2>2, LookKeeps
<1> QED
  BY <1>1, <1>2

LEMMA DiscoverKeeps ==
  ASSUME ConnectionInv, NEW x \in Clients, Discover(x)
  PROVE  ConnectionInv'
<1>1. ConnectionTypeOK /\ ClientSaw(x)
  BY DEF ConnectionInv
<1> DEFINE k == [cl[x] EXCEPT !.exited = Reaped(x), !.at = IF dir THEN "lock1" ELSE "Absent"]
<1>2. Reaped(x) \in BOOLEAN
  BY <1>1 DEF Reaped, ConnectionTypeOK, ClientType
<1>3. (IF dir THEN "lock1" ELSE "Absent") \in ClientStages
  BY DEF ClientStages
<1>4. k \in ClientType /\ k.at \in {"lock1", "Absent"} /\ k.launched = cl[x].launched
  <2>1. cl[x] \in ClientType
    BY <1>1 DEF ConnectionTypeOK
  <2>2. PICK p \in ClientStages : p = IF dir THEN "lock1" ELSE "Absent"
    BY <1>3
  <2>3. k = [cl[x] EXCEPT !.exited = Reaped(x), !.at = p]
    BY <2>2
  <2> HIDE DEF k
  <2>4. k \in ClientType /\ k.at = p /\ k.launched = cl[x].launched
    BY <1>2, <2>1, <2>3 DEF ClientType
  <2>5. p \in {"lock1", "Absent"}
    BY <2>2
  <2> QED
    BY <2>4, <2>5
<1>5. cl' = [cl EXCEPT ![x] = k] /\ cl[x].at = "discover"
  BY DEF Discover
<1> HIDE DEF k
<1>6. /\ cl' \in [Clients -> ClientType]
      /\ cl'[x] = k
      /\ \A d \in Clients \ {x} : cl'[d] = cl[d]
  BY <1>1, <1>4, <1>5 DEF ConnectionTypeOK
<1>7. Looked(x)
  BY <1>1, <1>6 DEF Looked, Discover, files, ConnectionTypeOK
<1>8. ConnectionTypeOK'
  BY <1>1, <1>6 DEF ConnectionTypeOK, Discover, files
<1>9. ClientSaw(x)'
  BY <1>1, <1>4, <1>5, <1>6 DEF ClientSaw, Discover
<1> QED
  BY <1>7, <1>8, <1>9, LookedKeeps

LEMMA LaunchKeeps ==
  ASSUME ConnectionInv, NEW x \in Clients, NEW k \in ClientType, Launch(x, k),
         k.launched = cl[x].launched, cl[x].at # "ended"
  PROVE  ConnectionInv'
<1>1. ConnectionTypeOK /\ ClientSaw(x) /\ Companion[x] \in Servers
  BY ConnectionAssumption DEF ConnectionInv
<1> DEFINE q == [k EXCEPT !.launched = TRUE, !.at = "discover", !.held = FALSE, !.reg = None]
<1>2. q \in ClientType /\ q.at = "discover" /\ q.launched
  BY DEF ClientType, ClientStages
<1>3. cl' = [cl EXCEPT ![x] = q]
  BY DEF Launch
<1> HIDE DEF q
<1>4. /\ cl' \in [Clients -> ClientType]
      /\ cl'[x] = q
      /\ \A d \in Clients \ {x} : cl'[d] = cl[d]
  BY <1>1, <1>2, <1>3 DEF ConnectionTypeOK
<1>5. srv' \in [Servers -> ServerType]
  BY <1>1 DEF Launch, ConnectionTypeOK, ServerType, ServerStages
<1>6. \A s \in Servers :
        \/ srv'[s] = srv[s]
        \/ s = Companion[x] /\ srv[s].at = "idle" /\ srv'[s].at = "check"
  BY <1>1 DEF Launch, ConnectionTypeOK, ServerType, ClientSaw
<1>7. Looked(x)
  BY <1>4, <1>6 DEF Looked, Launch, files
<1>8. ConnectionTypeOK'
  BY <1>1, <1>4, <1>5 DEF ConnectionTypeOK, Launch, files
<1>9. ClientSaw(x)'
  BY <1>2, <1>4 DEF ClientSaw, ConnectionTypeOK, ClientType
<1> QED
  BY <1>7, <1>8, <1>9, LookedKeeps

LEMMA TimedType ==
  ASSUME NEW k \in ClientType
  PROVE  /\ Timed(k) \in ClientType
         /\ Timed(k).at = k.at /\ Timed(k).launched = k.launched
<1> DEFINE grace == k.exited /\ k.at \in {"Absent", "Incomplete"}
           incomplete == k.at = "Incomplete"
           starting == k.at = "Starting"
<1>1. grace \in BOOLEAN /\ incomplete \in BOOLEAN /\ starting \in BOOLEAN
  BY DEF ClientType
<1>2. Timed(k) = [k EXCEPT !.grace = grace, !.incomplete = incomplete, !.starting = starting]
  BY DEF Timed
<1> HIDE DEF grace, incomplete, starting
<1> QED
  BY <1>1, <1>2 DEF ClientType

LEMMA AgainKeeps ==
  ASSUME ConnectionInv, NEW x \in Clients, NEW k \in ClientType, Again(x, k),
         k.launched = cl[x].launched, cl[x].at # "ended"
  PROVE  ConnectionInv'
<1> DEFINE q == [k EXCEPT !.at = "discover", !.held = FALSE]
<1>1. q \in ClientType /\ q.at = "discover" /\ q.launched = cl[x].launched
  BY DEF ClientType, ClientStages
<1>2. Look(x, q) /\ holder' = holder
  BY DEF Again
<1> HIDE DEF q
<1> QED
  BY <1>1, <1>2, LookKeeps

LEMMA DecideKeeps ==
  ASSUME ConnectionInv, NEW x \in Clients, Decide(x)
  PROVE  ConnectionInv'
<1> DEFINE k == Timed(cl[x])
<1>1. cl[x] \in ClientType
  BY DEF ConnectionInv, ConnectionTypeOK
<1>2. k \in ClientType /\ k.at = cl[x].at /\ k.launched = cl[x].launched
  BY <1>1, TimedType
<1>3. /\ k.at \in {"Absent", "Incomplete", "Starting", "Registered"}
      /\ CASE k.at = "Absent"     -> Launch(x, k)
           [] k.at = "Incomplete" -> Again(x, k)
           [] k.at = "Starting"   -> End(x, "Debug") \/ Again(x, k)
           [] OTHER -> Look(x, [k EXCEPT !.at = "connect"]) /\ UNCHANGED holder
  BY <1>2 DEF Decide
<1> HIDE DEF k
<1>4. cl[x].at # "ended"
  BY <1>2, <1>3
<1>5. CASE Launch(x, k)
  BY <1>2, <1>4, <1>5, LaunchKeeps
<1>6. CASE Again(x, k)
  BY <1>2, <1>4, <1>6, AgainKeeps
<1>7. CASE End(x, "Debug")
  BY <1>7, EndKeeps DEF End, Outcomes
<1>8. CASE Look(x, [k EXCEPT !.at = "connect"]) /\ UNCHANGED holder
  <2> DEFINE q == [k EXCEPT !.at = "connect"]
  <2>1. q \in ClientType /\ q.at = "connect" /\ q.launched = cl[x].launched
    BY <1>2 DEF ClientType, ClientStages
  <2>2. Look(x, q) /\ holder' = holder
    BY <1>8
  <2> HIDE DEF q
  <2> QED
    BY <1>4, <2>1, <2>2, LookKeeps
<1> QED
  BY <1>3, <1>5, <1>6, <1>7, <1>8

LEMMA ConnectKeeps ==
  ASSUME ConnectionInv, NEW x \in Clients, Connect(x)
  PROVE  ConnectionInv'
<1>1. ConnectionTypeOK /\ ClientSaw(x)
  BY DEF ConnectionInv
<1>2. CASE Launch(x, cl[x])
  BY <1>1, <1>2, LaunchKeeps DEF Connect, ConnectionTypeOK
<1>3. CASE ~Launch(x, cl[x])
  <2>1. /\ conn' = [conn EXCEPT ![x] = [s |-> cl[x].reg, at |-> "pending"]]
        /\ cl' = [cl EXCEPT ![x].at = "authenticate"]
        /\ UNCHANGED <<files, holder, srv, faults, past>>
        /\ cl[x].at = "connect"
    BY <1>3 DEF Connect
  <2>2. /\ cl' \in [Clients -> ClientType]
        /\ cl'[x].at = "authenticate" /\ cl'[x].launched = cl[x].launched
        /\ \A d \in Clients \ {x} : cl'[d] = cl[d]
    BY <1>1, <2>1 DEF ConnectionTypeOK, ClientType, ClientStages
  <2>3. conn' \in [Clients -> ConnectionType]
    BY <1>1, <2>1 DEF ConnectionTypeOK, ConnectionType, ConnectionStages, ClientType
  <2>4. ConnectionTypeOK'
    BY <1>1, <2>1, <2>2, <2>3 DEF ConnectionTypeOK, files
  <2>5. Looked(x)
    BY <2>1, <2>2 DEF Looked, files
  <2>6. ClientSaw(x)'
    BY <1>1, <2>1, <2>2 DEF ClientSaw
  <2> QED
    BY <2>4, <2>5, <2>6, LookedKeeps
<1> QED
  BY <1>2, <1>3

--------------------------------------------------------------------------------
(* The connection, and the end of an attempt. *)

\* What is said on a connection changes no file.
LEMMA TalkKeeps ==
  ASSUME ConnectionInv, conn' \in [Clients -> ConnectionType], faults' \in Nat,
         UNCHANGED <<files, holder, srv, cl, past>>
  PROVE  ConnectionInv'
  BY DEF ConnectionInv, ConnectionTypeOK, FilesInOrder, ServerKeeps, ClientSaw, Cause, files

LEMMA SayType ==
  ASSUME ConnectionInv, NEW x \in Clients, NEW p \in ConnectionStages
  PROVE  [conn EXCEPT ![x].at = p] \in [Clients -> ConnectionType]
  BY DEF ConnectionInv, ConnectionTypeOK, ConnectionType

LEMMA ServeKeeps ==
  ASSUME ConnectionInv, NEW s \in Servers, NEW x \in Clients, Serve(s, x)
  PROVE  ConnectionInv'
<1>1. faults \in Nat
  BY DEF ConnectionInv, ConnectionTypeOK
<1>2. faults' \in Nat /\ UNCHANGED <<files, holder, srv, cl, past>>
  BY <1>1 DEF Serve, Accept, ServerProves, ServerGreets, Reply
<1>3. PICK p \in ConnectionStages : conn' = [conn EXCEPT ![x].at = p]
  <2>1. CASE Accept(s, x)
    BY <2>1 DEF Accept, ConnectionStages
  <2>2. CASE ServerProves(s, x)
    BY <2>2 DEF ServerProves, Reply, ConnectionStages
  <2>3. CASE ServerGreets(s, x)
    BY <2>3 DEF ServerGreets, Reply, ConnectionStages
  <2> QED
    BY <2>1, <2>2, <2>3 DEF Serve
<1> QED
  BY <1>2, <1>3, SayType, TalkKeeps

LEMMA RespondKeeps ==
  ASSUME ConnectionInv, NEW x \in Clients, ClientProves(x) \/ ClientGreets(x)
  PROVE  ConnectionInv'
<1>1. faults \in Nat
  BY DEF ConnectionInv, ConnectionTypeOK
<1>2. faults' \in Nat /\ UNCHANGED <<files, holder, srv, cl, past>>
  BY <1>1 DEF ClientProves, ClientGreets, Respond
<1>3. PICK p \in ConnectionStages : conn' = [conn EXCEPT ![x].at = p]
  BY DEF ClientProves, ClientGreets, Respond, ConnectionStages
<1> QED
  BY <1>2, <1>3, SayType, TalkKeeps

LEMMA OverKeeps ==
  ASSUME ConnectionInv, NEW x \in Clients, Connected(x) \/ Refused(x) \/ Expire(x)
  PROVE  ConnectionInv'
<1>1. PICK why \in Outcomes : End(x, why)
  <2>1. CASE Connected(x)
    BY <2>1 DEF Connected, Outcomes
  <2>2. CASE Refused(x)
    BY <2>2 DEF Refused, Outcomes
  <2>3. CASE Expire(x)
    BY <2>3 DEF Expire, GraceOver, TimesOut, IncompleteOver, Outcomes
  <2> QED
    BY <2>1, <2>2, <2>3
<1> QED
  BY <1>1, EndKeeps DEF End

--------------------------------------------------------------------------------
(* The theorems. *)

LEMMA ConnectionInit == Init => ConnectionInv
<1> SUFFICES ASSUME Init PROVE ConnectionInv
  OBVIOUS
<1> USE ConnectionAssumption
<1>1. PICK old \in {"new", "running", "dead"}, outdated \in BOOLEAN :
    /\ old # "running" => ~outdated
    /\ dir = (old # "new") /\ lock = dir /\ key = IF dir THEN "whole" ELSE "none"
    /\ reg = IF dir THEN Before ELSE None
    /\ socks = IF dir THEN {Before} ELSE {}
    /\ holder = IF old = "running" THEN Before ELSE None
    /\ srv = [s \in Servers |->
                IF s = Before
                THEN [NewServer EXCEPT !.at = IF old = "running" THEN "serving" ELSE "gone",
                                       !.outdated = outdated]
                ELSE NewServer]
    /\ \E d \in [Clients -> BOOLEAN] :
         cl = [x \in Clients |-> [NewClient EXCEPT !.debug = d[x]]]
    /\ conn = [x \in Clients |-> NoConn]
    /\ faults = 0 /\ past = [lost |-> FALSE, raced |-> {}]
  BY Zenon DEF Init
<1>2. srv \in [Servers -> ServerType]
  BY <1>1 DEF NewServer, ServerType, ServerStages
<1>3. cl \in [Clients -> ClientType]
  <2>1. PICK d \in [Clients -> BOOLEAN] :
          cl = [x \in Clients |-> [NewClient EXCEPT !.debug = d[x]]]
    BY <1>1
  <2>2. ASSUME NEW x \in Clients PROVE [NewClient EXCEPT !.debug = d[x]] \in ClientType
    BY DEF NewClient, ClientType, ClientStages
  <2> QED
    BY <2>1, <2>2
<1>4. conn \in [Clients -> ConnectionType]
  BY <1>1 DEF NoConn, ConnectionType, ConnectionStages
<1>5. ConnectionTypeOK
  BY <1>1, <1>2, <1>3, <1>4 DEF ConnectionTypeOK
<1>6. FilesInOrder
  BY <1>1 DEF FilesInOrder
<1>7. ASSUME NEW s \in Servers PROVE ServerKeeps(s)
  BY <1>1 DEF ServerKeeps, NewServer, Inside, Locking, Holding, Keyed
<1>8. ASSUME NEW x \in Clients PROVE ClientSaw(x)
  BY <1>1 DEF ClientSaw, NewServer, NewClient
<1> QED
  BY <1>5, <1>6, <1>7, <1>8 DEF ConnectionInv

LEMMA ConnectionStep == ConnectionInv /\ [Next]_vars => ConnectionInv'
<1> SUFFICES ASSUME ConnectionInv, [Next]_vars PROVE ConnectionInv'
  OBVIOUS
<1>1. ASSUME NEW s \in Servers, Start(s) PROVE ConnectionInv'
  BY <1>1, CheckDirectoryKeeps, EnsureDirectoryKeeps, FindLockFileKeeps, OpenLockFileKeeps,
     TryLockKeeps, FindKeyKeeps, WriteKeyKeeps, RemoveStaleKeeps, BindKeeps,
     OpenApplicationKeeps, PublishKeeps DEF Start
<1>2. ASSUME NEW s \in Servers, Finish(s) \/ StartByHand(s) \/ Stop(s) \/ Crash(s)
      PROVE  ConnectionInv'
  BY <1>2, DrainKeeps, UnregisterKeeps, UnlinkKeeps, StartByHandKeeps, StopKeeps, CrashKeeps
     DEF Finish
<1>3. ASSUME NEW x \in Clients, Seek(x) PROVE ConnectionInv'
  BY <1>3, DiscoverKeeps, SeekLockKeeps, SeekEmptyKeeps, SeekLockAgainKeeps, ProbeLockKeeps,
     UnprobeKeeps, SeekPublicationKeeps, SeekKeyKeeps, KeyIsMissingKeeps, LoadKeyKeeps,
     KeyIsPartialKeeps, ProbeLockAgainKeeps, UnprobeAgainKeeps, SeekRegistrationKeeps,
     ReadRegistrationKeeps DEF Seek
<1>4. ASSUME NEW x \in Clients, Attempt(x) \/ Expire(x) PROVE ConnectionInv'
  BY <1>4, DecideKeeps, ConnectKeeps, RespondKeeps, OverKeeps DEF Attempt
<1>5. CASE UNCHANGED vars
  <2>1. conn \in [Clients -> ConnectionType] /\ faults \in Nat
    BY DEF ConnectionInv, ConnectionTypeOK
  <2> QED
    BY <1>5, <2>1, TalkKeeps DEF vars, files
<1> QED
  BY <1>1, <1>2, <1>3, <1>4, <1>5, ServeKeeps DEF Next

\* The invariant, in every state of every start, stop and crash.
THEOREM ConnectionTheorem == Spec => []ConnectionInv
  BY ConnectionInit, ConnectionStep, PTL DEF Spec

\* A contender never disturbs the winner: the host lock, which the server that serves
\* holds, lets no other one remove its registration or its endpoint.
THEOREM RegistrationTheorem == Spec => []RegistrationIsCurrent
<1>1. ConnectionInv => RegistrationIsCurrent
  BY DEF ConnectionInv, ServerKeeps, RegistrationIsCurrent, At, Holding, Keyed
<1> QED
  BY <1>1, ConnectionTheorem, PTL

\* No two servers of one profile own it at a time, whichever way they were started.
OneServerOwnsProfile ==
  \A s, t \in Servers : srv[s].at \in Holding /\ srv[t].at \in Holding => s = t

\* acquire_host_lock lets one process at a time into the control directory.
THEOREM OwnershipOfProfile == Spec => []OneServerOwnsProfile
<1>1. ConnectionInv => OneServerOwnsProfile
  BY DEF ConnectionInv, ServerKeeps, OneServerOwnsProfile
<1> QED
  BY <1>1, ConnectionTheorem, PTL

\* What discover_observing calls malformed has a cause.
THEOREM ControlErrorTheorem == Spec => []ControlErrorHasCause
<1>1. ConnectionInv => ControlErrorHasCause
  BY DEF ConnectionInv, ConnectionTypeOK, ClientType, ControlErrorHasCause
<1> QED
  BY <1>1, ConnectionTheorem, PTL

\* Once an authentication key is whole it is never replaced nor removed: clients that
\* loaded it and servers that serve with it go on to agree.
KeyIsKept == [][key = "whole" => key' = "whole"]_vars

\* No server replaces a key it has found, and no fault cuts one that is whole.
THEOREM KeyTheorem == Spec => KeyIsKept
<1>1. ConnectionInv /\ [Next]_vars => [key = "whole" => key' = "whole"]_vars
  <2> SUFFICES ASSUME ConnectionInv, [Next]_vars, key = "whole" PROVE key' = "whole"
    OBVIOUS
  <2>1. ASSUME NEW s \in Servers, Start(s) PROVE key' = "whole"
    BY <2>1 DEF Start, CheckDirectory, EnsureDirectory, FindLockFile, OpenLockFile, TryLock,
       FindKey, WriteKey, RemoveStale, Bind, OpenApplication, Publish, files, At,
       ConnectionInv, ServerKeeps
  <2>2. ASSUME NEW s \in Servers, Finish(s) \/ StartByHand(s) \/ Stop(s) \/ Crash(s)
        PROVE  key' = "whole"
    BY <2>2 DEF Finish, Drain, Unregister, Unlink, StartByHand, Stop, Crash, files
  <2>3. ASSUME NEW s \in Servers, NEW x \in Clients, Serve(s, x) PROVE key' = "whole"
    BY <2>3 DEF Serve, Accept, ServerProves, ServerGreets, Reply, files
  <2>4. ASSUME NEW x \in Clients, Seek(x) PROVE key' = "whole"
    BY <2>4 DEF Seek, Discover, SeekLock, SeekEmpty, SeekLockAgain, ProbeLock, Unprobe,
       SeekPublication, SeekKey, KeyIsMissing, LoadKey, KeyIsPartial, ProbeLockAgain,
       UnprobeAgain, SeekRegistration, ReadRegistration, Step, Look, files
  <2>5. ASSUME NEW x \in Clients, Attempt(x) \/ Expire(x) PROVE key' = "whole"
    BY <2>5 DEF Attempt, Decide, Connect, ClientProves, ClientGreets, Connected, Refused,
       Expire, GraceOver, TimesOut, IncompleteOver, Launch, Again, End, Respond, Look, files
  <2> QED
    BY <2>1, <2>2, <2>3, <2>4, <2>5 DEF Next, vars
<1> QED
  BY <1>1, ConnectionTheorem, PTL DEF Spec, KeyIsKept
================================================================================

----------------------- MODULE CredentialAndTurnProofs -----------------------
(***************************************************************************)
(* Theorems about Credentials, for any number of logins, changes, calls    *)
(* and faults: whatever a crash leaves is reconciled, a refresh grant      *)
(* leaves the server once, the callers are told what happens, and a lease  *)
(* that is ready uses the stored credential.  And about ProviderTurns, for *)
(* any model and any service: a request reaches the service once.          *)
(***************************************************************************)
EXTENDS Credentials, ProviderTurns, SequenceTheorems, FiniteSetTheorems, WellFoundedInduction,
        TLAPS

--------------------------------------------------------------------------------
(* The store, the leases and the logins. *)


Settled == {"completed", "not_applied"}

Entries == [id : Requests, expected : Nat,
            state : {"prepared", "dispatched", "completed", "not_applied"},
            facts : SUBSET {"dispatched", "completed", "not_applied"}]

Creds == [gen : Nat, marker : Requests \union {None},
          phase : {"removed", "active", "dispatched", "reauth"}, rev : Nat, refresh : Nat]

Grants == (Requests \union {None}) \X Nat

JobTypes ==
    [type : {"mutate"}, id : Requests, gen : Nat]
    \union [type : {"begin"}, kind : Kinds, gen : Nat, mark : Nat]
    \union [type : {"finish"}, gen : Nat, mark : Nat, tokens : BOOLEAN]

Answers == {None, "done", "generation_conflict", "request_conflict", "not_applied",
            "invalid_state", "storage", "reauthentication"}

ChangeStates == [at : {"idle", "waiting", "sent"}, gen : Nat, answer : Answers]

LoginStates ==
    [at : {"none", "callback", "exchange", "acquiring", "installing", "ended"},
     id : Logins \union {None}, gen : Nat, cancelled : BOOLEAN, seen : Nat,
     outcome : {None, "installed", "uncertain", "credential_changed", "unavailable",
                "denied", "expired", "cancelled", "exchange_failed"}]

LeaseStages == {"idle", "waiting", "begin", "ready", "granted", "exchange", "finishing"}

LeaseStates ==
    [at : LeaseStages, gen : Nat, mark : Nat, grant : Grants \union {None}]

CredTypeOK ==
    /\ up \in BOOLEAN /\ stopping \in BOOLEAN
    /\ file \in [Kinds -> Creds] /\ mem \in [Kinds -> Creds] /\ sound \in [Kinds -> BOOLEAN]
    /\ journal \in Seq(Entries) /\ queue \in Seq(JobTypes)
    /\ work \in [at : {"idle", "dispatch", "apply", "complete"}, id : Requests \union {None}]
    /\ lock \in [Kinds -> Requests \union {None, "lease"}]
    /\ change \in [Changes -> ChangeStates] /\ lease \in [Kinds -> LeaseStates]
    /\ login \in LoginStates
    /\ spent \in Seq(Grants)
    /\ calls \in Nat /\ faults \in Nat

\* A request is accepted once, and only the last one can be open.
JournalInOrder ==
    /\ \A i, h \in 1 .. Len(journal) : journal[i].id = journal[h].id => i = h
    /\ \A i \in 1 .. Len(journal) : i < Len(journal) => journal[i].state \in Settled

Newest == journal[Len(journal)]

\* The copy of the worker is the file unless it is known not to be; only the ChatGPT
\* credential is refreshed.
CopyIsFile ==
    \A k \in Kinds : /\ sound[k] => mem[k] = file[k]
                     /\ k = "opencode" => /\ file[k].phase \in {"removed", "active"}
                                          /\ mem[k].phase \in {"removed", "active"}

\* The change the worker is in the middle of is the last one of the journal, and the
\* file holds its effect exactly after it is applied.
WorkFitsJournal ==
    /\ work.at = "idle" => work = NoWork
    /\ work.at # "idle" =>
        /\ up /\ Consistent /\ journal # <<>>
        /\ work.id = Newest.id
        /\ work.at = "dispatch" => Newest.state = "prepared"
        /\ work.at \in {"apply", "complete"} => Newest.state = "dispatched"
        /\ work.at \in {"dispatch", "apply"} => file[Kind(work.id)].gen = Newest.expected
        /\ work.at = "complete" => Installed(Newest, file)

KindOfMessage(m) ==
    IF m.type = "mutate" THEN Kind(m.id) ELSE IF m.type = "begin" THEN m.kind ELSE "openai"

\* A lease holds the lock of its credential from its message on, and nothing that could
\* change the credential is behind that message.
OurBegin(k, m) == m.type = "begin" /\ m.kind = k /\ m.mark = lease[k].mark
OurFinish(m) ==
    m.type = "finish" /\ m.gen = lease["openai"].gen /\ m.mark = lease["openai"].mark

LeaseIsAlone(k) ==
    /\ lock[k] = "lease" <=> lease[k].at \notin {"idle", "waiting"}
    /\ lease[k].at # "idle" => lease[k].mark <= calls
    /\ lease[k].at \in {"granted", "exchange", "finishing"} => k = "openai"
    /\ lease[k].at = "granted" => lease[k].grant \in Grants
    /\ lease[k].at = "waiting" => \A i \in 1 .. Len(queue) : ~OurBegin(k, queue[i])
    /\ lease[k].at = "begin" =>
        \E p \in 1 .. Len(queue) :
            /\ OurBegin(k, queue[p]) /\ queue[p].gen = lease[k].gen
            /\ \A i \in 1 .. Len(queue) : i < p => ~OurBegin(k, queue[i])
            /\ \A i \in 1 .. Len(queue) : i > p => KindOfMessage(queue[i]) # k
    /\ lease[k].at \in {"ready", "granted", "exchange", "finishing"} =>
        work.at = "idle" \/ Kind(work.id) # k
    /\ lease[k].at \in {"ready", "granted", "exchange"} =>
        \A i \in 1 .. Len(queue) : KindOfMessage(queue[i]) # k
    /\ lease[k].at = "finishing" =>
        \E p \in 1 .. Len(queue) :
            /\ OurFinish(queue[p])
            /\ \A i \in 1 .. Len(queue) : i # p => KindOfMessage(queue[i]) # k

LeasesAreAlone ==
    /\ \A k \in Kinds : LeaseIsAlone(k)
    /\ \A i \in 1 .. Len(queue) : queue[i].type = "begin" => queue[i].mark <= calls

\* A grant was used: it left the server or is about to.
Used(g) == \/ \E i \in 1 .. Len(spent) : spent[i] = g
           \/ lease["openai"].at = "granted" /\ lease["openai"].grant = g

\* The tokens of a used grant are not in the file any more, or marked.
GrantsAreMarked ==
    /\ \A i \in 1 .. Len(spent) :
          lease["openai"].at = "granted" => spent[i] # lease["openai"].grant
    /\ \A g \in Grants : Used(g) =>
        /\ g[1] \in Accepted
        /\ work.at \in {"dispatch", "apply"} => g[1] # work.id
        /\ g[1] = file["openai"].marker =>
              /\ g[2] <= file["openai"].rev
              /\ g[2] = file["openai"].rev => file["openai"].phase # "active"

Asks(m, r) == m.type = "mutate" /\ m.id = r

\* A login that has not installed is unknown to the journal and to the queue.
LoginsAreFresh ==
    /\ login.at \notin {"none"} => login.id # None
    /\ login.at \in {"callback", "exchange", "acquiring"} =>
          login.id \notin Accepted /\ ~Queued(login.id)
    /\ \A r \in Logins : \A i, h \in 1 .. Len(queue) : Asks(queue[i], r) /\ Asks(queue[h], r) => i = h
    /\ \A r \in Logins : Queued(r) \/ (work.at # "idle" /\ work.id = r) =>
          /\ login.id = r
          /\ \/ login.at = "installing"
             \/ login.at = "ended" /\ login.outcome = "uncertain" /\ stopping
    /\ \A r \in Logins : Queued(r) => r \notin Accepted

DownIsEmpty == ~up => queue = <<>> /\ work = NoWork /\ \A k \in Kinds : lock[k] = None

CredInv ==
    /\ CredTypeOK /\ JournalInOrder /\ RestartReconciles /\ CopyIsFile /\ WorkFitsJournal
    /\ LeasesAreAlone /\ GrantsAreMarked /\ RefreshIsSentOnce /\ LoginsAreFresh /\ DownIsEmpty
    /\ OutcomesAreTrue /\ ReadyLeaseIsCurrent

-----------------------------------------------------------------------------
(* The journal and the credentials as values: what a recovery makes of     *)
(* them, and which changes of them it goes on to accept.                   *)

Done(j, k) == {i \in 1 .. Len(j) : Kind(j[i].id) = k /\ j[i].state = "completed"}

LastIn(S) == CHOOSE i \in S : \A h \in S : h <= i

Ordered(j) == \A i \in 1 .. Len(j) : i < Len(j) => j[i].state \in Settled

\* The states and facts of one request agree.
EntryValid(e) ==
    /\ e.state \in {"dispatched", "completed"} => "dispatched" \in e.facts
    /\ e.state = "prepared" => e.facts = {}
    /\ ("completed" \in e.facts) = (e.state = "completed")
    /\ ("not_applied" \in e.facts) = (e.state = "not_applied")

\* Credentials that differ in their tokens only.
SameLogin(c, d) ==
    \A k \in Kinds : /\ c[k].gen = d[k].gen /\ c[k].marker = d[k].marker
                     /\ c[k].phase = "removed" <=> d[k].phase = "removed"

LEMMA RequestKinds ==
    /\ \A r \in Requests : Kind(r) \in Kinds /\ Sets(r) \in BOOLEAN
    /\ \A r \in Logins : Kind(r) = "openai" /\ Sets(r) /\ r \in Requests /\ r \notin Changes
    /\ \A r \in Changes : r \in Requests /\ r \notin Logins
    /\ Kinds = {"opencode", "openai"}
    /\ None \notin Requests /\ "lease" \notin Requests /\ None # "lease" /\ None # "done"
    BY RequestsAssumption DEF Requests, Kinds

LEMMA HighestIsLast ==
    ASSUME NEW N \in Nat, NEW S \in SUBSET (1 .. N), S # {}
    PROVE  LastIn(S) \in S
<1> DEFINE T == {N - i : i \in S}
<1>1. \A i \in S : i \in 1 .. N /\ N - i \in Nat
    OBVIOUS
<1>2. T \subseteq Nat /\ T # {}
    BY <1>1
<1> HIDE DEF T
<1>3. PICK x \in T : \A y \in T : <<y, x>> \notin OpToRel(<, Nat)
    BY <1>2, NatLessThanWellFounded, WFMin
<1>4. \A y \in T : ~(y < x)
    BY <1>2, <1>3 DEF OpToRel
<1>5. PICK i \in S : x = N - i
    BY <1>3 DEF T
<1>6. \A h \in S : N - h \in T
    BY DEF T
<1>7. \A h \in S : h <= i
    BY <1>1, <1>4, <1>5, <1>6
<1> QED
    BY <1>7 DEF LastIn

LEMMA DoneIsFinite ==
    ASSUME NEW j \in Seq(Entries), NEW k
    PROVE  /\ Done(j, k) \in SUBSET (1 .. Len(j)) /\ Len(j) \in Nat
           /\ IsFiniteSet(Done(j, k)) /\ Cardinality(Done(j, k)) \in Nat
<1>1. Len(j) \in Nat /\ Done(j, k) \subseteq 1 .. Len(j)
    BY DEF Done
<1>2. IsFiniteSet(1 .. Len(j))
    BY <1>1, FS_Interval
<1>3. IsFiniteSet(Done(j, k))
    BY <1>1, <1>2, FS_Subset
<1> QED
    BY <1>1, <1>3, FS_CardinalityType

LEMMA StateValidMeans ==
    ASSUME NEW j, NEW c
    PROVE  CredentialStateValid(j, c) <=>
             \A k \in Kinds :
               /\ c[k].gen = Cardinality(Done(j, k))
               /\ Done(j, k) = {} => c[k].phase = "removed"
               /\ Done(j, k) # {} =>
                    /\ c[k].marker = j[LastIn(Done(j, k))].id
                    /\ (c[k].phase # "removed") = Sets(j[LastIn(Done(j, k))].id)
BY DEF CredentialStateValid, Done, LastIn

LEMMA RecordsValidMeans ==
    ASSUME NEW j
    PROVE  RecordsValid(j) <=>
             \A i \in 1 .. Len(j) :
               /\ j[i].expected = CompletedBefore(j, Kind(j[i].id), i - 1)
               /\ EntryValid(j[i])
BY DEF RecordsValid, EntryValid

LEMMA EntryKinds ==
    ASSUME NEW j \in Seq(Entries), NEW i \in 1 .. Len(j)
    PROVE  /\ j[i] \in Entries /\ j[i].id \in Requests /\ Kind(j[i].id) \in Kinds
           /\ j[i].expected \in Nat
<1>1. j[i] \in Entries
    OBVIOUS
<1>2. j[i].id \in Requests /\ j[i].expected \in Nat
    BY <1>1 DEF Entries
<1> QED
    BY <1>1, <1>2, RequestKinds

\* One step of a request records its fact.
Moves(e, state) == [e EXCEPT !.state = state, !.facts = @ \union {state}]

LEMMA EntryMoves ==
    ASSUME NEW e \in Entries, NEW state \in {"dispatched", "completed", "not_applied"}
    PROVE  /\ Moves(e, state) \in Entries
           /\ Moves(e, state).id = e.id /\ Moves(e, state).expected = e.expected
           /\ Moves(e, state).state = state /\ Moves(e, state).facts = e.facts \union {state}
<1> DEFINE facts == e.facts \union {state}
<1>1. facts \in SUBSET {"dispatched", "completed", "not_applied"}
    BY DEF Entries
<1>2. Moves(e, state) = [e EXCEPT !.state = state, !.facts = facts]
    BY DEF Moves
<1> HIDE DEF facts
<1>3. /\ Moves(e, state) \in Entries
      /\ Moves(e, state).id = e.id /\ Moves(e, state).expected = e.expected
      /\ Moves(e, state).state = state /\ Moves(e, state).facts = facts
    BY <1>1, <1>2 DEF Entries
<1> QED
    BY <1>3 DEF facts

\* What a recovery makes of one request.
Recovers(e, c) ==
    IF RecoveredState(e, c) = e.state THEN e ELSE Moves(e, RecoveredState(e, c))

LEMMA RecoveredEntry ==
    ASSUME NEW e \in Entries, NEW c, EntryValid(e)
    PROVE  /\ Recovers(e, c) \in Entries /\ EntryValid(Recovers(e, c))
           /\ Recovers(e, c).state = RecoveredState(e, c) /\ RecoveredState(e, c) \in Settled
           /\ Recovers(e, c).id = e.id /\ Recovers(e, c).expected = e.expected
           /\ e.state \in Settled => Recovers(e, c) = e
<1> DEFINE state == RecoveredState(e, c)
<1>1. CASE e.state = "prepared"
    <2>1. state = "not_applied"
        BY <1>1 DEF RecoveredState
    <2>2. Recovers(e, c) = Moves(e, "not_applied")
        BY <1>1, <2>1 DEF Recovers
    <2>3. EntryValid(Moves(e, "not_applied"))
        BY <1>1, EntryMoves DEF EntryValid
    <2> QED
        BY <1>1, <2>1, <2>2, <2>3, EntryMoves DEF Settled
<1>2. CASE e.state = "dispatched"
    <2>1. state \in {"completed", "not_applied"}
        BY <1>2 DEF RecoveredState
    <2> HIDE DEF state
    <2>2. Recovers(e, c) = Moves(e, state)
        BY <1>2, <2>1 DEF Recovers, state
    <2>3. EntryValid(Moves(e, state))
        BY <1>2, <2>1, EntryMoves DEF EntryValid
    <2>4. /\ Moves(e, state) \in Entries /\ Moves(e, state).state = state
          /\ Moves(e, state).id = e.id /\ Moves(e, state).expected = e.expected
        BY <2>1, EntryMoves
    <2> QED
        BY <1>2, <2>1, <2>2, <2>3, <2>4 DEF Settled, state
<1>3. CASE e.state \in {"completed", "not_applied"}
    <2>1. state = e.state
        BY <1>3 DEF RecoveredState
    <2>2. Recovers(e, c) = e
        BY <2>1 DEF Recovers
    <2> QED
        BY <1>3, <2>1, <2>2 DEF Settled
<1> QED
    BY <1>1, <1>2, <1>3 DEF Entries

\* What it makes of all of them.
LEMMA RecoveredShape ==
    ASSUME NEW j \in Seq(Entries), NEW c, RecordsValid(j)
    PROVE  /\ Recovered(j, c) \in Seq(Entries) /\ Len(Recovered(j, c)) = Len(j)
           /\ \A i \in 1 .. Len(j) :
                LET f == Recovered(j, c)[i]
                IN /\ f.id = j[i].id /\ f.expected = j[i].expected
                   /\ f.state = RecoveredState(j[i], c) /\ f.state \in Settled /\ EntryValid(f)
                   /\ j[i].state \in Settled => f = j[i]
<1> DEFINE R == [i \in 1 .. Len(j) |-> Recovers(j[i], c)]
<1>1. Recovered(j, c) = R
    BY DEF Recovered, Recovers, Moves
<1>2. \A i \in 1 .. Len(j) : j[i] \in Entries /\ EntryValid(j[i])
    BY RecordsValidMeans
<1>3. \A i \in 1 .. Len(j) :
        /\ Recovers(j[i], c) \in Entries /\ EntryValid(Recovers(j[i], c))
        /\ Recovers(j[i], c).state = RecoveredState(j[i], c)
        /\ Recovers(j[i], c).state \in Settled
        /\ Recovers(j[i], c).id = j[i].id /\ Recovers(j[i], c).expected = j[i].expected
        /\ j[i].state \in Settled => Recovers(j[i], c) = j[i]
    BY <1>2, RecoveredEntry
<1>4. R \in Seq(Entries) /\ Len(R) = Len(j) /\ \A i \in 1 .. Len(j) : R[i] = Recovers(j[i], c)
    BY <1>3
<1> HIDE DEF R
<1> QED
    BY <1>1, <1>3, <1>4

\* The requests before the last one are settled, so a change of the last one leaves
\* every generation that a request expected as it was counted.
LEMMA RecordsKept ==
    ASSUME NEW j \in Seq(Entries), NEW l \in Seq(Entries), RecordsValid(j), Len(l) = Len(j),
           \A i \in 1 .. Len(j) : /\ l[i].id = j[i].id /\ l[i].expected = j[i].expected
                                  /\ EntryValid(l[i])
                                  /\ i < Len(j) => l[i] = j[i]
    PROVE  RecordsValid(l)
<1> SUFFICES ASSUME NEW i \in 1 .. Len(j)
             PROVE  l[i].expected = CompletedBefore(l, Kind(l[i].id), i - 1)
    BY RecordsValidMeans
<1>1. Len(j) \in Nat /\ i \in Int
    OBVIOUS
<1>2. \A h \in 1 .. i - 1 : h \in 1 .. Len(j) /\ h < Len(j) /\ l[h] = j[h]
    BY <1>1
<1>3. CompletedBefore(l, Kind(l[i].id), i - 1) = CompletedBefore(j, Kind(j[i].id), i - 1)
    BY <1>2 DEF CompletedBefore
<1> QED
    BY <1>3, RecordsValidMeans

\* The check of the credentials looks at the completed requests only.
LEMMA StateKept ==
    ASSUME NEW j \in Seq(Entries), NEW l \in Seq(Entries), NEW c,
           CredentialStateValid(j, c),
           \A k \in Kinds : Done(l, k) = Done(j, k),
           \A i \in 1 .. Len(j) : l[i].id = j[i].id
    PROVE  CredentialStateValid(l, c)
<1>1. \A k \in Kinds : Done(j, k) # {} =>
        LastIn(Done(j, k)) \in 1 .. Len(j)
    <2> SUFFICES ASSUME NEW k \in Kinds, Done(j, k) # {} PROVE LastIn(Done(j, k)) \in 1 .. Len(j)
        OBVIOUS
    <2>1. LastIn(Done(j, k)) \in Done(j, k)
        BY DoneIsFinite, HighestIsLast
    <2> QED
        BY <2>1 DEF Done
<1> QED
    BY <1>1, StateValidMeans

\* A recovery leaves a settled journal alone.
LEMMA SettledIsRecovered ==
    ASSUME NEW j \in Seq(Entries), NEW c, RecordsValid(j),
           \A i \in 1 .. Len(j) : j[i].state \in Settled
    PROVE  Recovered(j, c) = j
<1> DEFINE R == Recovered(j, c)
<1>1. R \in Seq(Entries) /\ Len(R) = Len(j) /\ \A i \in 1 .. Len(j) : R[i] = j[i]
    BY RecoveredShape
<1> HIDE DEF R
<1>2. R = j
    BY <1>1, SeqEqual
<1> QED
    BY <1>2 DEF R

\* A second recovery has nothing to do.
LEMMA RecoveryAgain ==
    ASSUME NEW j \in Seq(Entries), NEW c, RecoverySucceeds(j, c), Ordered(j)
    PROVE  /\ Recovered(j, c) \in Seq(Entries) /\ Len(Recovered(j, c)) = Len(j)
           /\ \A i \in 1 .. Len(j) : /\ Recovered(j, c)[i].id = j[i].id
                                     /\ Recovered(j, c)[i].state \in Settled
           /\ Ordered(Recovered(j, c))
           /\ CredentialStateValid(Recovered(j, c), c)
           /\ \A d : Recovered(Recovered(j, c), d) = Recovered(j, c)
           /\ RecoverySucceeds(Recovered(j, c), c)
<1> DEFINE R == Recovered(j, c)
<1>1. RecordsValid(j) /\ CredentialStateValid(R, c)
    BY DEF RecoverySucceeds
<1>2. /\ R \in Seq(Entries) /\ Len(R) = Len(j)
      /\ \A i \in 1 .. Len(j) : /\ R[i].id = j[i].id /\ R[i].expected = j[i].expected
                                /\ R[i].state \in Settled /\ EntryValid(R[i])
                                /\ j[i].state \in Settled => R[i] = j[i]
    BY <1>1, RecoveredShape
<1> HIDE DEF R
<1>3. RecordsValid(R)
    BY <1>1, <1>2, RecordsKept DEF Ordered
<1>4. \A d : Recovered(R, d) = R
    BY <1>2, <1>3, SettledIsRecovered
<1>5. RecoverySucceeds(R, c)
    BY <1>1, <1>2, <1>3, <1>4 DEF RecoverySucceeds, Reconcilable, Settled
<1>6. Ordered(R)
    BY <1>2 DEF Ordered
<1> QED
    BY <1>1, <1>2, <1>4, <1>5, <1>6 DEF R

\* A recovery tells credentials apart by their generation, marker and presence.
LEMMA SameLoginRecovers ==
    ASSUME NEW j \in Seq(Entries), NEW c, NEW d, SameLogin(c, d), RecoverySucceeds(j, c)
    PROVE  Recovered(j, d) = Recovered(j, c) /\ RecoverySucceeds(j, d)
<1>1. \A i \in 1 .. Len(j) : j[i] \in Entries /\ Kind(j[i].id) \in Kinds
    BY EntryKinds
<1>2. \A i \in 1 .. Len(j) : Installed(j[i], c) = Installed(j[i], d)
    BY <1>1 DEF Installed, SameLogin
<1>3. \A i \in 1 .. Len(j) : RecoveredState(j[i], c) = RecoveredState(j[i], d)
    BY <1>2 DEF RecoveredState
<1>4. Recovered(j, d) = Recovered(j, c)
    BY <1>3 DEF Recovered
<1>5. \A i \in 1 .. Len(j) : Reconcilable(j[i], c) => Reconcilable(j[i], d)
    BY <1>1, <1>2 DEF Reconcilable, SameLogin
<1>6. CredentialStateValid(Recovered(j, c), d)
    <2>1. CredentialStateValid(Recovered(j, c), c)
        BY DEF RecoverySucceeds
    <2> HIDE DEF Recovered
    <2>2. \A k \in Kinds : (c[k].phase # "removed") = (d[k].phase # "removed")
        BY DEF SameLogin
    <2> QED
        BY <2>1, <2>2, StateValidMeans DEF SameLogin
<1> QED
    BY <1>4, <1>5, <1>6 DEF RecoverySucceeds

\* A new request expects the generation that is there.
LEMMA AppendSucceeds ==
    ASSUME NEW j \in Seq(Entries), NEW c, RecoverySucceeds(j, c),
           \A i \in 1 .. Len(j) : j[i].state \in Settled,
           NEW e \in Entries, e.state = "prepared", e.facts = {}, e.expected = c[Kind(e.id)].gen
    PROVE  /\ Append(j, e) \in Seq(Entries) /\ Ordered(Append(j, e))
           /\ RecoverySucceeds(Append(j, e), c)
<1> DEFINE l == Append(j, e)
           n == Len(j) + 1
           R == Recovered(l, c)
<1>1. /\ l \in Seq(Entries) /\ Len(l) = n /\ l[n] = e /\ n \in Nat /\ Len(j) \in Nat
      /\ \A i \in 1 .. Len(j) : l[i] = j[i]
      /\ \A i \in 1 .. n : i < n => i \in 1 .. Len(j)
      /\ \A i \in 1 .. n : i \in 1 .. Len(j) \/ i = n
    OBVIOUS
<1> HIDE DEF l
<1>2. Ordered(l)
    BY <1>1 DEF Ordered
<1>3. RecordsValid(j) /\ CredentialStateValid(j, c)
    BY SettledIsRecovered DEF RecoverySucceeds
<1>4. e.id \in Requests /\ Kind(e.id) \in Kinds
    BY RequestKinds DEF Entries
<1>5. RecordsValid(l)
    <2>1. \A i \in 1 .. Len(j) : \A h \in 1 .. i - 1 : l[h] = j[h]
        BY <1>1
    <2>2. \A i \in 1 .. Len(j) :
            CompletedBefore(l, Kind(l[i].id), i - 1) = CompletedBefore(j, Kind(j[i].id), i - 1)
        BY <1>1, <2>1 DEF CompletedBefore
    <2>3. \A i \in 1 .. Len(j) : /\ l[i].expected = CompletedBefore(l, Kind(l[i].id), i - 1)
                                 /\ EntryValid(l[i])
        BY <1>1, <1>3, <2>2, RecordsValidMeans
    <2>4. n - 1 = Len(j)
        BY <1>1
    <2>5. CompletedBefore(l, Kind(e.id), n - 1) = Cardinality(Done(j, Kind(e.id)))
        BY <1>1, <2>4 DEF CompletedBefore, Done
    <2>6. e.expected = CompletedBefore(l, Kind(e.id), n - 1) /\ EntryValid(e)
        BY <1>3, <1>4, <2>5, StateValidMeans DEF EntryValid
    <2> HIDE DEF n
    <2> QED
        BY <1>1, <2>3, <2>6, RecordsValidMeans
<1>6. /\ R \in Seq(Entries) /\ Len(R) = n /\ R[n].state = "not_applied"
      /\ \A i \in 1 .. Len(j) : R[i] = j[i]
    <2>1. RecoveredState(e, c) = "not_applied"
        BY DEF RecoveredState
    <2> HIDE DEF n
    <2>2. n \in 1 .. Len(l) /\ \A i \in 1 .. Len(j) : i \in 1 .. Len(l)
        BY <1>1 DEF n
    <2> QED
        BY <1>1, <1>5, <2>1, <2>2, RecoveredShape
<1>7. \A i \in 1 .. Len(l) : Reconcilable(l[i], c)
    BY <1>1 DEF Reconcilable, Settled
<1> HIDE DEF R
<1>8. \A k \in Kinds : Done(R, k) = Done(j, k)
    BY <1>1, <1>6 DEF Done
<1>9. CredentialStateValid(R, c)
    BY <1>3, <1>6, <1>8, StateKept
<1> QED
    BY <1>1, <1>2, <1>5, <1>7, <1>9 DEF RecoverySucceeds, R, l

\* The journal after a step of its last request.
LEMMA LastMoves ==
    ASSUME NEW j \in Seq(Entries), j # <<>>, NEW state \in {"dispatched", "completed", "not_applied"},
           \A i, h \in 1 .. Len(j) : j[i].id = j[h].id => i = h
    PROVE  /\ Moved(j, j[Len(j)].id, state) \in Seq(Entries)
           /\ Len(Moved(j, j[Len(j)].id, state)) = Len(j)
           /\ Len(j) \in 1 .. Len(j)
           /\ Moved(j, j[Len(j)].id, state)[Len(j)] = Moves(j[Len(j)], state)
           /\ \A i \in 1 .. Len(j) : i < Len(j) => Moved(j, j[Len(j)].id, state)[i] = j[i]
<1> DEFINE n == Len(j)
           e == Moves(j[n], state)
           l == [j EXCEPT ![n] = e]
<1>1. n \in 1 .. Len(j) /\ j[n] \in Entries /\ n \in Nat
    BY EmptySeq
<1>2. EntryOf(j, j[n].id) = n
    BY <1>1 DEF EntryOf
<1>3. Moved(j, j[n].id, state) = l
    <2>1. Moved(j, j[n].id, state) = [j EXCEPT ![n].state = state, ![n].facts = @ \union {state}]
        BY <1>2 DEF Moved
    <2>2. [j EXCEPT ![n].state = state, ![n].facts = @ \union {state}]
            = [j EXCEPT ![n] = [j[n] EXCEPT !.state = state, !.facts = @ \union {state}]]
        BY <1>1
    <2> QED
        BY <2>1, <2>2 DEF Moves
<1>4. e \in Entries
    BY <1>1, EntryMoves
<1> HIDE DEF e
<1>5. l \in Seq(Entries) /\ Len(l) = n /\ l[n] = e /\ \A i \in 1 .. n : i < n => l[i] = j[i]
    BY <1>1, <1>4
<1> QED
    BY <1>1, <1>3, <1>5 DEF e

\* A dispatched request is not installed yet.
LEMMA DispatchSucceeds ==
    ASSUME NEW j \in Seq(Entries), NEW c, RecoverySucceeds(j, c), Ordered(j), j # <<>>,
           \A i, h \in 1 .. Len(j) : j[i].id = j[h].id => i = h,
           j[Len(j)].state = "prepared", j[Len(j)].expected = c[Kind(j[Len(j)].id)].gen
    PROVE  LET l == Moved(j, j[Len(j)].id, "dispatched")
           IN Ordered(l) /\ RecoverySucceeds(l, c)
<1> DEFINE n == Len(j)
           l == Moved(j, j[n].id, "dispatched")
           R == Recovered(j, c)
           S == Recovered(l, c)
<1>1. /\ l \in Seq(Entries) /\ Len(l) = n /\ n \in 1 .. n /\ l[n] = Moves(j[n], "dispatched")
      /\ \A i \in 1 .. n : i < n => l[i] = j[i]
    BY LastMoves
<1>2. j[n] \in Entries /\ j[n].expected \in Nat
    BY <1>1, EntryKinds
<1>3. /\ l[n].id = j[n].id /\ l[n].expected = j[n].expected /\ l[n].state = "dispatched"
      /\ l[n].facts = j[n].facts \union {"dispatched"}
    BY <1>1, <1>2, EntryMoves
<1>n. n \in Nat
    OBVIOUS
<1> HIDE DEF l, n
<1>a. \A i \in 1 .. n : i < n \/ i = n
    BY <1>n
<1>4. RecordsValid(j) /\ CredentialStateValid(R, c)
    BY DEF RecoverySucceeds
<1>5. EntryValid(l[n])
    <2>1. EntryValid(j[n]) /\ j[n].state = "prepared"
        BY <1>1, <1>4, RecordsValidMeans DEF n
    <2>2. j[n].facts = {}
        BY <2>1 DEF EntryValid
    <2>3. l[n].facts = {"dispatched"}
        BY <1>3, <2>2
    <2> QED
        BY <1>3, <2>3 DEF EntryValid
<1>6. RecordsValid(l)
    <2>1. \A i \in 1 .. n : EntryValid(j[i])
        BY <1>4, RecordsValidMeans DEF n
    <2>2. \A i \in 1 .. n : /\ l[i].id = j[i].id /\ l[i].expected = j[i].expected
                            /\ EntryValid(l[i])
        BY <1>1, <1>3, <1>5, <1>a, <2>1
    <2>3. Len(j) = n
        BY DEF n
    <2> QED
        BY <1>1, <1>4, <2>2, <2>3, RecordsKept
<1>7. Ordered(l)
    BY <1>1 DEF Ordered, n
<1>8. ~Installed(l[n], c)
    BY <1>2, <1>3 DEF Installed, n
<1>9. RecoveredState(l[n], c) = "not_applied" /\ RecoveredState(j[n], c) = "not_applied"
    BY <1>3, <1>8 DEF RecoveredState, n
<1>10. /\ R \in Seq(Entries) /\ Len(R) = n /\ S \in Seq(Entries) /\ Len(S) = n
       /\ \A i \in 1 .. n : R[i].id = j[i].id /\ S[i].id = l[i].id
       /\ \A i \in 1 .. n : i < n => R[i] = j[i] /\ S[i] = l[i]
       /\ R[n].state = "not_applied" /\ S[n].state = "not_applied"
    BY <1>1, <1>4, <1>6, <1>7, <1>9, RecoveredShape DEF Ordered, n
<1> HIDE DEF R, S
<1>11. \A k \in Kinds : Done(S, k) = Done(R, k)
    <2>1. \A i \in 1 .. n : i < n => S[i] = R[i]
        BY <1>1, <1>10
    <2>2. \A i \in 1 .. n : S[i].state = "completed" \/ R[i].state = "completed" => S[i] = R[i]
        BY <1>10, <1>a, <2>1
    <2>3. 1 .. Len(S) = 1 .. n /\ 1 .. Len(R) = 1 .. n
        BY <1>10
    <2> QED
        BY <2>2, <2>3 DEF Done
<1>12. CredentialStateValid(S, c)
    <2>1. \A i \in 1 .. Len(R) : S[i].id = R[i].id
        BY <1>1, <1>3, <1>10, <1>a
    <2> QED
        BY <1>4, <1>10, <1>11, <2>1, StateKept
<1>13. \A i \in 1 .. Len(l) : Reconcilable(l[i], c)
    <2>1. \A i \in 1 .. n : i < n => Reconcilable(l[i], c)
        BY <1>1 DEF RecoverySucceeds, n
    <2>2. Reconcilable(l[n], c)
        BY <1>3 DEF Reconcilable, n
    <2> QED
        BY <1>1, <1>a, <2>1, <2>2
<1> QED
    BY <1>6, <1>7, <1>12, <1>13 DEF RecoverySucceeds, S, l, n

\* A completed request is one that a recovery would complete.
LEMMA CompleteIsRecovered ==
    ASSUME NEW j \in Seq(Entries), NEW c, RecordsValid(j), Ordered(j), j # <<>>,
           \A i, h \in 1 .. Len(j) : j[i].id = j[h].id => i = h,
           j[Len(j)].state = "dispatched", Installed(j[Len(j)], c)
    PROVE  Moved(j, j[Len(j)].id, "completed") = Recovered(j, c)
<1> DEFINE n == Len(j)
           l == Moved(j, j[n].id, "completed")
           R == [i \in 1 .. Len(j) |-> Recovers(j[i], c)]
<1>1. /\ l \in Seq(Entries) /\ Len(l) = n /\ n \in 1 .. n /\ l[n] = Moves(j[n], "completed")
      /\ \A i \in 1 .. n : i < n => l[i] = j[i]
    BY LastMoves
<1>2. Recovered(j, c) = R
    BY DEF Recovered, Recovers, Moves
<1>3. \A i \in 1 .. Len(j) : Recovers(j[i], c) \in Entries
    BY RecordsValidMeans, EntryKinds, RecoveredEntry
<1>4. R \in Seq(Entries) /\ Len(R) = Len(j) /\ \A i \in 1 .. Len(j) : R[i] = Recovers(j[i], c)
    BY <1>3
<1>5. Recovers(j[n], c) = Moves(j[n], "completed")
    BY DEF Recovers, RecoveredState
<1>6. \A i \in 1 .. n : i < n => Recovers(j[i], c) = j[i]
    BY RecordsValidMeans, EntryKinds, RecoveredEntry DEF Ordered
<1>7. \A i \in 1 .. n : i < n \/ i = n
    OBVIOUS
<1> HIDE DEF l, R, n
<1>8. l = R
    BY <1>1, <1>4, <1>5, <1>6, <1>7, SeqEqual DEF n
<1> QED
    BY <1>2, <1>8 DEF l, n

\* A file that takes the effect of the last request is one that a recovery completes.
LEMMA InstallSucceeds ==
    ASSUME NEW j \in Seq(Entries), NEW c \in [Kinds -> Creds], NEW d \in [Kinds -> Creds],
           RecoverySucceeds(j, c), Ordered(j), j # <<>>, j[Len(j)].state = "dispatched",
           NEW k \in Kinds, k = Kind(j[Len(j)].id), c[k].gen = j[Len(j)].expected,
           d[k] = NextState(j[Len(j)].id, c[k]), \A m \in Kinds \ {k} : d[m] = c[m]
    PROVE  Installed(j[Len(j)], d) /\ RecoverySucceeds(j, d)
<1> DEFINE n == Len(j)
           r == j[n].id
           R == Recovered(j, c)
           S == Recovered(j, d)
<1>1. n \in 1 .. n /\ n \in Nat /\ j[n] \in Entries /\ r \in Requests /\ j[n].expected \in Nat
    BY EmptySeq, EntryKinds
<1>2. /\ d[k].gen = j[n].expected + 1 /\ d[k].marker = r
      /\ (d[k].phase # "removed") = Sets(r)
    BY <1>1, RequestKinds DEF NextState
<1>3. Installed(j[n], d) /\ ~Installed(j[n], c)
    BY <1>1, <1>2 DEF Installed
<1>4. RecordsValid(j) /\ CredentialStateValid(R, c)
    BY DEF RecoverySucceeds
<1>5. RecoveredState(j[n], d) = "completed" /\ RecoveredState(j[n], c) = "not_applied"
    BY <1>3 DEF RecoveredState
<1>6. /\ R \in Seq(Entries) /\ Len(R) = n /\ S \in Seq(Entries) /\ Len(S) = n
      /\ \A i \in 1 .. n : R[i].id = j[i].id /\ S[i].id = j[i].id
      /\ \A i \in 1 .. n : i < n => R[i] = j[i] /\ S[i] = j[i]
      /\ R[n].state = "not_applied" /\ S[n].state = "completed"
    BY <1>1, <1>4, <1>5, RecoveredShape DEF Ordered
<1>k. k = Kind(r)
    OBVIOUS
<1> HIDE DEF R, S, n, r
<1>a. \A i \in 1 .. n : i < n \/ i = n
    BY <1>1
<1>7. /\ Done(S, k) = Done(R, k) \union {n} /\ n \notin Done(R, k)
      /\ \A m \in Kinds \ {k} : Done(S, m) = Done(R, m)
    <2>1. S[n].id = r /\ R[n].id = r
        BY <1>1, <1>6 DEF r
    <2>2. \A i \in 1 .. n : i < n => S[i] = R[i]
        BY <1>6
    <2>3. 1 .. Len(S) = 1 .. n /\ 1 .. Len(R) = 1 .. n
        BY <1>6
    <2>4. \A m \in Kinds \ {k} : \A i \in 1 .. n :
            (Kind(S[i].id) = m /\ S[i].state = "completed")
              <=> (Kind(R[i].id) = m /\ R[i].state = "completed")
        BY <1>6, <1>a, <1>k, <2>1, <2>2
    <2>5. \A i \in 1 .. n :
            (Kind(S[i].id) = k /\ S[i].state = "completed")
              <=> i = n \/ (Kind(R[i].id) = k /\ R[i].state = "completed")
        BY <1>6, <1>a, <1>k, <2>1, <2>2
    <2>6. n \notin Done(R, k)
        BY <1>6 DEF Done
    <2>7. Done(S, k) = Done(R, k) \union {n}
        <3>1. \A i : i \in Done(S, k) <=>
                       i \in 1 .. n /\ Kind(S[i].id) = k /\ S[i].state = "completed"
            BY <2>3 DEF Done
        <3>2. \A i : i \in Done(R, k) <=>
                       i \in 1 .. n /\ Kind(R[i].id) = k /\ R[i].state = "completed"
            BY <2>3 DEF Done
        <3>3. n \in 1 .. n
            BY <1>1
        <3>4. \A i : i \in Done(S, k) <=> i \in Done(R, k) \/ i = n
            BY <2>5, <3>1, <3>2, <3>3
        <3> QED
            BY <3>4
    <2>8. \A m \in Kinds \ {k} : Done(S, m) = Done(R, m)
        BY <2>3, <2>4 DEF Done
    <2> QED
        BY <2>6, <2>7, <2>8
<1>8. Cardinality(Done(S, k)) = Cardinality(Done(R, k)) + 1
    <2>1. IsFiniteSet(Done(R, k))
        BY <1>6, DoneIsFinite
    <2>2. PICK A : A = Done(R, k)
        OBVIOUS
    <2>3. IsFiniteSet(A) /\ n \notin A
        BY <1>7, <2>1, <2>2
    <2>4. Cardinality(A \union {n}) = Cardinality(A) + 1
        BY <2>3, FS_AddElement
    <2> QED
        BY <1>7, <2>2, <2>4
<1>9. LastIn(Done(S, k)) = n
    <2>1. \A i \in Done(S, k) : i \in Int /\ i <= n
        BY <1>1, <1>6 DEF Done
    <2>2. n \in Done(S, k)
        BY <1>7
    <2> QED
        BY <1>1, <2>1, <2>2 DEF LastIn
<1>10. CredentialStateValid(S, d)
    <2>1. /\ d[k].gen = Cardinality(Done(S, k)) /\ Done(S, k) # {}
          /\ d[k].marker = S[LastIn(Done(S, k))].id
          /\ (d[k].phase # "removed") = Sets(S[LastIn(Done(S, k))].id)
        <3>1. c[k].gen = Cardinality(Done(R, k))
            BY <1>4, StateValidMeans
        <3>2. S[n].id = r
            BY <1>1, <1>6 DEF r
        <3>3. d[k].gen = Cardinality(Done(S, k))
            BY <1>2, <1>8, <3>1 DEF n
        <3> QED
            BY <1>2, <1>7, <1>9, <3>2, <3>3
    <2>2. ASSUME NEW m \in Kinds \ {k}
          PROVE  /\ d[m].gen = Cardinality(Done(S, m))
                 /\ Done(S, m) = {} => d[m].phase = "removed"
                 /\ Done(S, m) # {} =>
                      /\ d[m].marker = S[LastIn(Done(S, m))].id
                      /\ (d[m].phase # "removed") = Sets(S[LastIn(Done(S, m))].id)
        <3>1. d[m] = c[m] /\ Done(S, m) = Done(R, m)
            BY <1>7
        <3>2. Done(R, m) # {} => LastIn(Done(R, m)) \in 1 .. n
            <4>1. Done(R, m) \subseteq 1 .. n
                BY <1>6 DEF Done
            <4> QED
                BY <1>1, <4>1, HighestIsLast
        <3>3. Done(R, m) # {} => S[LastIn(Done(R, m))].id = R[LastIn(Done(R, m))].id
            BY <1>6, <3>2
        <3> QED
            BY <1>4, <3>1, <3>3, StateValidMeans
    <2> QED
        BY <2>1, <2>2, StateValidMeans
<1>11. \A i \in 1 .. Len(j) : Reconcilable(j[i], d)
    <2>1. \A i \in 1 .. n : i < n => j[i].state \in Settled
        BY DEF Ordered, n
    <2>2. \A i \in 1 .. n : i < n => Reconcilable(j[i], d)
        BY <2>1 DEF Reconcilable, Settled
    <2> QED
        BY <1>3, <1>a, <2>2 DEF Reconcilable, n
<1> QED
    BY <1>3, <1>4, <1>10, <1>11 DEF RecoverySucceeds, S, n

-----------------------------------------------------------------------------
(* What the parts of the invariant say of one request, one message and one *)
(* lease, and the steps that leave them alone.                             *)

LEMMA StateOfMeans ==
    ASSUME JournalInOrder
    PROVE  /\ \A i \in 1 .. Len(journal) : /\ journal[i].id \in Accepted
                                           /\ StateOf(journal[i].id) = journal[i].state
           /\ \A r \in Accepted : \E i \in 1 .. Len(journal) : journal[i].id = r
           /\ \A r : r \notin Accepted => StateOf(r) = "unknown"
<1>1. \A i \in 1 .. Len(journal) : EntryOf(journal, journal[i].id) = i
    BY DEF JournalInOrder, EntryOf
<1> QED
    BY <1>1 DEF Accepted, StateOf

\* The journal keeps its requests and what it settled of them.
JournalStep ==
    /\ Len(journal') >= Len(journal)
    /\ \A i \in 1 .. Len(journal) :
         /\ journal'[i].id = journal[i].id
         /\ journal[i].state \in Settled => journal'[i].state = journal[i].state

LEMMA JournalStepKeeps ==
    ASSUME CredTypeOK, CredTypeOK', JournalInOrder, JournalInOrder', JournalStep
    PROVE  /\ Accepted \subseteq Accepted'
           /\ \A r : StateOf(r) \in Settled => StateOf(r)' = StateOf(r)
<1>1. Len(journal) \in Nat /\ Len(journal') \in Nat /\ 1 .. Len(journal) \subseteq 1 .. Len(journal')
    BY DEF CredTypeOK, JournalStep
<1>2. \A i \in 1 .. Len(journal') : journal'[i].id \in Accepted'
    BY DEF Accepted
<1>3. Accepted \subseteq Accepted'
    <2> SUFFICES ASSUME NEW r \in Accepted PROVE r \in Accepted'
        OBVIOUS
    <2>1. PICK i \in 1 .. Len(journal) : journal[i].id = r
        BY DEF Accepted
    <2> QED
        BY <1>1, <1>2, <2>1 DEF JournalStep
<1>4. ASSUME NEW r, NEW i \in 1 .. Len(journal'), journal'[i].id = r
      PROVE  StateOf(r)' = journal'[i].state
    <2>1. EntryOf(journal', r) = i
        BY <1>4 DEF JournalInOrder, EntryOf
    <2>2. r \in Accepted'
        BY <1>2, <1>4
    <2> QED
        BY <2>1, <2>2 DEF StateOf
<1>5. ASSUME NEW r, StateOf(r) \in Settled PROVE StateOf(r)' = StateOf(r)
    <2>1. r \in Accepted
        BY <1>5, StateOfMeans DEF Settled
    <2>2. PICK i \in 1 .. Len(journal) : journal[i].id = r
        BY <2>1, StateOfMeans
    <2>3. StateOf(r) = journal[i].state
        BY <2>2, StateOfMeans
    <2>4. i \in 1 .. Len(journal') /\ journal'[i].id = r /\ journal'[i].state = journal[i].state
        BY <1>1, <1>5, <2>2, <2>3 DEF JournalStep
    <2> QED
        BY <1>4, <2>3, <2>4
<1> QED
    BY <1>3, <1>5

\* A message by its type, and what is behind it.
LEMMA MessageTypes ==
    ASSUME CredTypeOK, NEW i \in 1 .. Len(queue)
    PROVE  /\ queue[i] \in JobTypes
           /\ queue[i].type \in {"mutate", "begin", "finish"}
           /\ queue[i].type = "mutate" =>
                /\ queue[i].id \in Requests /\ queue[i].gen \in Nat
                /\ Kind(queue[i].id) \in Kinds
           /\ queue[i].type = "begin" =>
                /\ queue[i].kind \in Kinds /\ queue[i].gen \in Nat /\ queue[i].mark \in Nat
           /\ queue[i].type = "finish" =>
                /\ queue[i].gen \in Nat /\ queue[i].mark \in Nat
                /\ queue[i].tokens \in BOOLEAN
           /\ KindOfMessage(queue[i]) \in Kinds
<1>1. queue[i] \in JobTypes
    BY DEF CredTypeOK
<1>2. CASE queue[i] \in [type : {"mutate"}, id : Requests, gen : Nat]
    BY <1>1, <1>2, RequestKinds DEF KindOfMessage
<1>3. CASE queue[i] \in [type : {"begin"}, kind : Kinds, gen : Nat, mark : Nat]
    BY <1>1, <1>3 DEF KindOfMessage
<1>4. CASE queue[i] \in [type : {"finish"}, gen : Nat, mark : Nat, tokens : BOOLEAN]
    BY <1>1, <1>4, RequestKinds DEF KindOfMessage
<1> QED
    BY <1>1, <1>2, <1>3, <1>4 DEF JobTypes

LEMMA Popped ==
    ASSUME CredTypeOK, queue # <<>>
    PROVE  /\ Tail(queue) \in Seq(JobTypes) /\ Len(Tail(queue)) = Len(queue) - 1
           /\ 1 \in 1 .. Len(queue) /\ Len(queue) \in Nat
           /\ \A i \in 1 .. Len(Tail(queue)) :
                i + 1 \in 1 .. Len(queue) /\ Tail(queue)[i] = queue[i + 1]
           /\ \A i \in 1 .. Len(queue) : i # 1 =>
                i - 1 \in 1 .. Len(Tail(queue)) /\ Tail(queue)[i - 1] = queue[i]
<1>1. queue \in Seq(JobTypes)
    BY DEF CredTypeOK
<1>2. Tail(queue) \in Seq(JobTypes) /\ Len(Tail(queue)) = Len(queue) - 1
      /\ \A i \in 1 .. Len(Tail(queue)) : Tail(queue)[i] = queue[i + 1]
    BY <1>1
<1>3. Len(queue) \in Nat /\ Len(queue) # 0
    BY <1>1
<1>4. \A i \in 1 .. Len(queue) : i # 1 => i - 1 \in 1 .. Len(queue) - 1 /\ (i - 1) + 1 = i
    BY <1>3
<1> QED
    BY <1>2, <1>3, <1>4

LEMMA Pushed ==
    ASSUME CredTypeOK, NEW m \in JobTypes
    PROVE  /\ Append(queue, m) \in Seq(JobTypes) /\ Len(Append(queue, m)) = Len(queue) + 1
           /\ Len(queue) \in Nat /\ Append(queue, m)[Len(queue) + 1] = m
           /\ \A i \in 1 .. Len(queue) : Append(queue, m)[i] = queue[i]
           /\ \A i \in 1 .. Len(queue) + 1 : i \in 1 .. Len(queue) \/ i = Len(queue) + 1
BY DEF CredTypeOK

\* The stores stay consistent while nobody writes them and the worker does not move on.
LEMMA StoresKept ==
    ASSUME CredInv, UNCHANGED <<file, mem, sound, journal>>,
           work' = NoWork \/ (work' = work /\ up' = up)
    PROVE  /\ JournalInOrder' /\ RestartReconciles' /\ CopyIsFile' /\ WorkFitsJournal'
           /\ Accepted' = Accepted /\ \A r : StateOf(r)' = StateOf(r)
<1> USE DEF CredInv
<1>1. JournalInOrder' /\ CopyIsFile'
    BY DEF JournalInOrder, CopyIsFile
<1>2. RestartReconciles'
    BY DEF RestartReconciles
<1>3. WorkFitsJournal'
    BY DEF WorkFitsJournal, NoWork, Consistent, Newest, Installed
<1>4. Accepted' = Accepted /\ \A r : StateOf(r)' = StateOf(r)
    BY DEF Accepted, StateOf, EntryOf
<1> QED
    BY <1>1, <1>2, <1>3, <1>4

\* A lease stays alone while its messages stay in order.
LEMMA LeaseStill ==
    ASSUME CredTypeOK, CredTypeOK', NEW k \in Kinds, LeaseIsAlone(k), lease'[k] = lease[k],
           lease'["openai"] = lease["openai"] \/ k # "openai",
           lock'[k] = "lease" <=> lock[k] = "lease", calls' >= calls, queue' = queue,
           work'.at = "idle" \/ (work.at # "idle" /\ work'.id = work.id)
    PROVE  LeaseIsAlone(k)'
<1>1. lease[k].mark \in Nat /\ calls \in Nat /\ calls' \in Nat
    BY DEF CredTypeOK, LeaseStates
<1>2. lease[k].mark <= calls => lease[k].mark <= calls'
    BY <1>1
<1>3. CASE k = "openai"
    BY <1>2, <1>3 DEF LeaseIsAlone, OurBegin, OurFinish, KindOfMessage
<1>4. CASE k # "openai"
    BY <1>2, <1>4 DEF LeaseIsAlone, OurBegin, OurFinish, KindOfMessage
<1> QED
    BY <1>3, <1>4

LEMMA LeasePush ==
    ASSUME CredTypeOK, CredTypeOK', NEW k \in Kinds, LeaseIsAlone(k), lease'[k] = lease[k],
           lease'["openai"] = lease["openai"] \/ k # "openai",
           lock'[k] = "lease" <=> lock[k] = "lease", calls' >= calls, work' = work,
           NEW m \in JobTypes, queue' = Append(queue, m),
           \/ KindOfMessage(m) # k
           \/ lease[k].at \in {"idle", "waiting"} /\ m.type # "begin"
    PROVE  LeaseIsAlone(k)'
<1>1. lease[k].mark \in Nat /\ calls \in Nat /\ calls' \in Nat /\ lease[k].at \in LeaseStages
    BY DEF CredTypeOK, LeaseStates
<1>2. lease[k].mark <= calls => lease[k].mark <= calls'
    BY <1>1
<1> DEFINE n == Len(queue)
<1>3. /\ Len(queue') = n + 1 /\ n \in Nat /\ queue'[n + 1] = m
      /\ \A i \in 1 .. n : queue'[i] = queue[i] /\ i \in 1 .. n + 1
      /\ \A i \in 1 .. n + 1 : i \in 1 .. n \/ i = n + 1
    BY Pushed
<1>4. ~OurBegin(k, m)
    BY DEF OurBegin, KindOfMessage
<1>5. \A i \in 1 .. n : OurBegin(k, queue[i])' <=> OurBegin(k, queue[i])
    BY <1>3 DEF OurBegin
<1>6. \A i \in 1 .. n + 1 : ~OurBegin(k, queue[i])' \/ i \in 1 .. n
    BY <1>3, <1>4 DEF OurBegin
<1>7. \A i \in 1 .. n : KindOfMessage(queue[i])' = KindOfMessage(queue[i])
    BY <1>3 DEF KindOfMessage
<1>8. \A i \in 1 .. n + 1 : i \in 1 .. n \/ KindOfMessage(queue[i])' = KindOfMessage(m)
    BY <1>3 DEF KindOfMessage
<1>9. k = "openai" => \A i \in 1 .. n : OurFinish(queue[i])' <=> OurFinish(queue[i])
    BY <1>3 DEF OurFinish
<1>b. lease[k].at = "begin" =>
        \E p \in 1 .. Len(queue') :
            /\ OurBegin(k, queue[p])' /\ queue'[p].gen = lease'[k].gen
            /\ \A i \in 1 .. Len(queue') : i < p => ~OurBegin(k, queue[i])'
            /\ \A i \in 1 .. Len(queue') : i > p => KindOfMessage(queue[i])' # k
    <2> SUFFICES ASSUME lease[k].at = "begin"
                 PROVE  \E p \in 1 .. Len(queue') :
            /\ OurBegin(k, queue[p])' /\ queue'[p].gen = lease'[k].gen
            /\ \A i \in 1 .. Len(queue') : i < p => ~OurBegin(k, queue[i])'
            /\ \A i \in 1 .. Len(queue') : i > p => KindOfMessage(queue[i])' # k
        OBVIOUS
    <2>1. PICK p \in 1 .. n :
            /\ OurBegin(k, queue[p]) /\ queue[p].gen = lease[k].gen
            /\ \A i \in 1 .. n : i < p => ~OurBegin(k, queue[i])
            /\ \A i \in 1 .. n : i > p => KindOfMessage(queue[i]) # k
        BY DEF LeaseIsAlone
    <2>2. KindOfMessage(m) # k /\ p \in Nat /\ p <= n
        OBVIOUS
    <2>3. p \in 1 .. Len(queue') /\ OurBegin(k, queue[p])' /\ queue'[p].gen = lease'[k].gen
        BY <1>3, <1>5, <2>1
    <2>4. \A i \in 1 .. Len(queue') : i < p => ~OurBegin(k, queue[i])'
        BY <1>3, <1>5, <2>1, <2>2
    <2>5. \A i \in 1 .. Len(queue') : i > p => KindOfMessage(queue[i])' # k
        BY <1>3, <1>7, <1>8, <2>1, <2>2
    <2> QED
        BY <2>3, <2>4, <2>5
<1>f. lease[k].at = "finishing" =>
        \E p \in 1 .. Len(queue') :
            /\ OurFinish(queue[p])'
            /\ \A i \in 1 .. Len(queue') : i # p => KindOfMessage(queue[i])' # k
    <2> SUFFICES ASSUME lease[k].at = "finishing"
                 PROVE  \E p \in 1 .. Len(queue') :
            /\ OurFinish(queue[p])'
            /\ \A i \in 1 .. Len(queue') : i # p => KindOfMessage(queue[i])' # k
        OBVIOUS
    <2>1. PICK p \in 1 .. n : /\ OurFinish(queue[p])
                              /\ \A i \in 1 .. n : i # p => KindOfMessage(queue[i]) # k
        BY DEF LeaseIsAlone
    <2>2. k = "openai" /\ KindOfMessage(m) # k
        BY DEF LeaseIsAlone
    <2>3. p \in 1 .. Len(queue') /\ OurFinish(queue[p])'
        BY <1>3, <1>9, <2>1, <2>2
    <2>4. \A i \in 1 .. Len(queue') : i # p => KindOfMessage(queue[i])' # k
        BY <1>3, <1>7, <1>8, <2>1, <2>2
    <2> QED
        BY <2>3, <2>4
<1>r. lease[k].at \in {"ready", "granted", "exchange"} =>
        \A i \in 1 .. Len(queue') : KindOfMessage(queue[i])' # k
    BY <1>3, <1>7, <1>8 DEF LeaseIsAlone
<1>w. lease[k].at = "waiting" => \A i \in 1 .. Len(queue') : ~OurBegin(k, queue[i])'
    BY <1>3, <1>5, <1>6 DEF LeaseIsAlone
<1> QED
    BY <1>2, <1>b, <1>f, <1>r, <1>w DEF LeaseIsAlone

LEMMA LeasePop ==
    ASSUME CredTypeOK, CredTypeOK', NEW k \in Kinds, LeaseIsAlone(k), lease'[k] = lease[k],
           lease'["openai"] = lease["openai"] \/ k # "openai",
           lock'[k] = "lease" <=> lock[k] = "lease", calls' = calls,
           queue # <<>>, queue' = Tail(queue),
           lease[k].at = "begin" => ~OurBegin(k, queue[1]),
           lease[k].at = "finishing" => KindOfMessage(queue[1]) # k,
           \/ work'.at = "idle" \/ Kind(work'.id) # k
           \/ lease[k].at \in {"idle", "waiting", "begin"}
    PROVE  LeaseIsAlone(k)'
<1>1. /\ Len(queue') = Len(queue) - 1 /\ Len(queue) \in Nat /\ 1 \in 1 .. Len(queue)
      /\ \A i \in 1 .. Len(queue') : i + 1 \in 1 .. Len(queue) /\ queue'[i] = queue[i + 1]
      /\ \A i \in 1 .. Len(queue) : i # 1 => i - 1 \in 1 .. Len(queue') /\ queue'[i - 1] = queue[i]
    BY Popped
<1>2. \A i \in 1 .. Len(queue') : /\ OurBegin(k, queue[i])' <=> OurBegin(k, queue[i + 1])
                                  /\ KindOfMessage(queue[i])' = KindOfMessage(queue[i + 1])
    BY <1>1 DEF OurBegin, KindOfMessage
<1>3. k = "openai" => \A i \in 1 .. Len(queue') : OurFinish(queue[i])' <=> OurFinish(queue[i + 1])
    BY <1>1 DEF OurFinish
<1>b. ASSUME lease[k].at = "begin"
      PROVE  \E p \in 1 .. Len(queue') :
                /\ OurBegin(k, queue[p])' /\ queue'[p].gen = lease'[k].gen
                /\ \A i \in 1 .. Len(queue') : i < p => ~OurBegin(k, queue[i])'
                /\ \A i \in 1 .. Len(queue') : i > p => KindOfMessage(queue[i])' # k
    <2>1. PICK p \in 1 .. Len(queue) :
            /\ OurBegin(k, queue[p]) /\ queue[p].gen = lease[k].gen
            /\ \A i \in 1 .. Len(queue) : i < p => ~OurBegin(k, queue[i])
            /\ \A i \in 1 .. Len(queue) : i > p => KindOfMessage(queue[i]) # k
        BY <1>b DEF LeaseIsAlone
    <2>2. p # 1
        BY <1>b, <2>1
    <2> DEFINE q == p - 1
    <2>3. q \in 1 .. Len(queue') /\ q + 1 = p /\ q \in Int
        BY <1>1, <2>2
    <2>4. OurBegin(k, queue[q])' /\ queue'[q].gen = lease'[k].gen
        BY <1>1, <1>2, <2>1, <2>3
    <2> HIDE DEF q
    <2>5. \A i \in 1 .. Len(queue') : i < q => ~OurBegin(k, queue[i])'
        BY <1>1, <1>2, <2>1, <2>3
    <2>6. \A i \in 1 .. Len(queue') : i > q => KindOfMessage(queue[i])' # k
        BY <1>1, <1>2, <2>1, <2>3
    <2> QED
        BY <2>3, <2>4, <2>5, <2>6
<1>f. ASSUME lease[k].at = "finishing"
      PROVE  \E p \in 1 .. Len(queue') :
                /\ OurFinish(queue[p])'
                /\ \A i \in 1 .. Len(queue') : i # p => KindOfMessage(queue[i])' # k
    <2>1. PICK p \in 1 .. Len(queue) :
            /\ OurFinish(queue[p])
            /\ \A i \in 1 .. Len(queue) : i # p => KindOfMessage(queue[i]) # k
        BY <1>f DEF LeaseIsAlone
    <2>2. k = "openai"
        BY <1>f DEF LeaseIsAlone
    <2>3. p # 1
        BY <1>f, <2>1, <2>2 DEF OurFinish, KindOfMessage
    <2> DEFINE q == p - 1
    <2>4. q \in 1 .. Len(queue') /\ q + 1 = p /\ q \in Int
        BY <1>1, <2>3
    <2>5. OurFinish(queue[q])'
        BY <1>3, <2>1, <2>2, <2>4
    <2> HIDE DEF q
    <2>6. \A i \in 1 .. Len(queue') : i # q => KindOfMessage(queue[i])' # k
        BY <1>1, <1>2, <2>1, <2>4
    <2> QED
        BY <2>4, <2>5, <2>6
<1>r. lease[k].at \in {"ready", "granted", "exchange"} =>
        \A i \in 1 .. Len(queue') : KindOfMessage(queue[i])' # k
    BY <1>1, <1>2 DEF LeaseIsAlone
<1>w. lease[k].at = "waiting" => \A i \in 1 .. Len(queue') : ~OurBegin(k, queue[i])'
    BY <1>1, <1>2 DEF LeaseIsAlone
<1>o. lease[k].at \in {"ready", "granted", "exchange", "finishing"} =>
        work'.at = "idle" \/ Kind(work'.id) # k
    OBVIOUS
<1> QED
    BY <1>b, <1>f, <1>r, <1>w, <1>o DEF LeaseIsAlone

\* Used grants stay marked while no other becomes used and the ChatGPT file stays.
LEMMA GrantsKept ==
    ASSUME GrantsAreMarked, spent' = spent, file'["openai"] = file["openai"],
           lease'["openai"].at = "granted" =>
             lease["openai"].at = "granted" /\ lease'["openai"].grant = lease["openai"].grant,
           Accepted \subseteq Accepted',
           work'.at \in {"dispatch", "apply"} =>
             \/ work.at \in {"dispatch", "apply"} /\ work'.id = work.id
             \/ work'.id \notin Accepted
    PROVE  GrantsAreMarked'
<1>1. \A g \in Grants : Used(g)' => Used(g)
    BY DEF Used
<1>2. \A g \in Grants : Used(g)' =>
        /\ g[1] \in Accepted'
        /\ work'.at \in {"dispatch", "apply"} => g[1] # work'.id
        /\ g[1] = file'["openai"].marker =>
              /\ g[2] <= file'["openai"].rev
              /\ g[2] = file'["openai"].rev => file'["openai"].phase # "active"
    BY <1>1 DEF GrantsAreMarked
<1> QED
    BY <1>2 DEF GrantsAreMarked

-----------------------------------------------------------------------------
(* The initial state.                                                      *)

LEMMA CredInvInit == Init => CredInv
<1> SUFFICES ASSUME Init PROVE CredInv
    OBVIOUS
<1>1. Unconfigured \in Creds /\ Unconfigured.gen = 0 /\ Unconfigured.phase = "removed"
    BY DEF Unconfigured, Creds
<1>2. IdleLease \in LeaseStates /\ IdleLease.at = "idle"
    BY DEF IdleLease, LeaseStates, LeaseStages
<1>3. NoLogin \in LoginStates /\ NoLogin.at = "none"
    BY DEF NoLogin, LoginStates
<1>4. /\ NoWork \in [at : {"idle", "dispatch", "apply", "complete"}, id : Requests \union {None}]
      /\ NoWork.at = "idle"
    BY DEF NoWork
<1>5. CredTypeOK
    <2>1. file \in [Kinds -> Creds] /\ mem \in [Kinds -> Creds] /\ sound \in [Kinds -> BOOLEAN]
        BY <1>1 DEF Init
    <2>2. change \in [Changes -> ChangeStates]
        BY DEF Init, ChangeStates, Answers
    <2>3. lock \in [Kinds -> Requests \union {None, "lease"}]
        BY DEF Init
    <2>4. lease \in [Kinds -> LeaseStates]
        BY <1>2 DEF Init
    <2>5. journal \in Seq(Entries) /\ queue \in Seq(JobTypes) /\ spent \in Seq(Grants)
        BY DEF Init
    <2> QED
        BY <1>3, <1>4, <2>1, <2>2, <2>3, <2>4, <2>5 DEF Init, CredTypeOK
<1>6. JournalInOrder /\ Len(journal) = 0 /\ Len(queue) = 0 /\ Len(spent) = 0 /\ Accepted = {}
    BY DEF Init, JournalInOrder, Accepted
<1>7. RestartReconciles
    <2>1. RecordsValid(journal) /\ \A i \in 1 .. Len(journal) : Reconcilable(journal[i], file)
        BY <1>6 DEF RecordsValid
    <2> DEFINE R == Recovered(journal, file)
    <2>2. Len(R) = 0
        BY <1>5, <1>6, <2>1, RecoveredShape DEF CredTypeOK
    <2>3. \A k \in Kinds : Done(R, k) = {} /\ Cardinality(Done(R, k)) = 0
        BY <2>2, FS_EmptySet DEF Done
    <2>4. \A k \in Kinds : file[k].gen = 0 /\ file[k].phase = "removed"
        BY <1>1 DEF Init
    <2> HIDE DEF R
    <2>5. CredentialStateValid(R, file)
        BY <2>3, <2>4, StateValidMeans
    <2> QED
        BY <2>1, <2>5 DEF R, RestartReconciles, RecoverySucceeds
<1>8. CopyIsFile /\ WorkFitsJournal
    BY <1>1, <1>4 DEF Init, CopyIsFile, WorkFitsJournal
<1>9. LeasesAreAlone
    BY <1>2, <1>6, RequestKinds DEF Init, LeasesAreAlone, LeaseIsAlone
<1>10. GrantsAreMarked /\ RefreshIsSentOnce
    BY <1>2, <1>4, <1>6, RequestKinds DEF Init, GrantsAreMarked, RefreshIsSentOnce, Used
<1>11. LoginsAreFresh
    BY <1>3, <1>4, <1>6 DEF Init, LoginsAreFresh, Queued
<1>12. DownIsEmpty /\ ReadyLeaseIsCurrent
    BY <1>2 DEF Init, DownIsEmpty, ReadyLeaseIsCurrent
<1>13. OutcomesAreTrue
    BY <1>3, RequestKinds DEF Init, OutcomesAreTrue
<1> QED
    BY <1>5, <1>6, <1>7, <1>8, <1>9, <1>10, <1>11, <1>12, <1>13 DEF CredInv

-----------------------------------------------------------------------------
(* What the steps of the worker and of the leases leave to the callers.    *)

\* The queue loses its first message, or gets one that asks for no login, or stays.
QueueQuiet ==
    \/ queue' = queue
    \/ queue # <<>> /\ queue' = Tail(queue)
    \/ \E m \in JobTypes : /\ queue' = Append(queue, m)
                           /\ \A r \in Logins : ~Asks(m, r)

LEMMA QueueQuietKeeps ==
    ASSUME CredTypeOK, QueueQuiet, NEW r \in Logins
    PROVE  /\ Queued(r)' => Queued(r)
           /\ (\A i, h \in 1 .. Len(queue) : Asks(queue[i], r) /\ Asks(queue[h], r) => i = h)
              => (\A i, h \in 1 .. Len(queue) : Asks(queue[i], r) /\ Asks(queue[h], r) => i = h)'
<1>1. CASE queue' = queue
    BY <1>1 DEF Queued, Asks
<1>2. CASE queue # <<>> /\ queue' = Tail(queue)
    <2>1. /\ \A i \in 1 .. Len(queue') :
               i + 1 \in 1 .. Len(queue) /\ queue'[i] = queue[i + 1] /\ i \in Int
        BY <1>2, Popped
    <2>2. Queued(r)' => Queued(r)
        BY <2>1 DEF Queued
    <2>3. ASSUME \A i, h \in 1 .. Len(queue) : Asks(queue[i], r) /\ Asks(queue[h], r) => i = h,
                 NEW i \in 1 .. Len(queue'), NEW h \in 1 .. Len(queue'),
                 Asks(queue'[i], r), Asks(queue'[h], r)
          PROVE  i = h
        <3>1. i + 1 = h + 1
            BY <2>1, <2>3
        <3> QED
            BY <2>1, <3>1
    <2> QED
        BY <2>2, <2>3 DEF Asks
<1>3. ASSUME NEW m \in JobTypes, queue' = Append(queue, m), ~Asks(m, r)
      PROVE  /\ Queued(r)' => Queued(r)
             /\ (\A i, h \in 1 .. Len(queue) : Asks(queue[i], r) /\ Asks(queue[h], r) => i = h)
                => (\A i, h \in 1 .. Len(queue) : Asks(queue[i], r) /\ Asks(queue[h], r) => i = h)'
    <2>1. \A i \in 1 .. Len(queue') :
            \/ i \in 1 .. Len(queue) /\ queue'[i] = queue[i]
            \/ queue'[i] = m
        BY <1>3, Pushed
    <2> QED
        BY <1>3, <2>1 DEF Queued, Asks
<1> QED
    BY <1>1, <1>2, <1>3 DEF QueueQuiet

\* Nothing that a login or a change was told becomes false.
LEMMA LoginsKept ==
    ASSUME CredInv, CredTypeOK', QueueQuiet, stopping => stopping',
           login'.at = login.at, login'.id = login.id, login'.outcome = login.outcome,
           \A r \in Changes : change'[r].answer \in {change[r].answer, None},
           Accepted' = Accepted, \A r : StateOf(r) \in Settled => StateOf(r)' = StateOf(r),
           \/ work' = work \/ work' = NoWork
           \/ work'.id = work.id /\ work.at # "idle" /\ work'.at # "idle"
    PROVE  LoginsAreFresh' /\ OutcomesAreTrue'
<1> USE DEF CredInv
<1>1. \A r \in Logins : Queued(r)' => Queued(r)
    BY QueueQuietKeeps
<1>2. \A r \in Logins : \A i, h \in 1 .. Len(queue') :
        Asks(queue[i], r)' /\ Asks(queue[h], r)' => i = h
    BY QueueQuietKeeps DEF LoginsAreFresh
<1>3. work'.at # "idle" => work'.id = work.id /\ work.at # "idle"
    BY DEF NoWork
<1>4. login.at # "none" => login.id # None /\ login.id \in Logins
    BY DEF LoginsAreFresh, CredTypeOK, LoginStates
<1>5. LoginsAreFresh'
    BY <1>1, <1>2, <1>3, <1>4 DEF LoginsAreFresh
<1>6. \A r : r \notin Accepted => StateOf(r)' = "unknown"
    BY DEF StateOf
<1>7. \A r : StateOf(r) = "unknown" => r \notin Accepted
    <2> SUFFICES ASSUME NEW r, r \in Accepted PROVE StateOf(r) # "unknown"
        OBVIOUS
    <2>1. PICK i \in 1 .. Len(journal) : journal[i].id = r
        BY StateOfMeans
    <2>2. StateOf(r) = journal[i].state /\ journal[i] \in Entries
        BY <2>1, StateOfMeans DEF CredTypeOK
    <2> QED
        BY <2>2 DEF Entries
<1>8. \A r \in Changes : change'[r].answer = "done" => StateOf(r)' = "completed"
    BY RequestKinds DEF OutcomesAreTrue, Settled
<1>9. ASSUME login.at = "ended", login.outcome \notin {"installed", "uncertain"}
      PROVE  /\ StateOf(login.id)' \in {"unknown", "not_applied"}
             /\ ~Queued(login.id)' /\ work'.id # login.id
    <2>1. /\ StateOf(login.id) \in {"unknown", "not_applied"}
          /\ ~Queued(login.id) /\ work.id # login.id
        BY <1>9 DEF OutcomesAreTrue
    <2>2. StateOf(login.id)' \in {"unknown", "not_applied"}
        BY <2>1, <1>6, <1>7 DEF Settled
    <2>3. ~Queued(login.id)' /\ work'.id # login.id
        BY <1>1, <1>4, <1>9, <2>1 DEF NoWork
    <2> QED
        BY <2>2, <2>3
<1>10. login.at = "ended" /\ login.outcome = "installed" => StateOf(login.id)' = "completed"
    BY DEF OutcomesAreTrue, Settled
<1>11. OutcomesAreTrue'
    <2>1. \A r \in Changes : (change[r].answer = "done" => StateOf(r) = "completed")'
        BY <1>8
    <2>2. (login.at = "ended" =>
            /\ login.outcome = "installed" => StateOf(login.id) = "completed"
            /\ login.outcome \notin {"installed", "uncertain"} =>
                  /\ StateOf(login.id) \in {"unknown", "not_applied"}
                  /\ ~Queued(login.id) /\ work.id # login.id)'
        <3>1. \A r : r = login.id => (StateOf(r)' = StateOf(login.id)')
            OBVIOUS
        <3> QED
            BY <1>9, <1>10
    <2> QED
        BY <2>1, <2>2 DEF OutcomesAreTrue
<1> QED
    BY <1>5, <1>11

\* No message begins a lease that was not started.
LEMMA MarksKept ==
    ASSUME CredTypeOK, CredTypeOK', LeasesAreAlone, calls' >= calls,
           \/ queue' = queue
           \/ queue # <<>> /\ queue' = Tail(queue)
           \/ \E m \in JobTypes : /\ queue' = Append(queue, m)
                                  /\ m.type = "begin" => m.mark <= calls'
    PROVE  \A i \in 1 .. Len(queue') : queue'[i].type = "begin" => queue'[i].mark <= calls'
<1>1. calls \in Nat /\ calls' \in Nat
    BY DEF CredTypeOK
<1>2. \A i \in 1 .. Len(queue) : queue[i].type = "begin" => queue[i].mark <= calls'
    <2> SUFFICES ASSUME NEW i \in 1 .. Len(queue), queue[i].type = "begin"
                 PROVE  queue[i].mark <= calls'
        OBVIOUS
    <2>1. queue[i].mark \in Nat /\ queue[i].mark <= calls
        BY MessageTypes DEF LeasesAreAlone
    <2> QED
        BY <1>1, <2>1
<1>3. CASE queue' = queue
    BY <1>2, <1>3
<1>4. CASE queue # <<>> /\ queue' = Tail(queue)
    <2>1. \A i \in 1 .. Len(queue') : i + 1 \in 1 .. Len(queue) /\ queue'[i] = queue[i + 1]
        BY <1>4, Popped
    <2> QED
        BY <1>2, <2>1
<1>5. CASE \E m \in JobTypes : /\ queue' = Append(queue, m)
                               /\ m.type = "begin" => m.mark <= calls'
    <2>1. PICK m \in JobTypes : queue' = Append(queue, m) /\ (m.type = "begin" => m.mark <= calls')
        BY <1>5
    <2>2. \A i \in 1 .. Len(queue') :
            \/ i \in 1 .. Len(queue) /\ queue'[i] = queue[i]
            \/ queue'[i] = m
        BY <2>1, Pushed
    <2> QED
        BY <1>2, <2>1, <2>2
<1> QED
    BY <1>3, <1>4, <1>5

\* The files and the copies stay, and no lease becomes ready.
LEMMA ReadyKept ==
    ASSUME ReadyLeaseIsCurrent, UNCHANGED <<mem, sound>>,
           \A k \in Kinds : lease'[k].at = "ready" =>
             lease[k].at = "ready" /\ lease'[k].gen = lease[k].gen
    PROVE  ReadyLeaseIsCurrent'
BY DEF ReadyLeaseIsCurrent

-----------------------------------------------------------------------------
(* Set and remove operations.                                              *)

LEMMA RequestChangeKeeps ==
    ASSUME CredInv, NEW r \in Changes, RequestChange(r)
    PROVE  CredInv'
<1> USE DEF CredInv
<1>1. UNCHANGED <<up, file, mem, sound, journal, queue, work, lock, lease, login, stopping, spent,
                  faults>> /\ calls' = calls + 1
    BY DEF RequestChange
<1>2. PICK gen \in {change[r].gen, mem[Kind(r)].gen} :
        change' = [change EXCEPT ![r] = [at |-> "waiting", gen |-> gen, answer |-> None]]
    BY DEF RequestChange
<1>3. gen \in Nat
    <2>1. change[r] \in ChangeStates /\ mem[Kind(r)] \in Creds
        BY RequestKinds DEF CredTypeOK
    <2> QED
        BY <2>1 DEF ChangeStates, Creds
<1>4. CredTypeOK'
    <2>1. change' \in [Changes -> ChangeStates]
        BY <1>2, <1>3 DEF CredTypeOK, ChangeStates, Answers
    <2> QED
        BY <1>1, <2>1 DEF CredTypeOK
<1>5. JournalInOrder' /\ RestartReconciles' /\ CopyIsFile' /\ WorkFitsJournal'
      /\ Accepted' = Accepted /\ \A s : StateOf(s)' = StateOf(s)
    BY <1>1, StoresKept
<1>6. LoginsAreFresh' /\ OutcomesAreTrue'
    <2>1. \A s \in Changes : change'[s].answer \in {change[s].answer, None}
        BY <1>2 DEF CredTypeOK
    <2> QED
        BY <1>1, <1>4, <1>5, <2>1, LoginsKept DEF QueueQuiet
<1>7. calls' >= calls
    BY <1>1 DEF CredTypeOK
<1>8. LeasesAreAlone'
    BY <1>1, <1>4, <1>7, LeaseStill, MarksKept DEF LeasesAreAlone
<1>9. GrantsAreMarked' /\ RefreshIsSentOnce'
    BY <1>1, <1>5, GrantsKept DEF RefreshIsSentOnce
<1>10. DownIsEmpty' /\ ReadyLeaseIsCurrent'
    BY <1>1, ReadyKept DEF DownIsEmpty
<1> QED
    BY <1>4, <1>5, <1>6, <1>8, <1>9, <1>10

LEMMA SendChangeKeeps ==
    ASSUME CredInv, NEW r \in Changes, SendChange(r)
    PROVE  CredInv'
<1> USE DEF CredInv
<1>1. UNCHANGED <<up, file, mem, sound, journal, work, lease, login, stopping, spent, calls,
                  faults>> /\ up
    BY DEF SendChange
<1> DEFINE m == [type |-> "mutate", id |-> r, gen |-> change[r].gen]
<1>2. /\ queue' = Append(queue, m) /\ lock' = [lock EXCEPT ![Kind(r)] = r]
      /\ change' = [change EXCEPT ![r].at = "sent"] /\ lock[Kind(r)] = None
    BY DEF SendChange
<1>3. r \in Requests /\ Kind(r) \in Kinds /\ r # "lease" /\ r \notin Logins
    BY RequestKinds
<1>4. m \in JobTypes /\ KindOfMessage(m) = Kind(r) /\ m.type = "mutate" /\ m.id = r
    BY <1>3 DEF CredTypeOK, ChangeStates, JobTypes, KindOfMessage
<1> HIDE DEF m
<1>5. queue' \in Seq(JobTypes)
    BY <1>2, <1>4, Pushed
<1>6. CredTypeOK'
    <2>1. change' \in [Changes -> ChangeStates]
        BY <1>2 DEF CredTypeOK, ChangeStates
    <2>2. lock' \in [Kinds -> Requests \union {None, "lease"}]
        BY <1>2, <1>3 DEF CredTypeOK
    <2> QED
        BY <1>1, <1>5, <2>1, <2>2 DEF CredTypeOK
<1>7. JournalInOrder' /\ RestartReconciles' /\ CopyIsFile' /\ WorkFitsJournal'
      /\ Accepted' = Accepted /\ \A s : StateOf(s)' = StateOf(s)
    BY <1>1, StoresKept
<1>8. LoginsAreFresh' /\ OutcomesAreTrue'
    <2>1. \A s \in Changes : change'[s].answer \in {change[s].answer, None}
        BY <1>2 DEF CredTypeOK
    <2>2. QueueQuiet
        BY <1>2, <1>3, <1>4 DEF QueueQuiet, Asks
    <2> QED
        BY <1>1, <1>6, <1>7, <2>1, <2>2, LoginsKept
<1>9. calls' >= calls
    BY <1>1 DEF CredTypeOK
<1>10. ASSUME NEW k \in Kinds PROVE LeaseIsAlone(k)'
    <2>1. LeaseIsAlone(k)
        BY DEF LeasesAreAlone
    <2>2. lock'[k] = "lease" <=> lock[k] = "lease"
        BY <1>2, <1>3, RequestKinds DEF CredTypeOK
    <2>3. k = Kind(r) => lease[k].at \in {"idle", "waiting"}
        BY <1>2, <2>1, RequestKinds DEF LeaseIsAlone
    <2> QED
        BY <1>1, <1>2, <1>4, <1>6, <1>9, <2>1, <2>2, <2>3, LeasePush
<1>11. LeasesAreAlone'
    BY <1>2, <1>4, <1>6, <1>9, <1>10, MarksKept DEF LeasesAreAlone
<1>12. GrantsAreMarked' /\ RefreshIsSentOnce'
    BY <1>1, <1>7, GrantsKept DEF RefreshIsSentOnce
<1>13. DownIsEmpty' /\ ReadyLeaseIsCurrent'
    BY <1>1, ReadyKept DEF DownIsEmpty
<1> QED
    BY <1>6, <1>7, <1>8, <1>11, <1>12, <1>13

-----------------------------------------------------------------------------
(* Leases.                                                                 *)

LEMMA StartLeaseKeeps ==
    ASSUME CredInv, NEW k \in Kinds, StartLease(k)
    PROVE  CredInv'
<1> USE DEF CredInv
<1>1. UNCHANGED <<up, file, mem, sound, journal, queue, work, lock, change, login, stopping,
                  spent, faults>> /\ up /\ calls' = calls + 1
    BY DEF StartLease
<1> DEFINE l == [at |-> "waiting", gen |-> mem[k].gen, mark |-> calls + 1, grant |-> None]
<1>2. lease' = [lease EXCEPT ![k] = l] /\ lease[k].at = "idle"
    BY DEF StartLease
<1>3. l \in LeaseStates /\ l.at = "waiting" /\ l.mark = calls + 1
    <2>1. mem[k].gen \in Nat /\ calls + 1 \in Nat
        BY DEF CredTypeOK, Creds
    <2> QED
        BY <2>1 DEF LeaseStates, LeaseStages
<1> HIDE DEF l
<1>4. calls \in Nat /\ calls' \in Nat /\ calls' >= calls
    BY <1>1 DEF CredTypeOK
<1>5. CredTypeOK'
    <2>1. lease' \in [Kinds -> LeaseStates]
        BY <1>2, <1>3 DEF CredTypeOK
    <2> QED
        BY <1>1, <1>4, <2>1 DEF CredTypeOK
<1>6. lease'[k] = l /\ \A n \in Kinds : n # k => lease'[n] = lease[n]
    BY <1>2 DEF CredTypeOK
<1>7. JournalInOrder' /\ RestartReconciles' /\ CopyIsFile' /\ WorkFitsJournal'
      /\ Accepted' = Accepted /\ \A s : StateOf(s)' = StateOf(s)
    BY <1>1, StoresKept
<1>8. LoginsAreFresh' /\ OutcomesAreTrue'
    BY <1>1, <1>5, <1>7, LoginsKept DEF QueueQuiet
<1>9. ASSUME NEW n \in Kinds, n # k PROVE LeaseIsAlone(n)'
    <2>1. lease'[n] = lease[n] /\ (lease'["openai"] = lease["openai"] \/ n # "openai")
          /\ LeaseIsAlone(n)
        BY <1>6, <1>9, RequestKinds DEF LeasesAreAlone
    <2> QED
        BY <1>1, <1>4, <1>5, <2>1, LeaseStill
<1>10. LeaseIsAlone(k)'
    <2>1. lock'[k] # "lease" /\ lease'[k].at = "waiting" /\ lease'[k].mark = calls'
        BY <1>1, <1>2, <1>3, <1>6 DEF LeasesAreAlone, LeaseIsAlone
    <2>2. ASSUME NEW i \in 1 .. Len(queue), OurBegin(k, queue[i])' PROVE FALSE
        <3>1. queue[i].type = "begin" /\ queue[i].mark = calls + 1
            BY <1>1, <2>1, <2>2 DEF OurBegin
        <3>2. queue[i].mark <= calls
            BY <3>1 DEF LeasesAreAlone
        <3> QED
            BY <1>4, <3>1, <3>2
    <2> QED
        BY <1>1, <1>4, <2>1, <2>2 DEF LeaseIsAlone
<1>11. LeasesAreAlone'
    BY <1>1, <1>4, <1>5, <1>9, <1>10, MarksKept DEF LeasesAreAlone
<1>12. \A n \in Kinds : lease'[n].at # "waiting" => lease'[n] = lease[n]
    BY <1>3, <1>6
<1>13. GrantsAreMarked' /\ RefreshIsSentOnce'
    BY <1>1, <1>7, <1>12, GrantsKept, RequestKinds DEF RefreshIsSentOnce
<1>14. DownIsEmpty' /\ ReadyLeaseIsCurrent'
    BY <1>1, <1>12, ReadyKept DEF DownIsEmpty
<1> QED
    BY <1>5, <1>7, <1>8, <1>11, <1>13, <1>14

\* The message of a lease is the last one when it is sent.
LEMMA BeginAccessKeeps ==
    ASSUME CredInv, NEW k \in Kinds, BeginAccess(k)
    PROVE  CredInv'
<1> USE DEF CredInv
<1>1. UNCHANGED <<up, file, mem, sound, journal, work, change, login, stopping, spent, calls,
                  faults>> /\ up
    BY DEF BeginAccess
<1> DEFINE m == [type |-> "begin", kind |-> k, gen |-> lease[k].gen, mark |-> lease[k].mark]
<1>2. /\ queue' = Append(queue, m) /\ lock' = [lock EXCEPT ![k] = "lease"]
      /\ lease' = [lease EXCEPT ![k].at = "begin"] /\ lock[k] = None /\ lease[k].at = "waiting"
    BY DEF BeginAccess
<1>3. lease[k] \in LeaseStates
    BY DEF CredTypeOK
<1>4. /\ m \in JobTypes /\ KindOfMessage(m) = k /\ m.type = "begin" /\ m.kind = k
      /\ m.gen = lease[k].gen /\ m.mark = lease[k].mark
    BY <1>3 DEF LeaseStates, JobTypes, KindOfMessage
<1> HIDE DEF m
<1>5. /\ lease'[k] \in LeaseStates /\ lease'[k].at = "begin" /\ lease'[k].gen = lease[k].gen
      /\ lease'[k].mark = lease[k].mark
      /\ \A n \in Kinds : n # k => lease'[n] = lease[n]
    BY <1>2, <1>3 DEF CredTypeOK, LeaseStates, LeaseStages
<1>6. CredTypeOK'
    <2>1. lease' \in [Kinds -> LeaseStates]
        BY <1>2, <1>5 DEF CredTypeOK
    <2>2. lock' \in [Kinds -> Requests \union {None, "lease"}]
        BY <1>2 DEF CredTypeOK
    <2>3. queue' \in Seq(JobTypes)
        BY <1>2, <1>4, Pushed
    <2> QED
        BY <1>1, <2>1, <2>2, <2>3 DEF CredTypeOK
<1>7. JournalInOrder' /\ RestartReconciles' /\ CopyIsFile' /\ WorkFitsJournal'
      /\ Accepted' = Accepted /\ \A s : StateOf(s)' = StateOf(s)
    BY <1>1, StoresKept
<1>8. LoginsAreFresh' /\ OutcomesAreTrue'
    <2>1. QueueQuiet
        BY <1>2, <1>4 DEF QueueQuiet, Asks
    <2> QED
        BY <1>1, <1>6, <1>7, <2>1, LoginsKept
<1>9. calls \in Nat /\ calls' >= calls
    BY <1>1 DEF CredTypeOK
<1>10. ASSUME NEW n \in Kinds, n # k PROVE LeaseIsAlone(n)'
    <2>1. lease'[n] = lease[n] /\ (lease'["openai"] = lease["openai"] \/ n # "openai")
          /\ LeaseIsAlone(n) /\ lock'[n] = lock[n]
        BY <1>2, <1>5, <1>10 DEF LeasesAreAlone, CredTypeOK
    <2> QED
        BY <1>1, <1>2, <1>4, <1>6, <1>9, <1>10, <2>1, LeasePush
<1>11. LeaseIsAlone(k)'
    <2>1. /\ lock'[k] = "lease" /\ lease'[k].mark <= calls'
          /\ \A i \in 1 .. Len(queue) : ~OurBegin(k, queue[i])
        BY <1>1, <1>2, <1>5 DEF LeasesAreAlone, LeaseIsAlone, CredTypeOK
    <2>2. /\ Len(queue') = Len(queue) + 1 /\ Len(queue) \in Nat
          /\ \A i \in 1 .. Len(queue') : i = Len(queue') => queue'[i] = m
          /\ \A i \in 1 .. Len(queue') : i < Len(queue') => i \in 1 .. Len(queue) /\ queue'[i] = queue[i]
        BY <1>2, <1>4, Pushed
    <2>3. \E p \in 1 .. Len(queue') :
            /\ OurBegin(k, queue[p])' /\ queue'[p].gen = lease'[k].gen
            /\ \A i \in 1 .. Len(queue') : i < p => ~OurBegin(k, queue[i])'
            /\ \A i \in 1 .. Len(queue') : i > p => KindOfMessage(queue[i])' # k
        <3>1. PICK p \in 1 .. Len(queue') : p = Len(queue')
            BY <2>2
        <3>2. queue'[p] = m
            BY <2>2, <3>1
        <3>3. OurBegin(k, queue[p])' /\ queue'[p].gen = lease'[k].gen
            BY <1>4, <1>5, <3>2 DEF OurBegin
        <3>4. \A i \in 1 .. Len(queue') : i < p => ~OurBegin(k, queue[i])'
            BY <1>5, <2>1, <2>2, <3>1 DEF OurBegin
        <3>5. \A i \in 1 .. Len(queue') : ~(i > p)
            BY <2>2, <3>1
        <3> QED
            BY <3>3, <3>4, <3>5
    <2> QED
        BY <1>5, <2>1, <2>3 DEF LeaseIsAlone
<1>12. LeasesAreAlone'
    <2>1. m.mark <= calls'
        BY <1>1, <1>2, <1>4 DEF LeasesAreAlone, LeaseIsAlone
    <2> QED
        BY <1>2, <1>4, <1>6, <1>9, <1>10, <1>11, <2>1, MarksKept DEF LeasesAreAlone
<1>13. \A n \in Kinds : lease'[n].at # "begin" => lease'[n] = lease[n]
    BY <1>5
<1>14. GrantsAreMarked' /\ RefreshIsSentOnce'
    BY <1>1, <1>7, <1>13, GrantsKept, RequestKinds DEF RefreshIsSentOnce
<1>15. DownIsEmpty' /\ ReadyLeaseIsCurrent'
    BY <1>1, <1>13, ReadyKept DEF DownIsEmpty
<1> QED
    BY <1>6, <1>7, <1>8, <1>12, <1>14, <1>15

\* A grant that leaves was not sent before.
LEMMA SendGrantKeeps ==
    ASSUME CredInv, SendGrant
    PROVE  CredInv'
<1> USE DEF CredInv
<1>1. UNCHANGED <<up, file, mem, sound, journal, queue, work, lock, change, login, stopping,
                  calls, faults>> /\ up
    BY DEF SendGrant
<1> DEFINE grant == lease["openai"].grant
<1>2. /\ spent' = Append(spent, grant) /\ lease["openai"].at = "granted"
      /\ lease' = [lease EXCEPT !["openai"].at = "exchange"]
    BY DEF SendGrant
<1>3. /\ lease["openai"] \in LeaseStates /\ grant \in Grants /\ "openai" \in Kinds
      /\ LeaseIsAlone("openai")
    <2>1. "openai" \in Kinds
        BY RequestKinds
    <2>2. lease["openai"] \in LeaseStates /\ LeaseIsAlone("openai")
        BY <2>1 DEF CredTypeOK, LeasesAreAlone
    <2> QED
        BY <1>2, <2>1, <2>2 DEF LeaseIsAlone, LeaseStates
<1>4. /\ lease'["openai"] \in LeaseStates /\ lease'["openai"].at = "exchange"
      /\ lease'["openai"].gen = lease["openai"].gen /\ lease'["openai"].mark = lease["openai"].mark
      /\ \A n \in Kinds : n # "openai" => lease'[n] = lease[n]
    BY <1>2, <1>3 DEF CredTypeOK, LeaseStates, LeaseStages
<1> HIDE DEF grant
<1>5. CredTypeOK'
    <2>1. lease' \in [Kinds -> LeaseStates] /\ spent' \in Seq(Grants)
        BY <1>2, <1>3, <1>4 DEF CredTypeOK
    <2> QED
        BY <1>1, <2>1 DEF CredTypeOK
<1>6. JournalInOrder' /\ RestartReconciles' /\ CopyIsFile' /\ WorkFitsJournal'
      /\ Accepted' = Accepted /\ \A s : StateOf(s)' = StateOf(s)
    BY <1>1, StoresKept
<1>7. LoginsAreFresh' /\ OutcomesAreTrue'
    BY <1>1, <1>5, <1>6, LoginsKept DEF QueueQuiet
<1>8. calls' >= calls
    BY <1>1 DEF CredTypeOK
<1>9. ASSUME NEW n \in Kinds, n # "openai" PROVE LeaseIsAlone(n)'
    <2>1. lease'[n] = lease[n] /\ LeaseIsAlone(n)
        BY <1>4, <1>9 DEF LeasesAreAlone
    <2> QED
        BY <1>1, <1>5, <1>8, <1>9, <2>1, LeaseStill
<1>10. LeaseIsAlone("openai")'
    BY <1>1, <1>2, <1>3, <1>4 DEF LeaseIsAlone, KindOfMessage
<1>11. LeasesAreAlone'
    BY <1>1, <1>5, <1>8, <1>9, <1>10, MarksKept DEF LeasesAreAlone
<1>12. /\ Len(spent') = Len(spent) + 1 /\ Len(spent) \in Nat
       /\ \A i \in 1 .. Len(spent') :
            \/ i \in 1 .. Len(spent) /\ spent'[i] = spent[i]
            \/ i = Len(spent) + 1 /\ spent'[i] = grant
    BY <1>2, <1>3 DEF CredTypeOK
<1>13. \A i \in 1 .. Len(spent) : spent[i] # grant
    BY <1>2 DEF GrantsAreMarked, grant
<1>14. RefreshIsSentOnce'
    BY <1>12, <1>13 DEF RefreshIsSentOnce
<1>15. GrantsAreMarked'
    <2>1. \A g \in Grants : Used(g)' => Used(g)
        BY <1>2, <1>4, <1>12 DEF Used, grant
    <2>2. \A g \in Grants : Used(g)' =>
            /\ g[1] \in Accepted'
            /\ work'.at \in {"dispatch", "apply"} => g[1] # work'.id
            /\ g[1] = file'["openai"].marker =>
                  /\ g[2] <= file'["openai"].rev
                  /\ g[2] = file'["openai"].rev => file'["openai"].phase # "active"
        BY <1>1, <1>6, <2>1 DEF GrantsAreMarked
    <2>3. lease'["openai"].at # "granted"
        BY <1>4
    <2> QED
        BY <2>2, <2>3 DEF GrantsAreMarked
<1>16. \A n \in Kinds : lease'[n].at = "ready" => lease'[n] = lease[n]
    BY <1>4
<1>17. DownIsEmpty' /\ ReadyLeaseIsCurrent'
    BY <1>1, <1>16, ReadyKept DEF DownIsEmpty
<1> QED
    BY <1>5, <1>6, <1>7, <1>11, <1>14, <1>15, <1>17

\* Only the answer to a refresh is behind the lease that awaits it.
LEMMA ExchangeGrantKeeps ==
    ASSUME CredInv, ExchangeGrant
    PROVE  CredInv'
<1> USE DEF CredInv
<1>1. UNCHANGED <<up, file, mem, sound, journal, work, lock, change, login, stopping, spent,
                  calls, faults>> /\ up
    BY DEF ExchangeGrant
<1>2. PICK tokens \in BOOLEAN : queue' = Append(queue, FinishMessage(tokens))
    BY DEF ExchangeGrant
<1>3. /\ lease["openai"].at = "exchange"
      /\ lease' = [lease EXCEPT !["openai"].at = "finishing"]
    BY DEF ExchangeGrant
<1>4. /\ "openai" \in Kinds /\ lease["openai"] \in LeaseStates /\ LeaseIsAlone("openai")
    <2>1. "openai" \in Kinds
        BY RequestKinds
    <2> QED
        BY <2>1 DEF CredTypeOK, LeasesAreAlone
<1> DEFINE m == FinishMessage(tokens)
<1>5. m \in JobTypes /\ KindOfMessage(m) = "openai" /\ m.type = "finish" /\ OurFinish(m)
    BY <1>4 DEF LeaseStates, JobTypes, KindOfMessage, FinishMessage, OurFinish
<1>6. m.gen = lease["openai"].gen /\ m.mark = lease["openai"].mark
    BY DEF FinishMessage
<1> HIDE DEF m
<1>7. /\ lease'["openai"] \in LeaseStates /\ lease'["openai"].at = "finishing"
      /\ lease'["openai"].gen = lease["openai"].gen /\ lease'["openai"].mark = lease["openai"].mark
      /\ \A n \in Kinds : n # "openai" => lease'[n] = lease[n]
    BY <1>3, <1>4 DEF CredTypeOK, LeaseStates, LeaseStages
<1>8. queue' = Append(queue, m)
    BY <1>2 DEF m
<1>9. CredTypeOK'
    <2>1. lease' \in [Kinds -> LeaseStates]
        BY <1>3, <1>4, <1>7 DEF CredTypeOK
    <2>2. queue' \in Seq(JobTypes)
        BY <1>5, <1>8, Pushed
    <2> QED
        BY <1>1, <2>1, <2>2 DEF CredTypeOK
<1>10. JournalInOrder' /\ RestartReconciles' /\ CopyIsFile' /\ WorkFitsJournal'
       /\ Accepted' = Accepted /\ \A s : StateOf(s)' = StateOf(s)
    BY <1>1, StoresKept
<1>11. LoginsAreFresh' /\ OutcomesAreTrue'
    <2>1. QueueQuiet
        BY <1>5, <1>8 DEF QueueQuiet, Asks
    <2> QED
        BY <1>1, <1>9, <1>10, <2>1, LoginsKept
<1>12. calls' >= calls
    BY <1>1 DEF CredTypeOK
<1>13. ASSUME NEW n \in Kinds, n # "openai" PROVE LeaseIsAlone(n)'
    <2>1. lease'[n] = lease[n] /\ LeaseIsAlone(n)
        BY <1>7, <1>13 DEF LeasesAreAlone
    <2> QED
        BY <1>1, <1>5, <1>8, <1>9, <1>12, <1>13, <2>1, LeasePush
<1>14. LeaseIsAlone("openai")'
    <2>1. /\ Len(queue') = Len(queue) + 1 /\ Len(queue) \in Nat
          /\ queue'[Len(queue')] = m
          /\ \A i \in 1 .. Len(queue') : i # Len(queue') => i \in 1 .. Len(queue) /\ queue'[i] = queue[i]
        BY <1>5, <1>8, Pushed
    <2>2. \A i \in 1 .. Len(queue) : KindOfMessage(queue[i]) # "openai"
        BY <1>3, <1>4 DEF LeaseIsAlone
    <2>3. PICK p \in 1 .. Len(queue') : p = Len(queue')
        BY <2>1
    <2>4. OurFinish(queue[p])'
        BY <1>5, <1>6, <1>7, <2>1, <2>3 DEF OurFinish
    <2>5. \A i \in 1 .. Len(queue') : i # p => KindOfMessage(queue[i])' # "openai"
        BY <2>1, <2>2, <2>3 DEF KindOfMessage
    <2>6. \E q \in 1 .. Len(queue') :
            /\ OurFinish(queue[q])'
            /\ \A i \in 1 .. Len(queue') : i # q => KindOfMessage(queue[i])' # "openai"
        BY <2>4, <2>5
    <2> QED
        BY <1>1, <1>3, <1>4, <1>7, <2>6 DEF LeaseIsAlone
<1>15. LeasesAreAlone'
    BY <1>5, <1>8, <1>9, <1>12, <1>13, <1>14, MarksKept DEF LeasesAreAlone
<1>16. \A n \in Kinds : lease'[n].at \in {"ready", "granted"} => lease'[n] = lease[n]
    BY <1>7
<1>17. GrantsAreMarked' /\ RefreshIsSentOnce'
    BY <1>1, <1>4, <1>10, <1>16, GrantsKept DEF RefreshIsSentOnce
<1>18. DownIsEmpty' /\ ReadyLeaseIsCurrent'
    BY <1>1, <1>16, ReadyKept DEF DownIsEmpty
<1> QED
    BY <1>9, <1>10, <1>11, <1>15, <1>17, <1>18

\* A lease that gives up leaves its message behind, and the lock free.
LEMMA AbandonLeaseKeeps ==
    ASSUME CredInv, NEW k \in Kinds, AbandonLease(k)
    PROVE  CredInv'
<1> USE DEF CredInv
<1>1. UNCHANGED <<up, file, mem, sound, journal, work, change, login, stopping, spent, calls,
                  faults>> /\ up /\ lease' = [lease EXCEPT ![k] = IdleLease]
    BY DEF AbandonLease
<1>2. IdleLease \in LeaseStates /\ IdleLease.at = "idle"
    BY DEF IdleLease, LeaseStates, LeaseStages
<1>3. lease'[k] = IdleLease /\ \A n \in Kinds : n # k => lease'[n] = lease[n]
    BY <1>1 DEF CredTypeOK
<1>4. /\ lock' \in [Kinds -> Requests \union {None, "lease"}] /\ lock'[k] # "lease"
      /\ \A n \in Kinds : n # k => lock'[n] = lock[n]
      /\ \A n \in Kinds : lock[n] = None => lock'[n] = None
    <2>1. CASE lock[k] = "lease"
        BY <2>1, RequestKinds DEF AbandonLease, Release, CredTypeOK
    <2>2. CASE lock[k] # "lease"
        BY <2>2 DEF AbandonLease, CredTypeOK
    <2> QED
        BY <2>1, <2>2
<1>5. LeaseIsAlone(k) /\ lease[k] \in LeaseStates
    BY DEF LeasesAreAlone, CredTypeOK
<1>6. \/ queue' = queue
      \/ \E m \in JobTypes : /\ queue' = Append(queue, m) /\ m.type = "finish"
                             /\ KindOfMessage(m) = k
    <2>1. CASE lease[k].at = "exchange"
        <3>1. k = "openai"
            BY <1>5, <2>1 DEF LeaseIsAlone
        <3> DEFINE m == FinishMessage(FALSE)
        <3>2. m \in JobTypes /\ m.type = "finish" /\ KindOfMessage(m) = "openai"
            BY <1>5, <3>1 DEF FinishMessage, JobTypes, LeaseStates, KindOfMessage
        <3>3. queue' = Append(queue, m)
            BY <2>1 DEF AbandonLease
        <3> QED
            BY <3>1, <3>2, <3>3
    <2>2. CASE lease[k].at # "exchange"
        BY <2>2 DEF AbandonLease
    <2> QED
        BY <2>1, <2>2
<1>7. CredTypeOK'
    <2>1. lease' \in [Kinds -> LeaseStates]
        BY <1>1, <1>2 DEF CredTypeOK
    <2>2. queue' \in Seq(JobTypes)
        <3>1. queue \in Seq(JobTypes)
            BY DEF CredTypeOK
        <3> QED
            BY <1>6, <3>1, AppendProperties
    <2> QED
        BY <1>1, <1>4, <2>1, <2>2 DEF CredTypeOK
<1>8. JournalInOrder' /\ RestartReconciles' /\ CopyIsFile' /\ WorkFitsJournal'
      /\ Accepted' = Accepted /\ \A s : StateOf(s)' = StateOf(s)
    BY <1>1, StoresKept
<1>9. LoginsAreFresh' /\ OutcomesAreTrue'
    <2>1. QueueQuiet
        BY <1>6 DEF QueueQuiet, Asks
    <2> QED
        BY <1>1, <1>7, <1>8, <2>1, LoginsKept
<1>10. calls' >= calls
    BY <1>1 DEF CredTypeOK
<1>11. ASSUME NEW n \in Kinds, n # k PROVE LeaseIsAlone(n)'
    <2>1. lease'[n] = lease[n] /\ (lease'["openai"] = lease["openai"] \/ n # "openai")
          /\ LeaseIsAlone(n) /\ lock'[n] = lock[n]
        BY <1>3, <1>4, <1>11 DEF LeasesAreAlone
    <2> QED
        BY <1>1, <1>6, <1>7, <1>10, <1>11, <2>1, LeasePush, LeaseStill DEF CredTypeOK
<1>12. LeaseIsAlone(k)'
    BY <1>2, <1>3, <1>4 DEF LeaseIsAlone
<1>13. LeasesAreAlone'
    BY <1>6, <1>7, <1>10, <1>11, <1>12, MarksKept DEF LeasesAreAlone
<1>14. \A n \in Kinds : lease'[n].at # "idle" => lease'[n] = lease[n]
    BY <1>2, <1>3
<1>15. GrantsAreMarked' /\ RefreshIsSentOnce'
    BY <1>1, <1>8, <1>14, GrantsKept, RequestKinds DEF RefreshIsSentOnce
<1>16. DownIsEmpty' /\ ReadyLeaseIsCurrent'
    BY <1>1, <1>14, ReadyKept DEF DownIsEmpty
<1> QED
    BY <1>7, <1>8, <1>9, <1>13, <1>15, <1>16

-----------------------------------------------------------------------------
(* Logins.                                                                 *)

\* A login does nothing to the stores and the leases until it sends its change.
LEMMA LoginElsewhere ==
    ASSUME CredInv, CredTypeOK', calls' >= calls, up,
           UNCHANGED <<up, file, mem, sound, journal, queue, work, lease, spent>>,
           \A k \in Kinds : lock'[k] = "lease" <=> lock[k] = "lease"
    PROVE  /\ JournalInOrder' /\ RestartReconciles' /\ CopyIsFile' /\ WorkFitsJournal'
           /\ LeasesAreAlone' /\ GrantsAreMarked' /\ RefreshIsSentOnce'
           /\ DownIsEmpty' /\ ReadyLeaseIsCurrent'
           /\ Accepted' = Accepted /\ \A s : StateOf(s)' = StateOf(s)
<1> USE DEF CredInv
<1>1. JournalInOrder' /\ RestartReconciles' /\ CopyIsFile' /\ WorkFitsJournal'
      /\ Accepted' = Accepted /\ \A s : StateOf(s)' = StateOf(s)
    BY StoresKept
<1>2. LeasesAreAlone'
    BY LeaseStill, MarksKept DEF LeasesAreAlone
<1>3. GrantsAreMarked' /\ RefreshIsSentOnce'
    BY <1>1, GrantsKept DEF RefreshIsSentOnce
<1>4. DownIsEmpty' /\ ReadyLeaseIsCurrent'
    BY ReadyKept DEF DownIsEmpty
<1> QED
    BY <1>1, <1>2, <1>3, <1>4

\* A login that has not sent its change goes on, or ends without one.
LEMMA EarlyLogin ==
    ASSUME CredInv, CredTypeOK', UNCHANGED <<journal, queue, work, change>>,
           login.at \in {"callback", "exchange", "acquiring"}, login'.id = login.id,
           \/ login'.at \in {"callback", "exchange", "acquiring"}
           \/ login'.at = "ended" /\ login'.outcome # "installed"
    PROVE  LoginsAreFresh' /\ OutcomesAreTrue'
<1> USE DEF CredInv
<1>1. Accepted' = Accepted /\ (\A s : StateOf(s)' = StateOf(s)) /\ \A s : Queued(s)' = Queued(s)
    BY DEF Accepted, StateOf, EntryOf, Queued
<1>2. login.id # None /\ login.id \notin Accepted /\ ~Queued(login.id)
    BY DEF LoginsAreFresh
<1>3. \A r \in Logins : ~Queued(r) /\ ~(work.at # "idle" /\ work.id = r)
    BY DEF LoginsAreFresh
<1>4. \A r \in Logins : ~Queued(r)' /\ ~(work'.at # "idle" /\ work'.id = r)
    BY <1>1, <1>3
<1>5. login'.id # None /\ login'.id \notin Accepted' /\ ~Queued(login.id)'
    BY <1>1, <1>2 DEF Queued
<1>6. \A r \in Logins : \A i, h \in 1 .. Len(queue') :
        Asks(queue[i], r)' /\ Asks(queue[h], r)' => i = h
    BY DEF LoginsAreFresh, Asks
<1>7. LoginsAreFresh'
    BY <1>4, <1>5, <1>6 DEF LoginsAreFresh
<1>8. login.id \in Logins /\ (work.at = "idle" => work.id = None)
    BY <1>2 DEF CredTypeOK, LoginStates, WorkFitsJournal, NoWork
<1>9. work'.id # login'.id
    BY <1>2, <1>3, <1>8
<1>10. StateOf(login.id)' = "unknown"
    BY <1>5 DEF StateOf
<1>11. \A r \in Changes : change'[r].answer = "done" => StateOf(r)' = "completed"
    BY <1>1 DEF OutcomesAreTrue
<1>12. OutcomesAreTrue'
    BY <1>5, <1>9, <1>10, <1>11 DEF OutcomesAreTrue
<1> QED
    BY <1>7, <1>12

LEMMA EarlyLoginStepKeeps ==
    ASSUME CredInv, ReceiveCallback \/ ExchangeCode \/ AuthorizationEnds
    PROVE  CredInv'
<1> USE DEF CredInv
<1>1. UNCHANGED <<up, file, mem, sound, journal, queue, work, lock, change, lease, stopping,
                  spent, calls, faults>> /\ up /\ login.at \in {"callback", "exchange"}
    BY DEF ReceiveCallback, ExchangeCode, AuthorizationEnds
<1>2. login \in LoginStates /\ login.seen + 1 \in Nat
    BY DEF CredTypeOK, LoginStates
<1>3. \/ login' = [login EXCEPT !.seen = @ + 1]
      \/ login' = [login EXCEPT !.at = "exchange"]
      \/ login' = [login EXCEPT !.at = "acquiring"]
      \/ \E outcome \in {"unavailable", "denied", "exchange_failed", "cancelled", "expired"} :
            login' = [login EXCEPT !.at = "ended", !.outcome = outcome]
    BY DEF ReceiveCallback, ExchangeCode, AuthorizationEnds, EndLogin
<1>4. /\ login' \in LoginStates /\ login'.id = login.id
      /\ \/ login'.at \in {"callback", "exchange", "acquiring"}
         \/ login'.at = "ended" /\ login'.outcome # "installed"
    <2>1. CASE login' = [login EXCEPT !.seen = @ + 1]
        BY <1>1, <1>2, <2>1 DEF LoginStates
    <2>2. CASE login' = [login EXCEPT !.at = "exchange"] \/ login' = [login EXCEPT !.at = "acquiring"]
        BY <1>2, <2>2 DEF LoginStates
    <2>3. ASSUME NEW outcome \in {"unavailable", "denied", "exchange_failed", "cancelled", "expired"},
                 login' = [login EXCEPT !.at = "ended", !.outcome = outcome]
          PROVE  login' \in LoginStates /\ login'.id = login.id
                 /\ login'.at = "ended" /\ login'.outcome # "installed"
        BY <1>2, <2>3 DEF LoginStates
    <2> QED
        BY <1>3, <2>1, <2>2, <2>3
<1>5. CredTypeOK'
    BY <1>1, <1>4 DEF CredTypeOK
<1>6. calls' >= calls
    BY <1>1 DEF CredTypeOK
<1>7. LoginsAreFresh' /\ OutcomesAreTrue'
    BY <1>1, <1>4, <1>5, EarlyLogin
<1> QED
    BY <1>1, <1>5, <1>6, <1>7, LoginElsewhere

LEMMA CancelOrShutdownKeeps ==
    ASSUME CredInv, CancelLogin \/ BeginShutdown
    PROVE  CredInv'
<1> USE DEF CredInv
<1>1. UNCHANGED <<up, file, mem, sound, journal, queue, work, lock, change, lease, spent, calls,
                  faults>> /\ up
    BY DEF CancelLogin, BeginShutdown
<1>2. login' = login \/ login' = [login EXCEPT !.cancelled = TRUE]
    BY DEF CancelLogin, BeginShutdown
<1>3. /\ login' \in LoginStates /\ login'.id = login.id
      /\ login'.at = login.at /\ login'.outcome = login.outcome
    BY <1>2 DEF CredTypeOK, LoginStates
<1>4. stopping' \in BOOLEAN /\ (stopping => stopping')
    BY DEF CredTypeOK, CancelLogin, BeginShutdown
<1>5. CredTypeOK'
    BY <1>1, <1>3, <1>4 DEF CredTypeOK
<1>6. calls' >= calls
    BY <1>1 DEF CredTypeOK
<1>7. /\ JournalInOrder' /\ RestartReconciles' /\ CopyIsFile' /\ WorkFitsJournal'
      /\ LeasesAreAlone' /\ GrantsAreMarked' /\ RefreshIsSentOnce'
      /\ DownIsEmpty' /\ ReadyLeaseIsCurrent'
      /\ Accepted' = Accepted /\ \A s : StateOf(s)' = StateOf(s)
    BY <1>1, <1>5, <1>6, LoginElsewhere
<1>8. LoginsAreFresh' /\ OutcomesAreTrue'
    BY <1>1, <1>3, <1>4, <1>5, <1>7, LoginsKept DEF QueueQuiet
<1> QED
    BY <1>5, <1>7, <1>8

LEMMA StartLoginKeeps ==
    ASSUME CredInv, NEW r \in Logins, StartLogin(r)
    PROVE  CredInv'
<1> USE DEF CredInv
<1>1. UNCHANGED <<up, file, mem, sound, journal, queue, work, lock, change, lease, stopping,
                  spent, faults>> /\ up /\ ~stopping /\ ~LoginRuns /\ r \notin Accepted
      /\ calls' = calls + 1
    BY DEF StartLogin
<1>2. login' = [NoLogin EXCEPT !.at = "callback", !.id = r, !.gen = mem["openai"].gen]
    BY DEF StartLogin
<1>3. mem["openai"].gen \in Nat /\ calls' \in Nat /\ calls' >= calls
    BY <1>1, RequestKinds DEF CredTypeOK, Creds
<1>4. login' \in LoginStates /\ login'.id = r /\ login'.at = "callback"
    BY <1>2, <1>3 DEF NoLogin, LoginStates
<1>5. CredTypeOK'
    BY <1>1, <1>3, <1>4 DEF CredTypeOK
<1>6. /\ JournalInOrder' /\ RestartReconciles' /\ CopyIsFile' /\ WorkFitsJournal'
      /\ LeasesAreAlone' /\ GrantsAreMarked' /\ RefreshIsSentOnce'
      /\ DownIsEmpty' /\ ReadyLeaseIsCurrent'
      /\ Accepted' = Accepted /\ \A s : StateOf(s)' = StateOf(s)
    BY <1>1, <1>3, <1>5, LoginElsewhere
<1>7. \A s \in Logins : ~Queued(s) /\ ~(work.at # "idle" /\ work.id = s)
    BY <1>1 DEF LoginsAreFresh, LoginRuns
<1>8. \A s \in Logins : ~Queued(s)' /\ ~(work'.at # "idle" /\ work'.id = s)
    BY <1>1, <1>7 DEF Queued
<1>9. \A s \in Logins : \A i, h \in 1 .. Len(queue') :
        Asks(queue[i], s)' /\ Asks(queue[h], s)' => i = h
    BY <1>1 DEF LoginsAreFresh, Asks
<1>10. r # None /\ ~Queued(r)' /\ login'.id \notin Accepted' /\ ~Queued(login.id)'
    BY <1>1, <1>4, <1>6, <1>8, RequestKinds DEF Queued
<1>11. LoginsAreFresh'
    BY <1>4, <1>8, <1>9, <1>10 DEF LoginsAreFresh
<1>12. OutcomesAreTrue'
    BY <1>1, <1>4, <1>6 DEF OutcomesAreTrue
<1> QED
    BY <1>5, <1>6, <1>11, <1>12

\* A login whose installation is overtaken by its bound is uncertain, and the last one.
LEMMA InstallationTimeoutKeeps ==
    ASSUME CredInv, InstallationTimeout
    PROVE  CredInv'
<1> USE DEF CredInv
<1>1. UNCHANGED <<up, file, mem, sound, journal, queue, work, change, lease, spent, calls,
                  faults>> /\ up /\ stopping' = TRUE
      /\ login.at \in {"acquiring", "installing"}
      /\ login' = [login EXCEPT !.at = "ended", !.outcome = "uncertain"]
    BY DEF InstallationTimeout, EndLogin
<1>2. /\ login' \in LoginStates /\ login'.id = login.id /\ login'.at = "ended"
      /\ login'.outcome = "uncertain"
    BY <1>1 DEF CredTypeOK, LoginStates
<1>3. login.id # "lease"
    BY RequestKinds DEF CredTypeOK, LoginStates
<1>4. /\ lock' \in [Kinds -> Requests \union {None, "lease"}]
      /\ \A k \in Kinds : lock'[k] = "lease" <=> lock[k] = "lease"
    <2>1. CASE lock["openai"] = login.id
        BY <1>3, <2>1, RequestKinds DEF InstallationTimeout, Release, CredTypeOK
    <2>2. CASE lock["openai"] # login.id
        BY <2>2 DEF InstallationTimeout, CredTypeOK
    <2> QED
        BY <2>1, <2>2
<1>5. CredTypeOK'
    BY <1>1, <1>2, <1>4 DEF CredTypeOK
<1>6. calls' >= calls
    BY <1>1 DEF CredTypeOK
<1>7. /\ JournalInOrder' /\ RestartReconciles' /\ CopyIsFile' /\ WorkFitsJournal'
      /\ LeasesAreAlone' /\ GrantsAreMarked' /\ RefreshIsSentOnce'
      /\ DownIsEmpty' /\ ReadyLeaseIsCurrent'
      /\ Accepted' = Accepted /\ \A s : StateOf(s)' = StateOf(s)
    BY <1>1, <1>4, <1>5, <1>6, LoginElsewhere
<1>8. LoginsAreFresh' /\ OutcomesAreTrue'
    <2>1. CASE login.at = "acquiring"
        BY <1>1, <1>2, <1>5, <2>1, EarlyLogin
    <2>2. CASE login.at = "installing"
        <3>1. LoginsAreFresh'
            BY <1>1, <1>2, <1>7, <2>2 DEF LoginsAreFresh, Queued, Asks
        <3>2. OutcomesAreTrue'
            BY <1>1, <1>2, <1>7 DEF OutcomesAreTrue
        <3> QED
            BY <3>1, <3>2
    <2> QED
        BY <1>1, <2>1, <2>2
<1> QED
    BY <1>5, <1>7, <1>8

LEMMA InstallLoginKeeps ==
    ASSUME CredInv, InstallLogin
    PROVE  CredInv'
<1> USE DEF CredInv
<1>1. UNCHANGED <<up, file, mem, sound, journal, work, change, lease, stopping, spent, calls,
                  faults>> /\ up /\ login.at = "acquiring" /\ lock["openai"] = None
    BY DEF InstallLogin
<1> DEFINE m == [type |-> "mutate", id |-> login.id, gen |-> login.gen]
<1>2. /\ queue' = Append(queue, m) /\ lock' = [lock EXCEPT !["openai"] = login.id]
      /\ login' = [login EXCEPT !.at = "installing"]
    BY DEF InstallLogin
<1>3. login \in LoginStates /\ login.id \in Logins /\ login.id \in Requests /\ login.id # "lease"
      /\ Kind(login.id) = "openai" /\ login.id \notin Accepted /\ ~Queued(login.id)
    <2>1. login \in LoginStates /\ login.id # None /\ login.id \notin Accepted
          /\ ~Queued(login.id)
        BY <1>1 DEF CredTypeOK, LoginsAreFresh
    <2>2. login.id \in Logins
        BY <2>1 DEF LoginStates
    <2> QED
        BY <2>1, <2>2, RequestKinds
<1>4. m \in JobTypes /\ KindOfMessage(m) = "openai" /\ m.type = "mutate" /\ m.id = login.id
    BY <1>3 DEF LoginStates, JobTypes, KindOfMessage
<1> HIDE DEF m
<1>5. login' \in LoginStates /\ login'.id = login.id /\ login'.at = "installing"
    BY <1>2, <1>3 DEF LoginStates
<1>6. CredTypeOK'
    <2>1. lock' \in [Kinds -> Requests \union {None, "lease"}]
        BY <1>2, <1>3 DEF CredTypeOK
    <2>2. queue' \in Seq(JobTypes)
        BY <1>2, <1>4, Pushed
    <2> QED
        BY <1>1, <1>5, <2>1, <2>2 DEF CredTypeOK
<1>7. JournalInOrder' /\ RestartReconciles' /\ CopyIsFile' /\ WorkFitsJournal'
      /\ Accepted' = Accepted /\ \A s : StateOf(s)' = StateOf(s)
    BY <1>1, StoresKept
<1>8. calls' >= calls
    BY <1>1 DEF CredTypeOK
<1>9. ASSUME NEW k \in Kinds PROVE LeaseIsAlone(k)'
    <2>1. LeaseIsAlone(k)
        BY DEF LeasesAreAlone
    <2>2. lock'[k] = "lease" <=> lock[k] = "lease"
        BY <1>1, <1>2, <1>3, RequestKinds DEF CredTypeOK
    <2>3. k = "openai" => lease[k].at \in {"idle", "waiting"}
        BY <1>1, <2>1, RequestKinds DEF LeaseIsAlone
    <2> QED
        BY <1>1, <1>2, <1>4, <1>6, <1>8, <2>1, <2>2, <2>3, LeasePush
<1>10. LeasesAreAlone'
    BY <1>2, <1>4, <1>6, <1>8, <1>9, MarksKept DEF LeasesAreAlone
<1>11. GrantsAreMarked' /\ RefreshIsSentOnce'
    BY <1>1, <1>7, GrantsKept DEF RefreshIsSentOnce
<1>12. DownIsEmpty' /\ ReadyLeaseIsCurrent'
    BY <1>1, ReadyKept DEF DownIsEmpty
<1>13. /\ Len(queue') = Len(queue) + 1 /\ Len(queue) \in Nat
       /\ \A i \in 1 .. Len(queue') :
            \/ i \in 1 .. Len(queue) /\ queue'[i] = queue[i]
            \/ i = Len(queue) + 1 /\ queue'[i] = m
    BY <1>2, <1>4, Pushed
<1>14. \A s \in Logins : ~Queued(s) /\ ~(work.at # "idle" /\ work.id = s)
    BY <1>1 DEF LoginsAreFresh
<1>15. \A s \in Logins : \A i \in 1 .. Len(queue') :
         Asks(queue[i], s)' => i = Len(queue) + 1 /\ s = login.id
    BY <1>4, <1>13, <1>14 DEF Asks, Queued
<1>16. \A s \in Logins : Queued(s)' => s = login.id
    BY <1>15 DEF Queued, Asks
<1>17. LoginsAreFresh'
    <2>1. login'.id # None
        BY <1>3, <1>5, RequestKinds
    <2>2. \A s \in Logins : \A i, h \in 1 .. Len(queue') :
            Asks(queue[i], s)' /\ Asks(queue[h], s)' => i = h
        BY <1>15
    <2> QED
        BY <1>1, <1>3, <1>5, <1>7, <1>14, <1>16, <2>1, <2>2 DEF LoginsAreFresh
<1>18. OutcomesAreTrue'
    BY <1>1, <1>5, <1>7 DEF OutcomesAreTrue
<1> QED
    BY <1>6, <1>7, <1>10, <1>11, <1>12, <1>17, <1>18

-----------------------------------------------------------------------------
(* The process.                                                            *)

\* A recovery settles the journal and forgets no request.
LEMMA RecoverStep ==
    ASSUME journal \in Seq(Entries), JournalInOrder, NEW c, RecoverySucceeds(journal, c),
           NEW R, R = Recovered(journal, c)
    PROVE  /\ R \in Seq(Entries) /\ Len(R) = Len(journal) /\ RecoverySucceeds(R, c)
           /\ \A i \in 1 .. Len(R) : R[i].state \in Settled /\ R[i].id = journal[i].id
           /\ \A i, h \in 1 .. Len(R) : R[i].id = R[h].id => i = h
           /\ journal' = R => JournalInOrder' /\ JournalStep /\ Accepted' = Accepted
<1>1. Ordered(journal)
    BY DEF JournalInOrder, Ordered
<1>2. /\ R \in Seq(Entries) /\ Len(R) = Len(journal) /\ RecoverySucceeds(R, c)
      /\ \A i \in 1 .. Len(journal) : R[i].state \in Settled /\ R[i].id = journal[i].id
    BY <1>1, RecoveryAgain
<1>3. \A i \in 1 .. Len(journal) : journal[i].state \in Settled => R[i] = journal[i]
    <2>1. RecordsValid(journal)
        BY DEF RecoverySucceeds
    <2> QED
        BY <2>1, RecoveredShape
<1>4. \A i, h \in 1 .. Len(R) : R[i].id = R[h].id => i = h
    BY <1>2 DEF JournalInOrder
<1>5. ASSUME journal' = R PROVE JournalInOrder' /\ JournalStep /\ Accepted' = Accepted
    <2>1. JournalInOrder'
        BY <1>2, <1>4, <1>5 DEF JournalInOrder
    <2>2. Len(journal') >= Len(journal)
        BY <1>2, <1>5
    <2>3. JournalStep
        BY <1>2, <1>3, <1>5, <2>2 DEF JournalStep
    <2>4. Accepted' = Accepted
        BY <1>2, <1>5 DEF Accepted
    <2> QED
        BY <2>1, <2>3, <2>4
<1> QED
    BY <1>2, <1>4, <1>5

LEMMA LostKeeps ==
    ASSUME CredInv, Stop \/ Crash
    PROVE  CredInv'
<1> USE DEF CredInv
<1>1. UNCHANGED <<file, mem, sound, journal, stopping, spent, calls>> /\ up' = FALSE /\ Lost
      /\ (faults' = faults \/ faults' = faults + 1)
    BY DEF Stop, Crash, Fault
<1>2. IdleLease \in LeaseStates /\ IdleLease.at = "idle" /\ NoLogin \in LoginStates
      /\ NoLogin.at = "none" /\ NoWork.at = "idle" /\ NoWork.id = None
      /\ NoWork \in [at : {"idle", "dispatch", "apply", "complete"}, id : Requests \union {None}]
    BY DEF IdleLease, LeaseStates, LeaseStages, NoLogin, LoginStates, NoWork
<1>3. /\ queue' = <<>> /\ Len(queue') = 0 /\ work' = NoWork /\ lock' = [k \in Kinds |-> None]
      /\ lease' = [k \in Kinds |-> IdleLease] /\ login' \in {login, NoLogin}
      /\ login' # login => login' = NoLogin
      /\ login'.at \in {"ended", "none"}
    BY <1>1, <1>2 DEF Lost
<1>4. /\ change' \in [Changes -> ChangeStates] /\ \A r \in Changes : change'[r].answer = None
    <2>1. \A r \in Changes : /\ [change[r] EXCEPT !.at = "idle", !.answer = None] \in ChangeStates
                             /\ [change[r] EXCEPT !.at = "idle", !.answer = None].answer = None
        BY DEF CredTypeOK, ChangeStates, Answers
    <2> QED
        BY <1>1, <2>1 DEF Lost
<1>5. CredTypeOK'
    <2>1. queue' \in Seq(JobTypes) /\ lock' \in [Kinds -> Requests \union {None, "lease"}]
          /\ lease' \in [Kinds -> LeaseStates] /\ login' \in LoginStates
        BY <1>2, <1>3 DEF CredTypeOK
    <2>2. faults' \in Nat
        <3>1. faults \in Nat
            BY DEF CredTypeOK
        <3> QED
            BY <1>1, <3>1
    <2>3. UNCHANGED <<file, mem, sound, journal, stopping, spent, calls>>
        BY <1>1
    <2>4. work' \in [at : {"idle", "dispatch", "apply", "complete"}, id : Requests \union {None}]
          /\ change' \in [Changes -> ChangeStates]
        BY <1>2, <1>3, <1>4
    <2> QED
        BY <1>1, <2>1, <2>2, <2>3, <2>4 DEF CredTypeOK
<1>6. JournalInOrder' /\ RestartReconciles' /\ CopyIsFile' /\ WorkFitsJournal'
      /\ Accepted' = Accepted /\ \A s : StateOf(s)' = StateOf(s)
    BY <1>1, <1>3, StoresKept
<1>7. LeasesAreAlone'
    BY <1>2, <1>3, RequestKinds DEF LeasesAreAlone, LeaseIsAlone
<1>8. lease'["openai"].at # "granted"
    BY <1>2, <1>3, RequestKinds
<1>9. GrantsAreMarked' /\ RefreshIsSentOnce'
    BY <1>1, <1>2, <1>3, <1>6, <1>8, GrantsKept DEF RefreshIsSentOnce
<1>10. DownIsEmpty' /\ ReadyLeaseIsCurrent'
    BY <1>2, <1>3 DEF DownIsEmpty, ReadyLeaseIsCurrent
<1>11. LoginsAreFresh'
    <2>1. \A s \in Logins : ~Queued(s)' /\ ~(work'.at # "idle" /\ work'.id = s)
        BY <1>2, <1>3 DEF Queued
    <2>2. login'.at # "none" => login'.id # None
        BY <1>2, <1>3 DEF LoginsAreFresh
    <2> QED
        BY <1>3, <2>1, <2>2 DEF LoginsAreFresh
<1>12. OutcomesAreTrue'
    <2>1. CASE login' = login
        <3>1. login.at # "none" => login.id # None
            BY DEF LoginsAreFresh
        <3> QED
            BY <1>2, <1>3, <1>4, <1>6, <2>1, <3>1, RequestKinds DEF OutcomesAreTrue, Queued
    <2>2. CASE login' = NoLogin
        BY <1>2, <1>4, <2>2, RequestKinds DEF OutcomesAreTrue
    <2> QED
        BY <1>3, <2>1, <2>2
<1> QED
    BY <1>5, <1>6, <1>7, <1>9, <1>10, <1>11, <1>12

\* A refresh left under way asks for a new login; nothing else changes.
LEMMA RefreshSettles ==
    ASSUME NEW c \in Creds
    PROVE  /\ SettledRefresh(c) \in Creds
           /\ SettledRefresh(c).gen = c.gen /\ SettledRefresh(c).marker = c.marker
           /\ SettledRefresh(c).rev = c.rev
           /\ SettledRefresh(c).phase = "removed" <=> c.phase = "removed"
           /\ SettledRefresh(c).phase \in {c.phase, "reauth"}
BY DEF SettledRefresh, Creds

LEMMA RestartKeeps ==
    ASSUME CredInv, Restart
    PROVE  CredInv'
<1> USE DEF CredInv
<1>1. UNCHANGED <<queue, work, lock, change, lease, spent, calls>> /\ ~up
      /\ RecoverySucceeds(journal, file) /\ journal' = Recovered(journal, file)
      /\ mem' = file' /\ sound' = [k \in Kinds |-> TRUE] /\ stopping' = FALSE /\ login' = NoLogin
      /\ (faults' = faults \/ faults' = faults + 1) /\ up' \in BOOLEAN
    BY DEF Restart, NoFault, Fault
<1>2. "openai" \in Kinds /\ "opencode" \in Kinds /\ "openai" # "opencode"
    BY RequestKinds
<1> DEFINE c == SettledRefresh(file["openai"])
<1>3. file' = file \/ file' = [file EXCEPT !["openai"] = c]
    BY DEF Restart
<1>4. /\ c \in Creds /\ c.gen = file["openai"].gen /\ c.marker = file["openai"].marker
      /\ c.rev = file["openai"].rev /\ (c.phase = "removed" <=> file["openai"].phase = "removed")
      /\ c.phase \in {file["openai"].phase, "reauth"}
    BY <1>2, RefreshSettles DEF CredTypeOK
<1> HIDE DEF c
<1>5. file' \in [Kinds -> Creds] /\ file'["opencode"] = file["opencode"]
      /\ file'["openai"] \in {file["openai"], c}
    <2>1. file \in [Kinds -> Creds]
        BY DEF CredTypeOK
    <2>2. CASE file' = file
        BY <2>1, <2>2
    <2>3. CASE file' = [file EXCEPT !["openai"] = c]
        <3>1. file' \in [Kinds -> Creds]
            BY <1>4, <2>1, <2>3
        <3>2. file'["opencode"] = file["opencode"] /\ file'["openai"] = c
            BY <1>2, <2>1, <2>3
        <3> QED
            BY <3>1, <3>2
    <2> QED
        BY <1>3, <2>2, <2>3
<1>6. SameLogin(file, file')
    BY <1>4, <1>5, RequestKinds DEF SameLogin
<1>7. /\ journal' \in Seq(Entries) /\ RecoverySucceeds(journal', file)
      /\ JournalInOrder' /\ JournalStep /\ Accepted' = Accepted
    BY <1>1, RecoverStep DEF CredTypeOK
<1>8. CredTypeOK'
    <2>1. NoLogin \in LoginStates
        BY DEF NoLogin, LoginStates
    <2>2. sound' \in [Kinds -> BOOLEAN] /\ mem' \in [Kinds -> Creds]
          /\ stopping' \in BOOLEAN /\ login' \in LoginStates
        BY <1>1, <1>5, <2>1
    <2>4. faults' \in Nat
        <3>1. faults \in Nat
            BY DEF CredTypeOK
        <3> QED
            BY <1>1, <3>1
    <2>3. UNCHANGED <<queue, work, lock, change, lease, spent, calls>> /\ up' \in BOOLEAN
        BY <1>1
    <2> QED
        BY <1>5, <1>7, <2>2, <2>3, <2>4 DEF CredTypeOK
<1>9. RestartReconciles'
    BY <1>6, <1>7, SameLoginRecovers DEF RestartReconciles
<1>10. queue = <<>> /\ work = NoWork /\ \A k \in Kinds : lock[k] = None
    BY <1>1 DEF DownIsEmpty
<1>11. CopyIsFile' /\ WorkFitsJournal'
    BY <1>1, <1>5, <1>10 DEF CopyIsFile, WorkFitsJournal, NoWork
<1>12. LeasesAreAlone'
    <2>1. calls' >= calls
        BY <1>1 DEF CredTypeOK
    <2> QED
        BY <1>1, <1>8, <1>10, <2>1, LeaseStill, MarksKept DEF LeasesAreAlone, NoWork
<1>13. RefreshIsSentOnce' /\ DownIsEmpty'
    BY <1>1, <1>10 DEF RefreshIsSentOnce, DownIsEmpty
<1>14. GrantsAreMarked'
    <2>1. \A g \in Grants : Used(g)' => Used(g)
        BY <1>1 DEF Used
    <2>2. \A g \in Grants : Used(g)' =>
            /\ g[1] \in Accepted'
            /\ work'.at \in {"dispatch", "apply"} => g[1] # work'.id
            /\ g[1] = file'["openai"].marker =>
                  /\ g[2] <= file'["openai"].rev
                  /\ g[2] = file'["openai"].rev => file'["openai"].phase # "active"
        BY <1>1, <1>4, <1>5, <1>7, <2>1 DEF GrantsAreMarked
    <2>3. \A i \in 1 .. Len(spent') :
            lease'["openai"].at = "granted" => spent'[i] # lease'["openai"].grant
        BY <1>1 DEF GrantsAreMarked
    <2> QED
        BY <2>2, <2>3 DEF GrantsAreMarked
<1>15. LoginsAreFresh'
    BY <1>1, <1>10 DEF LoginsAreFresh, Queued, NoLogin, NoWork
<1>16. OutcomesAreTrue'
    <2>1. \A s : StateOf(s) \in Settled => StateOf(s)' = StateOf(s)
        BY <1>7, <1>8, JournalStepKeeps
    <2> QED
        BY <1>1, <2>1 DEF OutcomesAreTrue, Settled, NoLogin
<1>17. ReadyLeaseIsCurrent'
    <2>1. \A k \in Kinds : lease[k].at # "ready"
        BY <1>10, RequestKinds DEF LeasesAreAlone, LeaseIsAlone
    <2> QED
        BY <1>1, <2>1 DEF ReadyLeaseIsCurrent
<1> QED
    BY <1>7, <1>8, <1>9, <1>11, <1>12, <1>13, <1>14, <1>15, <1>16, <1>17

-----------------------------------------------------------------------------
(* Answers.                                                                *)

LEMMA OutcomeTypes ==
    ASSUME NEW a
    PROVE  /\ LoginOutcome(a) \in {"installed", "credential_changed", "unavailable", "uncertain"}
           /\ LoginOutcome(a) = "installed" => a = "done"
           /\ LoginOutcome(a) \notin {"installed", "uncertain"} =>
                a \in {"generation_conflict", "request_conflict", "not_applied"}
<1>1. CASE a = "done"
    BY <1>1 DEF LoginOutcome
<1>2. CASE a = "generation_conflict"
    BY <1>2 DEF LoginOutcome
<1>3. CASE a \in {"request_conflict", "not_applied"}
    BY <1>3 DEF LoginOutcome
<1>4. CASE a \notin {"done", "generation_conflict", "request_conflict", "not_applied"}
    BY <1>4 DEF LoginOutcome
<1> QED
    BY <1>1, <1>2, <1>3, <1>4

\* An answer reaches the caller that still waits for it, or nobody.
LEMMA AnswerTypes ==
    ASSUME CredTypeOK, NEW r \in Requests, NEW a \in Answers, AnswerChange(r, a)
    PROVE  /\ change' \in [Changes -> ChangeStates] /\ login' \in LoginStates
           /\ lock' \in [Kinds -> Requests \union {None, "lease"}] /\ stopping' \in BOOLEAN
           /\ \A k \in Kinds : lock'[k] = "lease" <=> lock[k] = "lease"
           /\ \A s \in Changes : \/ change'[s].answer = change[s].answer
                                 \/ s = r /\ change'[s].answer = a
           /\ stopping => stopping'
           /\ \/ login' = login
              \/ /\ r \in Logins /\ login.at = "installing" /\ login.id = r
                 /\ login'.id = r /\ login'.at = "ended" /\ login'.outcome = LoginOutcome(a)
                 /\ LoginOutcome(a) = "uncertain" => stopping'
<1>1. Kind(r) \in Kinds /\ "openai" \in Kinds /\ r # "lease"
    BY RequestKinds
<1>2. CASE r \in Changes /\ change[r].at = "sent" /\ lock[Kind(r)] = r
    <2>1. change' = [change EXCEPT ![r].at = "idle", ![r].answer = a]
          /\ lock' = [lock EXCEPT ![Kind(r)] = None] /\ UNCHANGED <<login, stopping>>
        BY <1>2 DEF AnswerChange, Release
    <2>2. change' \in [Changes -> ChangeStates] /\ \A s \in Changes :
            change'[s].answer = change[s].answer \/ (s = r /\ change'[s].answer = a)
        <3>1. change \in [Changes -> ChangeStates] /\ change[r] \in ChangeStates
            BY <1>2 DEF CredTypeOK
        <3>2. PICK v : v = [change[r] EXCEPT !.at = "idle", !.answer = a]
            OBVIOUS
        <3>3. v \in ChangeStates /\ v.answer = a
            BY <3>1, <3>2 DEF ChangeStates
        <3>4. change' = [change EXCEPT ![r] = v]
            BY <2>1, <3>2
        <3> QED
            BY <1>2, <3>1, <3>3, <3>4
    <2>3. lock' \in [Kinds -> Requests \union {None, "lease"}]
          /\ \A k \in Kinds : lock'[k] = "lease" <=> lock[k] = "lease"
        BY <1>1, <1>2, <2>1, RequestKinds DEF CredTypeOK
    <2> QED
        BY <2>1, <2>2, <2>3 DEF CredTypeOK
<1>3. CASE r \notin Changes /\ LoginWaits(r) /\ lock["openai"] = r
    <2>1. login' = [login EXCEPT !.at = "ended", !.outcome = LoginOutcome(a)]
          /\ stopping' = (stopping \/ LoginOutcome(a) = "uncertain")
          /\ lock' = [lock EXCEPT !["openai"] = None] /\ UNCHANGED change
        BY <1>3 DEF AnswerChange, Release
    <2>2. LoginOutcome(a) \in {"installed", "credential_changed", "unavailable", "uncertain"}
        BY OutcomeTypes
    <2>3. /\ login' \in LoginStates /\ login'.at = "ended" /\ login'.outcome = LoginOutcome(a)
          /\ login'.id = login.id
        BY <2>1, <2>2 DEF CredTypeOK, LoginStates
    <2>4. lock' \in [Kinds -> Requests \union {None, "lease"}]
          /\ \A k \in Kinds : lock'[k] = "lease" <=> lock[k] = "lease"
        BY <1>1, <1>3, <2>1, RequestKinds DEF CredTypeOK
    <2>5. stopping' \in BOOLEAN /\ (stopping => stopping')
          /\ (LoginOutcome(a) = "uncertain" => stopping')
        BY <2>1
    <2>6. r \in Logins /\ login.at = "installing" /\ login.id = r
        BY <1>3 DEF LoginWaits, Requests
    <2>7. change' \in [Changes -> ChangeStates] /\ change' = change
        BY <2>1 DEF CredTypeOK
    <2> QED
        BY <2>3, <2>4, <2>5, <2>6, <2>7
<1>4. CASE /\ ~(r \in Changes /\ change[r].at = "sent" /\ lock[Kind(r)] = r)
           /\ ~(r \notin Changes /\ LoginWaits(r) /\ lock["openai"] = r)
    <2>1. UNCHANGED <<change, lock, login, stopping>>
        BY <1>4 DEF AnswerChange
    <2> QED
        BY <2>1 DEF CredTypeOK
<1> QED
    BY <1>2, <1>3, <1>4

\* A settled request stays settled, and one that nobody heard of stays unknown.
LEMMA UnknownStays ==
    ASSUME CredTypeOK, JournalInOrder, Accepted' = Accepted, NEW r,
           StateOf(r) \in Settled => StateOf(r)' = StateOf(r),
           StateOf(r) \in {"unknown", "not_applied"}
    PROVE  StateOf(r)' = StateOf(r)
<1>1. CASE StateOf(r) = "unknown"
    <2>1. r \notin Accepted
        <3> SUFFICES ASSUME r \in Accepted PROVE FALSE
            OBVIOUS
        <3>1. PICK i \in 1 .. Len(journal) : journal[i].id = r
            BY StateOfMeans
        <3>2. StateOf(r) = journal[i].state /\ journal[i] \in Entries
            BY <3>1, StateOfMeans DEF CredTypeOK
        <3> QED
            BY <1>1, <3>2 DEF Entries
    <2>2. StateOf(r)' = "unknown"
        BY <2>1 DEF StateOf
    <2> QED
        BY <1>1, <2>2
<1>2. CASE StateOf(r) = "not_applied"
    BY <1>2 DEF Settled
<1> QED
    BY <1>1, <1>2

\* What the worker answers is true when it is told of what the journal holds.
LEMMA AnswerKeeps ==
    ASSUME CredInv, CredTypeOK', NEW r \in Requests, NEW a \in Answers, AnswerChange(r, a),
           queue' = queue \/ (queue # <<>> /\ queue' = Tail(queue)),
           work' = NoWork, Accepted' = Accepted,
           \A s : StateOf(s) \in Settled => StateOf(s)' = StateOf(s),
           a = "done" => StateOf(r)' = "completed",
           r \in Logins /\ a \in {"generation_conflict", "request_conflict", "not_applied"} =>
             StateOf(r)' \in {"unknown", "not_applied"},
           r \in Logins => ~Queued(r)'
    PROVE  LoginsAreFresh' /\ OutcomesAreTrue'
<1> USE DEF CredInv
<1>1. QueueQuiet
    BY DEF QueueQuiet
<1>2. /\ \A s \in Changes : change'[s].answer = "done" => StateOf(s)' = "completed"
    BY AnswerTypes, RequestKinds DEF OutcomesAreTrue, Settled
<1>3. NoWork.at = "idle" /\ NoWork.id = None
    BY DEF NoWork
<1>4. \A s \in Logins : Queued(s)' => Queued(s)
    BY <1>1, QueueQuietKeeps
<1>5. \A s \in Logins : \A i, h \in 1 .. Len(queue') :
        Asks(queue[i], s)' /\ Asks(queue[h], s)' => i = h
    BY <1>1, QueueQuietKeeps DEF LoginsAreFresh
<1>6. login.at # "none" => login.id # None /\ login.id \in Logins
    BY DEF LoginsAreFresh, CredTypeOK, LoginStates
<1>7. stopping => stopping'
    BY AnswerTypes
<1>8. CASE login' = login
    <2>1. LoginsAreFresh'
        BY <1>3, <1>4, <1>5, <1>6, <1>7, <1>8 DEF LoginsAreFresh
    <2>2. ASSUME login.at = "ended"
          PROVE  /\ login.outcome = "installed" => StateOf(login.id)' = "completed"
                 /\ login.outcome \notin {"installed", "uncertain"} =>
                       /\ StateOf(login.id)' \in {"unknown", "not_applied"}
                       /\ ~Queued(login.id)' /\ work'.id # login.id
        <3>1. login.outcome = "installed" => StateOf(login.id)' = "completed"
            BY <1>8, <2>2 DEF OutcomesAreTrue, Settled
        <3>2. login.outcome \notin {"installed", "uncertain"} =>
                 StateOf(login.id)' \in {"unknown", "not_applied"}
            <4>1. login.outcome \notin {"installed", "uncertain"} =>
                    StateOf(login.id) \in {"unknown", "not_applied"}
                BY <2>2 DEF OutcomesAreTrue
            <4>2. StateOf(login.id) \in {"unknown", "not_applied"} =>
                    \A s : s = login.id => StateOf(s)' \in {"unknown", "not_applied"}
                BY UnknownStays
            <4> QED
                BY <1>8, <4>1, <4>2
        <3>3. login.outcome \notin {"installed", "uncertain"} =>
                 ~Queued(login.id)' /\ work'.id # login.id
            BY <1>3, <1>4, <1>6, <1>8, <2>2 DEF OutcomesAreTrue
        <3> QED
            BY <3>1, <3>2, <3>3
    <2>3. OutcomesAreTrue'
        BY <1>2, <1>8, <2>2 DEF OutcomesAreTrue
    <2> QED
        BY <2>1, <2>3
<1>9. CASE login' # login
    <2>1. /\ r \in Logins /\ login.at = "installing" /\ login.id = r
          /\ login'.id = r /\ login'.at = "ended" /\ login'.outcome = LoginOutcome(a)
          /\ ~Queued(r)'
        BY <1>9, AnswerTypes
    <2>2. \A s \in Logins : ~Queued(s)'
        BY <1>4, <2>1 DEF LoginsAreFresh
    <2>3. LoginsAreFresh'
        BY <1>3, <1>5, <1>6, <2>1, <2>2 DEF LoginsAreFresh
    <2>4. LoginOutcome(a) = "installed" => StateOf(r)' = "completed"
        BY OutcomeTypes
    <2>5. LoginOutcome(a) \notin {"installed", "uncertain"} =>
            StateOf(r)' \in {"unknown", "not_applied"}
        BY <2>1, OutcomeTypes
    <2>6. work'.id # r
        BY <1>3, <1>6, <2>1
    <2>7. StateOf(login.id)' = StateOf(r)' /\ Queued(login.id)' = Queued(r)'
        BY <2>1 DEF StateOf, Queued
    <2>8. OutcomesAreTrue'
        BY <1>2, <2>1, <2>4, <2>5, <2>6, <2>7 DEF OutcomesAreTrue
    <2> QED
        BY <2>3, <2>8
<1> QED
    BY <1>8, <1>9

-----------------------------------------------------------------------------
(* The worker in the middle of a change.                                   *)

LEMMA CopyWhenConsistent ==
    ASSUME CredTypeOK, CopyIsFile, Consistent
    PROVE  mem = file
<1>1. mem \in [Kinds -> Creds] /\ file \in [Kinds -> Creds] /\ \A k \in Kinds : mem[k] = file[k]
    BY RequestKinds DEF CredTypeOK, CopyIsFile, Consistent
<1> QED
    BY <1>1

\* The request that the worker works for, and the stores it found.
LEMMA WorkHas ==
    ASSUME CredInv, work.at # "idle"
    PROVE  /\ up /\ Consistent /\ mem = file /\ journal # <<>>
           /\ Len(journal) \in 1 .. Len(journal) /\ Newest \in Entries /\ work.id = Newest.id
           /\ work.id \in Requests /\ work.id \in Accepted /\ Kind(work.id) \in Kinds
           /\ work.id \in Logins => ~Queued(work.id)
<1> USE DEF CredInv
<1>1. up /\ Consistent /\ journal # <<>> /\ work.id = Newest.id
    BY DEF WorkFitsJournal
<1>2. mem = file
    BY <1>1, CopyWhenConsistent
<1>3. journal \in Seq(Entries) /\ Len(journal) \in Nat /\ Len(journal) # 0
    BY <1>1 DEF CredTypeOK
<1>4. Len(journal) \in 1 .. Len(journal)
    BY <1>3
<1>5. Newest \in Entries
    BY <1>3, <1>4 DEF Newest
<1>6. work.id \in Requests
    BY <1>1, <1>5 DEF Entries
<1>7. work.id \in Accepted
    BY <1>1, <1>4 DEF Accepted, Newest
<1>8. work.id \in Logins => ~Queued(work.id)
    BY <1>7 DEF LoginsAreFresh
<1> QED
    BY <1>1, <1>2, <1>4, <1>5, <1>6, <1>7, <1>8, RequestKinds

\* A step of the last request keeps the others.
LEMMA LastStep ==
    ASSUME journal \in Seq(Entries), JournalInOrder, journal # <<>>, Newest.state \notin Settled,
           NEW state \in {"dispatched", "completed", "not_applied"},
           journal' = Moved(journal, Newest.id, state)
    PROVE  /\ journal' \in Seq(Entries) /\ JournalInOrder' /\ JournalStep
           /\ Accepted' = Accepted /\ journal' # <<>> /\ Len(journal') = Len(journal)
           /\ Newest' \in Entries /\ Newest'.id = Newest.id /\ Newest'.expected = Newest.expected
           /\ Newest'.state = state
<1> DEFINE n == Len(journal)
<1>1. Newest = journal[n]
    BY DEF Newest
<1>2. /\ journal' \in Seq(Entries) /\ Len(journal') = n /\ n \in 1 .. n
      /\ journal'[n] = Moves(Newest, state)
      /\ \A i \in 1 .. n : i < n => journal'[i] = journal[i]
    BY <1>1, LastMoves DEF JournalInOrder
<1>3. Newest \in Entries
    BY <1>1, <1>2
<1>4. /\ Moves(Newest, state) \in Entries /\ Moves(Newest, state).id = Newest.id
      /\ Moves(Newest, state).expected = Newest.expected /\ Moves(Newest, state).state = state
    BY <1>3, EntryMoves
<1>5. \A i \in 1 .. n : i < n \/ i = n
    BY <1>2
<1>6. \A i \in 1 .. n : journal'[i].id = journal[i].id
    BY <1>1, <1>2, <1>4, <1>5
<1>7. \A i \in 1 .. n : journal[i].state \in Settled => journal'[i].state = journal[i].state
    BY <1>1, <1>2, <1>5
<1>8. JournalInOrder'
    BY <1>2, <1>6 DEF JournalInOrder
<1>9. JournalStep
    BY <1>2, <1>6, <1>7 DEF JournalStep
<1>10. Accepted' = Accepted
    BY <1>2, <1>6 DEF Accepted
<1>11. Newest' = Moves(Newest, state)
    <2>1. Newest' = journal'[Len(journal')]
        BY DEF Newest
    <2> QED
        BY <1>2, <2>1
<1>12. journal' # <<>>
    BY <1>2
<1> QED
    BY <1>2, <1>4, <1>8, <1>9, <1>10, <1>11, <1>12

\* The worker goes on, or is done, without writing a file.
LEMMA WorkerElsewhere ==
    ASSUME CredInv, CredTypeOK', up, UNCHANGED <<up, file, mem, sound, queue, lease, spent, calls>>,
           \A k \in Kinds : lock'[k] = "lease" <=> lock[k] = "lease", Accepted' = Accepted,
           \/ work' = NoWork
           \/ /\ work'.id = work.id /\ work.at # "idle"
              /\ work'.at \in {"dispatch", "apply"} => work.at \in {"dispatch", "apply"}
    PROVE  /\ CopyIsFile' /\ LeasesAreAlone' /\ GrantsAreMarked' /\ RefreshIsSentOnce'
           /\ DownIsEmpty' /\ ReadyLeaseIsCurrent'
<1> USE DEF CredInv
<1>1. CopyIsFile'
    BY DEF CopyIsFile
<1>2. calls' >= calls
    BY DEF CredTypeOK
<1>3. work'.at = "idle" \/ (work.at # "idle" /\ work'.id = work.id)
    BY DEF NoWork
<1>4. LeasesAreAlone'
    BY <1>2, <1>3, LeaseStill, MarksKept DEF LeasesAreAlone
<1>5. GrantsAreMarked' /\ RefreshIsSentOnce'
    BY GrantsKept DEF RefreshIsSentOnce, NoWork
<1>6. DownIsEmpty' /\ ReadyLeaseIsCurrent'
    BY ReadyKept DEF DownIsEmpty
<1> QED
    BY <1>1, <1>4, <1>5, <1>6

\* A failed transaction: the worker gives the change up, after a recovery or before one.
LEMMA AfterFailureKeeps ==
    ASSUME CredInv, work.at # "idle", AfterFailure(work.id, mem),
           UNCHANGED <<up, file, mem, sound, queue, lease, spent, calls>>
    PROVE  CredInv'
<1> USE DEF CredInv
<1>1. faults' = faults + 1 /\ work' = NoWork /\ AnswerChange(work.id, "storage")
      /\ (journal' = journal \/ journal' = Recovered(journal, mem))
    BY DEF AfterFailure, Fault
<1>2. "storage" \in Answers /\ "storage" \notin {"done", "generation_conflict", "request_conflict",
                                                "not_applied"}
      /\ NoWork \in [at : {"idle", "dispatch", "apply", "complete"}, id : Requests \union {None}]
      /\ NoWork.at = "idle"
    BY DEF Answers, NoWork
<1>3. mem = file /\ up /\ work.id \in Requests /\ (work.id \in Logins => ~Queued(work.id))
    BY WorkHas
<1>4. /\ journal' \in Seq(Entries) /\ RecoverySucceeds(journal', file)
      /\ JournalInOrder' /\ JournalStep /\ Accepted' = Accepted
    <2>1. CASE journal' = journal
        <3>1. Len(journal) >= Len(journal)
            BY DEF CredTypeOK
        <3> QED
            BY <2>1, <3>1 DEF CredTypeOK, RestartReconciles, JournalInOrder, JournalStep, Accepted
    <2>2. CASE journal' = Recovered(journal, mem)
        BY <1>3, <2>2, RecoverStep DEF CredTypeOK, RestartReconciles
    <2> QED
        BY <1>1, <2>1, <2>2
<1>5. CredTypeOK'
    <2>1. /\ change' \in [Changes -> ChangeStates] /\ login' \in LoginStates
          /\ lock' \in [Kinds -> Requests \union {None, "lease"}] /\ stopping' \in BOOLEAN
        BY <1>1, <1>2, <1>3, AnswerTypes
    <2>2. faults' \in Nat /\ work' \in [at : {"idle", "dispatch", "apply", "complete"},
                                        id : Requests \union {None}]
        BY <1>1, <1>2 DEF CredTypeOK
    <2> QED
        BY <1>4, <2>1, <2>2 DEF CredTypeOK
<1>6. RestartReconciles'
    BY <1>4 DEF RestartReconciles
<1>7. \A k \in Kinds : lock'[k] = "lease" <=> lock[k] = "lease"
    BY <1>1, <1>2, <1>3, AnswerTypes
<1>8. /\ CopyIsFile' /\ LeasesAreAlone' /\ GrantsAreMarked' /\ RefreshIsSentOnce'
      /\ DownIsEmpty' /\ ReadyLeaseIsCurrent'
    BY <1>1, <1>3, <1>4, <1>5, <1>7, WorkerElsewhere
<1>9. WorkFitsJournal'
    BY <1>1, <1>2 DEF WorkFitsJournal
<1>10. LoginsAreFresh' /\ OutcomesAreTrue'
    <2>1. \A s : StateOf(s) \in Settled => StateOf(s)' = StateOf(s)
        BY <1>4, <1>5, JournalStepKeeps
    <2>2. PICK r \in Requests : r = work.id
        BY <1>3
    <2>3. r \in Logins => ~Queued(r)'
        <3>1. Queued(r)' = Queued(r)
            BY DEF Queued
        <3> QED
            BY <2>2, <3>1, WorkHas
    <2>4. AnswerChange(r, "storage")
        BY <1>1, <2>2
    <2> QED
        BY <1>1, <1>2, <1>4, <1>5, <2>1, <2>3, <2>4, AnswerKeeps, RequestKinds
<1> QED
    BY <1>4, <1>5, <1>6, <1>8, <1>9, <1>10

LEMMA StateAfter ==
    ASSUME JournalInOrder', NEW r, NEW i \in 1 .. Len(journal'), journal'[i].id = r
    PROVE  StateOf(r)' = journal'[i].state /\ r \in Accepted'
<1>1. EntryOf(journal', r) = i
    BY DEF JournalInOrder, EntryOf
<1>2. r \in Accepted'
    BY DEF Accepted
<1> QED
    BY <1>1, <1>2 DEF StateOf

LEMMA DispatchKeeps ==
    ASSUME CredInv, DispatchCredentialMutation
    PROVE  CredInv'
<1> USE DEF CredInv
<1>1. up /\ work.at = "dispatch" /\ UNCHANGED <<up, file, mem, sound, queue, lease, spent, calls>>
    BY DEF DispatchCredentialMutation
<1>2. CASE AfterFailure(work.id, mem)
    BY <1>1, <1>2, AfterFailureKeeps
<1>3. CASE /\ journal' = Moved(journal, work.id, "dispatched")
           /\ work' = [work EXCEPT !.at = "apply"]
           /\ UNCHANGED <<login, change, lock, stopping>> /\ NoFault
    <2>1. /\ mem = file /\ journal # <<>> /\ Newest \in Entries /\ work.id = Newest.id
          /\ Newest.state = "prepared" /\ Newest.expected = file[Kind(Newest.id)].gen /\ Consistent
        BY <1>1, WorkHas DEF WorkFitsJournal
    <2>2. journal \in Seq(Entries)
        BY DEF CredTypeOK
    <2>3. /\ journal' \in Seq(Entries) /\ JournalInOrder' /\ JournalStep
          /\ Accepted' = Accepted /\ journal' # <<>>
          /\ Newest'.id = Newest.id /\ Newest'.expected = Newest.expected
          /\ Newest'.state = "dispatched"
        BY <1>3, <2>1, <2>2, LastStep DEF Settled
    <2>4. RestartReconciles'
        <3>1. Ordered(journal) /\ \A i, h \in 1 .. Len(journal) : journal[i].id = journal[h].id => i = h
            BY DEF Ordered, JournalInOrder
        <3>2. journal[Len(journal)] = Newest
            BY DEF Newest
        <3>3. RecoverySucceeds(Moved(journal, Newest.id, "dispatched"), file)
            BY <2>1, <2>2, <3>1, <3>2, DispatchSucceeds DEF RestartReconciles
        <3> QED
            BY <1>1, <1>3, <2>1, <3>3 DEF RestartReconciles
    <2>5. /\ work' \in [at : {"idle", "dispatch", "apply", "complete"}, id : Requests \union {None}]
          /\ work'.at = "apply" /\ work'.id = work.id
        BY <1>3 DEF CredTypeOK
    <2>6. CredTypeOK'
        BY <1>1, <1>3, <2>3, <2>5 DEF CredTypeOK, NoFault
    <2>7. WorkFitsJournal'
        BY <1>1, <2>1, <2>3, <2>5 DEF WorkFitsJournal, Consistent
    <2>8. /\ CopyIsFile' /\ LeasesAreAlone' /\ GrantsAreMarked' /\ RefreshIsSentOnce'
          /\ DownIsEmpty' /\ ReadyLeaseIsCurrent'
        BY <1>1, <1>3, <2>3, <2>5, <2>6, WorkerElsewhere
    <2>9. LoginsAreFresh' /\ OutcomesAreTrue'
        <3>1. \A s : StateOf(s) \in Settled => StateOf(s)' = StateOf(s)
            BY <2>3, <2>6, JournalStepKeeps
        <3> QED
            BY <1>1, <1>3, <2>3, <2>5, <2>6, <3>1, LoginsKept DEF QueueQuiet
    <2> QED
        BY <2>3, <2>4, <2>6, <2>7, <2>8, <2>9
<1> QED
    BY <1>2, <1>3 DEF DispatchCredentialMutation

LEMMA CompleteKeeps ==
    ASSUME CredInv, CompleteCredentialMutation
    PROVE  CredInv'
<1> USE DEF CredInv
<1>1. up /\ work.at = "complete" /\ UNCHANGED <<up, file, mem, sound, queue, lease, spent, calls>>
    BY DEF CompleteCredentialMutation
<1>2. CASE AfterFailure(work.id, mem)
    BY <1>1, <1>2, AfterFailureKeeps
<1>3. CASE /\ journal' = Moved(journal, work.id, "completed")
           /\ work' = NoWork
           /\ AnswerChange(work.id, "done") /\ NoFault
    <2>1. /\ mem = file /\ journal # <<>> /\ Newest \in Entries /\ work.id = Newest.id
          /\ Newest.state = "dispatched" /\ Installed(Newest, file)
        BY <1>1, WorkHas DEF WorkFitsJournal
    <2>2. journal \in Seq(Entries)
        BY DEF CredTypeOK
    <2>3. /\ journal' \in Seq(Entries) /\ JournalInOrder' /\ JournalStep
          /\ Accepted' = Accepted /\ Newest'.id = Newest.id /\ Newest'.state = "completed"
          /\ Len(journal') = Len(journal)
        BY <1>3, <2>1, <2>2, LastStep DEF Settled
    <2>4. RestartReconciles'
        <3>1. Ordered(journal) /\ \A i, h \in 1 .. Len(journal) : journal[i].id = journal[h].id => i = h
            BY DEF Ordered, JournalInOrder
        <3>2. journal[Len(journal)] = Newest /\ RecordsValid(journal)
            BY DEF Newest, RestartReconciles, RecoverySucceeds
        <3>3. journal' = Recovered(journal, file)
            BY <1>3, <2>1, <2>2, <3>1, <3>2, CompleteIsRecovered
        <3>4. RecoverySucceeds(journal', file)
            BY <2>2, <3>3, RecoverStep DEF RestartReconciles
        <3> QED
            BY <1>1, <3>4 DEF RestartReconciles
    <2>5. PICK r \in Requests : r = work.id
        BY <1>1, WorkHas
    <2>6. AnswerChange(r, "done") /\ "done" \in Answers /\ NoWork.at = "idle"
        BY <1>3, <2>5 DEF Answers, NoWork
    <2>7. CredTypeOK'
        <3>1. /\ change' \in [Changes -> ChangeStates] /\ login' \in LoginStates
              /\ lock' \in [Kinds -> Requests \union {None, "lease"}] /\ stopping' \in BOOLEAN
            BY <2>6, AnswerTypes
        <3>2. work' \in [at : {"idle", "dispatch", "apply", "complete"}, id : Requests \union {None}]
            BY <1>3 DEF NoWork
        <3> QED
            BY <1>1, <1>3, <2>3, <3>1, <3>2 DEF CredTypeOK, NoFault
    <2>8. WorkFitsJournal'
        BY <1>3, <2>6 DEF WorkFitsJournal
    <2>9. /\ CopyIsFile' /\ LeasesAreAlone' /\ GrantsAreMarked' /\ RefreshIsSentOnce'
          /\ DownIsEmpty' /\ ReadyLeaseIsCurrent'
        <3>1. \A k \in Kinds : lock'[k] = "lease" <=> lock[k] = "lease"
            BY <2>6, AnswerTypes
        <3> QED
            BY <1>1, <1>3, <2>3, <2>7, <3>1, WorkerElsewhere
    <2>10. LoginsAreFresh' /\ OutcomesAreTrue'
        <3>1. \A s : StateOf(s) \in Settled => StateOf(s)' = StateOf(s)
            BY <2>3, <2>7, JournalStepKeeps
        <3>2. r \in Logins => ~Queued(r)'
            <4>1. Queued(r)' = Queued(r)
                BY <1>1 DEF Queued
            <4> QED
                BY <1>1, <2>5, <4>1, WorkHas
        <3>3. StateOf(r)' = "completed"
            <4>1. PICK i \in 1 .. Len(journal') : i = Len(journal')
                BY <1>1, <2>3, WorkHas
            <4>2. journal'[i] = Newest'
                BY <4>1 DEF Newest
            <4>3. journal'[i].id = r /\ journal'[i].state = "completed"
                BY <2>1, <2>3, <2>5, <4>2
            <4> QED
                BY <2>3, <4>3, StateAfter
        <3> QED
            BY <1>1, <1>3, <2>3, <2>6, <2>7, <3>1, <3>2, <3>3, AnswerKeeps
    <2> QED
        BY <2>3, <2>4, <2>7, <2>8, <2>9, <2>10
<1> QED
    BY <1>2, <1>3 DEF CompleteCredentialMutation

-----------------------------------------------------------------------------
(* The worker writes the effect of a change.                               *)

Effect == NextState(work.id, mem[Kind(work.id)])
FileAfter == [file EXCEPT ![Kind(work.id)] = Effect]

LEMMA InstallHas ==
    ASSUME CredInv, work.at = "apply"
    PROVE  /\ Effect \in Creds /\ Effect.marker = work.id /\ Effect.phase \in {"removed", "active"}
           /\ FileAfter \in [Kinds -> Creds] /\ FileAfter[Kind(work.id)] = Effect
           /\ \A n \in Kinds : n # Kind(work.id) => FileAfter[n] = file[n]
           /\ Installed(Newest, FileAfter) /\ RecoverySucceeds(journal, FileAfter)
<1> USE DEF CredInv
<1>1. /\ mem = file /\ journal # <<>> /\ Newest \in Entries /\ work.id = Newest.id
      /\ Newest.state = "dispatched" /\ file[Kind(work.id)].gen = Newest.expected
      /\ work.id \in Requests /\ Kind(work.id) \in Kinds
    BY WorkHas DEF WorkFitsJournal
<1>2. file \in [Kinds -> Creds] /\ file[Kind(work.id)] \in Creds /\ journal \in Seq(Entries)
    BY <1>1 DEF CredTypeOK
<1>3. Effect \in Creds /\ Effect.marker = work.id /\ Effect.phase \in {"removed", "active"}
    <2>1. file[Kind(work.id)].gen + 1 \in Nat /\ Effect = NextState(work.id, file[Kind(work.id)])
        BY <1>1, <1>2 DEF Creds, Effect
    <2>2. CASE Sets(work.id)
        BY <1>1, <2>1, <2>2 DEF NextState, Creds
    <2>3. CASE ~Sets(work.id)
        BY <1>1, <2>1, <2>3 DEF NextState, Creds
    <2> QED
        BY <2>2, <2>3
<1>4. /\ FileAfter \in [Kinds -> Creds] /\ FileAfter[Kind(work.id)] = Effect
      /\ \A n \in Kinds : n # Kind(work.id) => FileAfter[n] = file[n]
    BY <1>1, <1>2, <1>3 DEF FileAfter
<1>5. Installed(Newest, FileAfter) /\ RecoverySucceeds(journal, FileAfter)
    <2>1. journal[Len(journal)] = Newest /\ Ordered(journal)
        BY DEF Newest, Ordered, JournalInOrder
    <2>2. PICK k \in Kinds : k = Kind(work.id)
        BY <1>1
    <2>3. /\ k = Kind(journal[Len(journal)].id)
          /\ file[k].gen = journal[Len(journal)].expected
          /\ journal[Len(journal)].state = "dispatched"
          /\ FileAfter[k] = NextState(journal[Len(journal)].id, file[k])
        BY <1>1, <1>4, <2>1, <2>2 DEF Effect
    <2>4. \A n \in Kinds \ {k} : FileAfter[n] = file[n]
        BY <1>4, <2>2
    <2>5. RecoverySucceeds(journal, file)
        BY DEF RestartReconciles
    <2>6. Installed(journal[Len(journal)], FileAfter) /\ RecoverySucceeds(journal, FileAfter)
        BY <1>1, <1>2, <1>4, <2>1, <2>2, <2>3, <2>4, <2>5, InstallSucceeds, ZenonT(60)
    <2> QED
        BY <2>1, <2>6
<1> QED
    BY <1>3, <1>4, <1>5

\* Nobody uses the credential that a change writes, and its tokens are new.
LEMMA ApplyElsewhere ==
    ASSUME CredInv, CredTypeOK', work.at = "apply", NEW k \in Kinds, k = Kind(work.id),
           UNCHANGED <<up, queue, lease, spent, calls>>,
           \A n \in Kinds : n # k => /\ file'[n] = file[n] /\ mem'[n] = mem[n]
                                     /\ sound'[n] = sound[n],
           file'[k] = file[k] \/ file'[k].marker = work.id,
           \A n \in Kinds : lock'[n] = "lease" <=> lock[n] = "lease", Accepted' = Accepted,
           work' = NoWork \/ (work'.id = work.id /\ work'.at = "complete")
    PROVE  LeasesAreAlone' /\ GrantsAreMarked' /\ RefreshIsSentOnce' /\ DownIsEmpty'
           /\ ReadyLeaseIsCurrent'
<1> USE DEF CredInv
<1>1. calls' >= calls
    BY DEF CredTypeOK
<1>2. work'.at = "idle" \/ (work.at # "idle" /\ work'.id = work.id)
    BY DEF NoWork
<1>3. LeasesAreAlone'
    BY <1>1, <1>2, LeaseStill, MarksKept DEF LeasesAreAlone
<1>4. GrantsAreMarked'
    <2>1. \A g \in Grants : Used(g)' => Used(g)
        BY DEF Used
    <2>2. work'.at \notin {"dispatch", "apply"}
        BY DEF NoWork
    <2>3. ASSUME NEW g \in Grants, Used(g), g[1] = file'["openai"].marker
          PROVE  /\ g[2] <= file'["openai"].rev
                 /\ g[2] = file'["openai"].rev => file'["openai"].phase # "active"
        <3>1. g[1] # work.id
            BY <2>3 DEF GrantsAreMarked
        <3>2. file'["openai"] = file["openai"]
            BY <2>3, <3>1, RequestKinds
        <3> QED
            BY <2>3, <3>2 DEF GrantsAreMarked
    <2>4. \A g \in Grants : Used(g)' =>
            /\ g[1] \in Accepted'
            /\ work'.at \in {"dispatch", "apply"} => g[1] # work'.id
            /\ g[1] = file'["openai"].marker =>
                  /\ g[2] <= file'["openai"].rev
                  /\ g[2] = file'["openai"].rev => file'["openai"].phase # "active"
        BY <2>1, <2>2, <2>3 DEF GrantsAreMarked
    <2>5. \A i \in 1 .. Len(spent') :
            lease'["openai"].at = "granted" => spent'[i] # lease'["openai"].grant
        BY DEF GrantsAreMarked
    <2> QED
        BY <2>4, <2>5 DEF GrantsAreMarked
<1>5. RefreshIsSentOnce' /\ DownIsEmpty'
    BY WorkHas DEF RefreshIsSentOnce, DownIsEmpty
<1>6. ReadyLeaseIsCurrent'
    <2>1. lease[k].at # "ready"
        BY DEF LeasesAreAlone, LeaseIsAlone
    <2> QED
        BY <2>1 DEF ReadyLeaseIsCurrent
<1> QED
    BY <1>3, <1>4, <1>5, <1>6

\* The caller of a change that failed learns nothing of its effect.
LEMMA GivenUp ==
    ASSUME CredInv, CredTypeOK', work.at # "idle", NEW a \in {"storage", "reauthentication"},
           AnswerChange(work.id, a), queue' = queue, work' = NoWork, Accepted' = Accepted,
           \A s : StateOf(s) \in Settled => StateOf(s)' = StateOf(s)
    PROVE  LoginsAreFresh' /\ OutcomesAreTrue'
<1>1. PICK r \in Requests : r = work.id
    BY WorkHas
<1>2. r \in Logins => ~Queued(r)'
    <2>1. Queued(r)' = Queued(r)
        BY DEF Queued
    <2> QED
        BY <1>1, <2>1, WorkHas
<1>3. AnswerChange(r, a) /\ a \in Answers
      /\ a \notin {"done", "generation_conflict", "request_conflict", "not_applied"}
    BY <1>1 DEF Answers
<1> QED
    BY <1>2, <1>3, AnswerKeeps

\* The journal stays or is recovered from credentials it fits.
LEMMA JournalAfter ==
    ASSUME CredInv, NEW c, RecoverySucceeds(journal, c),
           journal' = journal \/ journal' = Recovered(journal, c)
    PROVE  /\ journal' \in Seq(Entries) /\ RecoverySucceeds(journal', c)
           /\ JournalInOrder' /\ JournalStep /\ Accepted' = Accepted
<1> USE DEF CredInv
<1>1. CASE journal' = journal
    <2>1. Len(journal) >= Len(journal)
        BY DEF CredTypeOK
    <2> QED
        BY <1>1, <2>1 DEF CredTypeOK, JournalInOrder, JournalStep, Accepted
<1>2. CASE journal' = Recovered(journal, c)
    BY <1>2, RecoverStep DEF CredTypeOK
<1> QED
    BY <1>1, <1>2

LEMMA WorkTypes ==
    /\ NoWork \in [at : {"idle", "dispatch", "apply", "complete"}, id : Requests \union {None}]
    /\ NoWork.at = "idle" /\ NoWork.id = None
BY DEF NoWork

\* A change is installed, or given up with whatever the replacement left behind.
LEMMA ApplyKeeps ==
    ASSUME CredInv, work.at = "apply", NEW k \in Kinds, k = Kind(work.id),
           NEW c, c = NextState(work.id, mem[k]),
           UNCHANGED <<up, queue, lease, spent, calls>>, faults' \in Nat,
           \A n \in Kinds : n # k => sound'[n] = sound[n],
           file' = file \/ file' = [file EXCEPT ![k] = c],
           mem' = mem \/ mem' = [mem EXCEPT ![k] = c],
           sound' \in [Kinds -> BOOLEAN], sound'[k] => mem'[k] = file'[k],
           journal' = journal \/ journal' = Recovered(journal, file'),
           \/ /\ work' = [work EXCEPT !.at = "complete"] /\ file'[k] = c /\ sound' = sound
              /\ UNCHANGED <<journal, login, change, lock, stopping>>
           \/ /\ work' = NoWork
              /\ \E a \in {"storage", "reauthentication"} : AnswerChange(work.id, a)
    PROVE  CredInv'
<1>0. PICK d : d = [file EXCEPT ![k] = c]
    OBVIOUS
<1>1. /\ c \in Creds /\ c.marker = work.id /\ c.phase \in {"removed", "active"}
      /\ d \in [Kinds -> Creds] /\ d[k] = c /\ \A n \in Kinds : n # k => d[n] = file[n]
      /\ Installed(Newest, d) /\ RecoverySucceeds(journal, d)
    <2>1. c = Effect /\ d = FileAfter
        BY <1>0 DEF Effect, FileAfter
    <2> QED
        BY <2>1, InstallHas
<1> USE DEF CredInv
<1>2. /\ up /\ Consistent /\ mem = file /\ journal # <<>> /\ work.id = Newest.id
      /\ work.id \in Requests /\ Newest.state = "dispatched"
    BY WorkHas DEF WorkFitsJournal
<1>3. (file' = file \/ file' = d) /\ (mem' = file \/ mem' = d)
    BY <1>0, <1>2
<1>4. file' \in [Kinds -> Creds] /\ mem' \in [Kinds -> Creds] /\ RecoverySucceeds(journal, file')
    BY <1>1, <1>3 DEF CredTypeOK, RestartReconciles
<1>5. /\ journal' \in Seq(Entries) /\ RecoverySucceeds(journal', file')
      /\ JournalInOrder' /\ JournalStep /\ Accepted' = Accepted
    BY <1>4, JournalAfter
<1>6. \A n \in Kinds : n # k => file'[n] = file[n] /\ mem'[n] = mem[n]
    BY <1>1, <1>2, <1>3
<1>7. file'[k] = file[k] \/ file'[k].marker = work.id
    BY <1>1, <1>3
<1>8. RestartReconciles'
    BY <1>5 DEF RestartReconciles
<1>9. CopyIsFile'
    <2>1. \A n \in Kinds : /\ file'[n].phase \in {file[n].phase, "removed", "active"}
                           /\ mem'[n].phase \in {file[n].phase, "removed", "active"}
        BY <1>1, <1>3
    <2>2. \A n \in Kinds : sound'[n] => mem'[n] = file'[n]
        BY <1>2, <1>6 DEF CopyIsFile
    <2> QED
        BY <2>1, <2>2 DEF CopyIsFile
<1>10. CASE /\ work' = [work EXCEPT !.at = "complete"] /\ file'[k] = c /\ sound' = sound
            /\ UNCHANGED <<journal, login, change, lock, stopping>>
    <2>1. /\ work' \in [at : {"idle", "dispatch", "apply", "complete"}, id : Requests \union {None}]
          /\ work'.at = "complete" /\ work'.id = work.id
        BY <1>10 DEF CredTypeOK
    <2>2. CredTypeOK'
        BY <1>4, <1>10, <2>1 DEF CredTypeOK
    <2>3. file' = d
        <3>1. file' \in [Kinds -> Creds] /\ d \in [Kinds -> Creds] /\ \A n \in Kinds : file'[n] = d[n]
            BY <1>1, <1>4, <1>6, <1>10
        <3> QED
            BY <3>1
    <2>4. WorkFitsJournal'
        <3>1. Newest' = Newest /\ journal' # <<>>
            BY <1>2, <1>10 DEF Newest
        <3>2. Installed(Newest, d) /\ Installed(Newest, file)' = Installed(Newest, d)
            BY <1>1, <2>3, <3>1 DEF Installed
        <3>3. Consistent'
            <4>1. sound'["opencode"] /\ sound'["openai"]
                BY <1>2, <1>10 DEF Consistent
            <4> QED
                BY <4>1, <1>9, RequestKinds DEF Consistent, CopyIsFile
        <3> QED
            BY <1>2, <2>1, <3>1, <3>2, <3>3 DEF WorkFitsJournal
    <2>5. \A n \in Kinds : lock'[n] = "lease" <=> lock[n] = "lease"
        BY <1>10
    <2>6. LeasesAreAlone' /\ GrantsAreMarked' /\ RefreshIsSentOnce' /\ DownIsEmpty'
          /\ ReadyLeaseIsCurrent'
        BY <1>5, <1>6, <1>7, <2>1, <2>2, <2>5, ApplyElsewhere
    <2>7. LoginsAreFresh' /\ OutcomesAreTrue'
        <3>1. \A s : StateOf(s) \in Settled => StateOf(s)' = StateOf(s)
            BY <1>5, <2>2, JournalStepKeeps
        <3> QED
            BY <1>5, <1>10, <2>1, <2>2, <3>1, LoginsKept DEF QueueQuiet
    <2> QED
        BY <1>5, <1>8, <1>9, <2>2, <2>4, <2>6, <2>7
<1>11. ASSUME work' = NoWork, NEW a \in {"storage", "reauthentication"}, AnswerChange(work.id, a)
       PROVE  CredInv'
    <2>1. a \in Answers
        BY DEF Answers
    <2>2. /\ change' \in [Changes -> ChangeStates] /\ login' \in LoginStates
          /\ lock' \in [Kinds -> Requests \union {None, "lease"}] /\ stopping' \in BOOLEAN
          /\ \A n \in Kinds : lock'[n] = "lease" <=> lock[n] = "lease"
        BY <1>2, <1>11, <2>1, AnswerTypes
    <2>3. CredTypeOK'
        BY <1>4, <1>5, <1>11, <2>2, WorkTypes DEF CredTypeOK
    <2>4. WorkFitsJournal'
        BY <1>11, WorkTypes DEF WorkFitsJournal
    <2>5. LeasesAreAlone' /\ GrantsAreMarked' /\ RefreshIsSentOnce' /\ DownIsEmpty'
          /\ ReadyLeaseIsCurrent'
        BY <1>5, <1>6, <1>7, <1>11, <2>2, <2>3, ApplyElsewhere
    <2>6. LoginsAreFresh' /\ OutcomesAreTrue'
        <3>1. \A s : StateOf(s) \in Settled => StateOf(s)' = StateOf(s)
            BY <1>5, <2>3, JournalStepKeeps
        <3> QED
            BY <1>5, <1>11, <2>3, <3>1, GivenUp
    <2> QED
        BY <1>5, <1>8, <1>9, <2>3, <2>4, <2>5, <2>6
<1> QED
    BY <1>10, <1>11

LEMMA ApplyOpenCodeKeeps ==
    ASSUME CredInv, ApplyOpenCode
    PROVE  CredInv'
<1>1. /\ work.at = "apply" /\ Kind(work.id) = "opencode" /\ "opencode" \in Kinds
      /\ UNCHANGED <<up, queue, lease, spent, calls>>
    BY RequestKinds DEF ApplyOpenCode
<1>2. PICK c : c = NextState(work.id, mem["opencode"])
    OBVIOUS
<1>3. /\ file \in [Kinds -> Creds] /\ mem \in [Kinds -> Creds] /\ mem = file
      /\ sound \in [Kinds -> BOOLEAN] /\ faults \in Nat /\ CopyIsFile
    BY <1>1, WorkHas DEF CredInv, CredTypeOK
<1>4. CASE /\ file' = [file EXCEPT !["opencode"] = c]
           /\ mem' = [mem EXCEPT !["opencode"] = c]
           /\ work' = [work EXCEPT !.at = "complete"]
           /\ UNCHANGED <<sound, journal, login, change, lock, stopping>> /\ NoFault
    <2>1. /\ file'["opencode"] = c /\ mem'["opencode"] = c /\ faults' \in Nat
          /\ sound' \in [Kinds -> BOOLEAN] /\ \A n \in Kinds : sound'[n] = sound[n]
        BY <1>1, <1>3, <1>4 DEF NoFault
    <2> QED
        BY <1>1, <1>2, <1>4, <2>1, ApplyKeeps
<1>5. CASE /\ Fault
           /\ file' = file \/ file' = [file EXCEPT !["opencode"] = c]
           /\ \/ /\ mem' = [mem EXCEPT !["opencode"] = file'["opencode"]]
                 /\ UNCHANGED sound
                 /\ journal' = journal \/ journal' = Recovered(journal, mem')
              \/ /\ sound' = [sound EXCEPT !["opencode"] = FALSE]
                 /\ UNCHANGED <<mem, journal>>
           /\ work' = NoWork
           /\ AnswerChange(work.id, "storage")
    <2>1. faults' \in Nat
        BY <1>3, <1>5 DEF Fault
    <2>2. CASE /\ mem' = [mem EXCEPT !["opencode"] = file'["opencode"]]
               /\ UNCHANGED sound
               /\ journal' = journal \/ journal' = Recovered(journal, mem')
        <3>1. mem' = file'
            <4>1. CASE file' = file
                BY <1>3, <2>2, <4>1
            <4>2. CASE file' = [file EXCEPT !["opencode"] = c]
                BY <1>1, <1>3, <2>2, <4>2
            <4> QED
                BY <1>5, <4>1, <4>2
        <3>2. /\ mem' = mem \/ mem' = [mem EXCEPT !["opencode"] = c]
              /\ journal' = journal \/ journal' = Recovered(journal, file')
              /\ mem'["opencode"] = file'["opencode"]
            BY <1>3, <1>5, <2>2, <3>1
        <3>3. sound' \in [Kinds -> BOOLEAN] /\ \A n \in Kinds : sound'[n] = sound[n]
            BY <1>3, <2>2
        <3> QED
            BY <1>1, <1>2, <1>5, <2>1, <3>2, <3>3, ApplyKeeps
    <2>3. CASE /\ sound' = [sound EXCEPT !["opencode"] = FALSE]
               /\ UNCHANGED <<mem, journal>>
        <3>1. sound' \in [Kinds -> BOOLEAN] /\ ~sound'["opencode"]
              /\ \A n \in Kinds : n # "opencode" => sound'[n] = sound[n]
            BY <1>1, <1>3, <2>3
        <3> QED
            BY <1>1, <1>2, <1>5, <2>1, <2>3, <3>1, ApplyKeeps
    <2> QED
        BY <1>5, <2>2, <2>3
<1> QED
    BY <1>2, <1>4, <1>5 DEF ApplyOpenCode

LEMMA ApplyOpenAiKeeps ==
    ASSUME CredInv, ApplyOpenAi
    PROVE  CredInv'
<1>1. /\ work.at = "apply" /\ Kind(work.id) = "openai" /\ "openai" \in Kinds
      /\ UNCHANGED <<up, queue, lease, spent, calls>>
    BY RequestKinds DEF ApplyOpenAi
<1>2. PICK c : c = NextState(work.id, mem["openai"])
    OBVIOUS
<1>3. /\ file \in [Kinds -> Creds] /\ mem \in [Kinds -> Creds] /\ mem = file
      /\ sound \in [Kinds -> BOOLEAN] /\ faults \in Nat
    BY <1>1, WorkHas DEF CredInv, CredTypeOK
<1>4. CASE /\ file' = [file EXCEPT !["openai"] = c]
           /\ mem' = [mem EXCEPT !["openai"] = c]
           /\ work' = [work EXCEPT !.at = "complete"]
           /\ UNCHANGED <<sound, journal, login, change, lock, stopping>> /\ NoFault
    <2>1. /\ file'["openai"] = c /\ mem'["openai"] = c /\ faults' \in Nat
          /\ sound' \in [Kinds -> BOOLEAN] /\ \A n \in Kinds : sound'[n] = sound[n]
        BY <1>1, <1>3, <1>4 DEF NoFault
    <2> QED
        BY <1>1, <1>2, <1>4, <2>1, ApplyKeeps
<1>5. CASE /\ Fault
           /\ file' = file \/ file' = [file EXCEPT !["openai"] = c]
           /\ mem' = [mem EXCEPT !["openai"] = c]
           /\ sound' = [sound EXCEPT !["openai"] = FALSE]
           /\ work' = NoWork
           /\ AnswerChange(work.id, "storage")
           /\ UNCHANGED journal
    <2>1. /\ faults' \in Nat /\ sound' \in [Kinds -> BOOLEAN] /\ ~sound'["openai"]
          /\ \A n \in Kinds : n # "openai" => sound'[n] = sound[n]
        BY <1>1, <1>3, <1>5 DEF Fault
    <2> QED
        BY <1>1, <1>2, <1>5, <2>1, ApplyKeeps
<1>6. CASE /\ Sets(work.id) /\ Fault
           /\ journal' = Recovered(journal, mem)
           /\ work' = NoWork
           /\ AnswerChange(work.id, "reauthentication")
           /\ UNCHANGED <<file, mem, sound>>
    <2>1. /\ faults' \in Nat /\ sound' \in [Kinds -> BOOLEAN]
          /\ \A n \in Kinds : sound'[n] = sound[n]
          /\ mem'["openai"] = file'["openai"] /\ journal' = Recovered(journal, file')
        BY <1>1, <1>3, <1>6 DEF Fault
    <2> QED
        BY <1>1, <1>2, <1>6, <2>1, ApplyKeeps
<1> QED
    BY <1>2, <1>4, <1>5, <1>6 DEF ApplyOpenAi

-----------------------------------------------------------------------------
(* The worker takes a change.                                              *)

\* The change that is taken, and what is behind it.
LEMMA MutationTaken ==
    ASSUME CredInv, Took("mutate"), NEW r, r = Head1.id
    PROVE  /\ up /\ work = NoWork /\ queue # <<>> /\ queue' = Tail(queue)
           /\ r \in Requests /\ Head1.gen \in Nat /\ Kind(r) \in Kinds
           /\ queue' \in Seq(JobTypes)
           /\ r \in Logins => ~Queued(r)' /\ r \notin Accepted
           /\ \A k \in Kinds : /\ lease[k].at = "begin" => ~OurBegin(k, queue[1])
                               /\ lease[k].at = "finishing" => KindOfMessage(queue[1]) # k
                               /\ Kind(r) # k \/ lease[k].at \in {"idle", "waiting", "begin"}
<1> USE DEF CredInv
<1>1. up /\ work = NoWork /\ queue # <<>> /\ queue' = Tail(queue) /\ queue[1].type = "mutate"
      /\ r = queue[1].id /\ Head1 = queue[1]
    BY DEF Took, Free, Head1
<1>2. /\ 1 \in 1 .. Len(queue) /\ queue' \in Seq(JobTypes)
      /\ \A i \in 1 .. Len(queue') : i + 1 \in 1 .. Len(queue) /\ queue'[i] = queue[i + 1] /\ i \in 1 .. Len(queue')
    BY <1>1, Popped
<1>3. r \in Requests /\ Head1.gen \in Nat /\ Kind(r) \in Kinds
    BY <1>1, <1>2, MessageTypes
<1>4. KindOfMessage(queue[1]) = Kind(r)
    BY <1>1 DEF KindOfMessage
<1>5. ASSUME r \in Logins PROVE ~Queued(r)' /\ r \notin Accepted
    <2>1. Asks(queue[1], r)
        BY <1>1 DEF Asks
    <2>2. ASSUME NEW i \in 1 .. Len(queue'), queue'[i].type = "mutate", queue'[i].id = r
          PROVE  FALSE
        <3>1. Asks(queue[i + 1], r) /\ i + 1 \in 1 .. Len(queue)
            BY <1>2, <2>2 DEF Asks
        <3>2. i + 1 = 1
            BY <1>2, <1>5, <2>1, <3>1 DEF LoginsAreFresh
        <3> QED
            BY <3>2
    <2>3. Queued(r)
        BY <1>1, <1>2 DEF Queued
    <2> QED
        BY <1>5, <2>2, <2>3 DEF Queued, LoginsAreFresh
<1>6. ASSUME NEW k \in Kinds
      PROVE  /\ lease[k].at = "begin" => ~OurBegin(k, queue[1])
             /\ lease[k].at = "finishing" => KindOfMessage(queue[1]) # k
             /\ Kind(r) # k \/ lease[k].at \in {"idle", "waiting", "begin"}
    <2>1. LeaseIsAlone(k) /\ lease[k].at \in LeaseStages
        BY DEF LeasesAreAlone, CredTypeOK, LeaseStates
    <2>2. ~OurBegin(k, queue[1])
        BY <1>1 DEF OurBegin
    <2>3. lease[k].at = "finishing" => KindOfMessage(queue[1]) # k
        BY <1>1, <1>2, <2>1 DEF LeaseIsAlone, OurFinish
    <2>4. lease[k].at \in {"ready", "granted", "exchange"} => KindOfMessage(queue[1]) # k
        BY <1>2, <2>1 DEF LeaseIsAlone
    <2> QED
        BY <1>4, <2>1, <2>2, <2>3, <2>4 DEF LeaseStages
<1> QED
    BY <1>1, <1>2, <1>3, <1>5, <1>6

\* A change that is answered at once.
LEMMA TakenAnswered ==
    ASSUME CredInv, Took("mutate"), NEW r, r = Head1.id, NEW a \in Answers, AnswerChange(r, a),
           journal' = journal \/ journal' = Recovered(journal, file), work' = work,
           UNCHANGED <<up, file, mem, sound, lease, spent, calls>>, faults' \in Nat,
           a = "done" => StateOf(r)' = "completed",
           r \in Logins /\ a \in {"generation_conflict", "request_conflict", "not_applied"} =>
             StateOf(r)' \in {"unknown", "not_applied"}
    PROVE  CredInv'
<1>1. /\ up /\ work = NoWork /\ queue # <<>> /\ queue' = Tail(queue) /\ r \in Requests
      /\ queue' \in Seq(JobTypes) /\ (r \in Logins => ~Queued(r)')
      /\ \A k \in Kinds : /\ lease[k].at = "begin" => ~OurBegin(k, queue[1])
                          /\ lease[k].at = "finishing" => KindOfMessage(queue[1]) # k
    BY MutationTaken
<1>2. /\ journal' \in Seq(Entries) /\ RecoverySucceeds(journal', file)
      /\ JournalInOrder' /\ JournalStep /\ Accepted' = Accepted
    BY JournalAfter DEF CredInv, RestartReconciles
<1> USE DEF CredInv
<1>3. /\ change' \in [Changes -> ChangeStates] /\ login' \in LoginStates
      /\ lock' \in [Kinds -> Requests \union {None, "lease"}] /\ stopping' \in BOOLEAN
      /\ \A k \in Kinds : lock'[k] = "lease" <=> lock[k] = "lease"
    BY <1>1, AnswerTypes
<1>4. CredTypeOK'
    BY <1>1, <1>2, <1>3 DEF CredTypeOK
<1>5. RestartReconciles' /\ CopyIsFile' /\ WorkFitsJournal'
    BY <1>1, <1>2, WorkTypes DEF RestartReconciles, CopyIsFile, WorkFitsJournal
<1>6. LeasesAreAlone'
    <2>1. ASSUME NEW k \in Kinds PROVE LeaseIsAlone(k)'
        <3>1. LeaseIsAlone(k)
            BY DEF LeasesAreAlone
        <3> QED
            BY <1>1, <1>3, <1>4, <3>1, LeasePop, WorkTypes
    <2>2. calls' >= calls
        BY DEF CredTypeOK
    <2> QED
        BY <1>1, <1>4, <2>1, <2>2, MarksKept DEF LeasesAreAlone
<1>7. GrantsAreMarked' /\ RefreshIsSentOnce'
    BY <1>1, <1>2, GrantsKept, WorkTypes DEF RefreshIsSentOnce
<1>8. DownIsEmpty' /\ ReadyLeaseIsCurrent'
    BY <1>1, ReadyKept DEF DownIsEmpty
<1>9. LoginsAreFresh' /\ OutcomesAreTrue'
    <2>1. \A s : StateOf(s) \in Settled => StateOf(s)' = StateOf(s)
        BY <1>2, <1>4, JournalStepKeeps
    <2> QED
        BY <1>1, <1>2, <1>4, <2>1, AnswerKeeps
<1> QED
    BY <1>2, <1>4, <1>5, <1>6, <1>7, <1>8, <1>9

\* A change that is accepted was never accepted before.
LEMMA TakenAccepted ==
    ASSUME CredInv, Took("mutate"), NEW r, r = Head1.id, NEW gen, gen = Head1.gen, Consistent,
           r \notin Accepted, mem[Kind(r)].gen = gen,
           journal' = Append(Recovered(journal, mem),
                             [id |-> r, expected |-> gen, state |-> "prepared", facts |-> {}]),
           work' = [at |-> "dispatch", id |-> r],
           UNCHANGED <<up, file, mem, sound, lease, spent, calls, faults, login, change, lock,
                       stopping>>
    PROVE  CredInv'
<1>1. /\ up /\ work = NoWork /\ queue # <<>> /\ queue' = Tail(queue) /\ r \in Requests
      /\ gen \in Nat /\ Kind(r) \in Kinds
      /\ queue' \in Seq(JobTypes) /\ (r \in Logins => ~Queued(r)')
      /\ \A k \in Kinds : /\ lease[k].at = "begin" => ~OurBegin(k, queue[1])
                          /\ lease[k].at = "finishing" => KindOfMessage(queue[1]) # k
                          /\ Kind(r) # k \/ lease[k].at \in {"idle", "waiting", "begin"}
    BY MutationTaken
<1>2. mem = file
    BY CopyWhenConsistent DEF CredInv
<1>3. PICK R : R = Recovered(journal, file)
    OBVIOUS
<1>4. /\ R \in Seq(Entries) /\ Len(R) = Len(journal) /\ RecoverySucceeds(R, file)
      /\ \A i \in 1 .. Len(R) : R[i].state \in Settled /\ R[i].id = journal[i].id
      /\ \A i, h \in 1 .. Len(R) : R[i].id = R[h].id => i = h
    BY <1>3, RecoverStep DEF CredInv, CredTypeOK, RestartReconciles
<1>5. PICK e : e = [id |-> r, expected |-> gen, state |-> "prepared", facts |-> {}]
    OBVIOUS
<1>6. e \in Entries /\ e.id = r /\ e.expected = gen /\ e.state = "prepared" /\ e.facts = {}
    BY <1>1, <1>5 DEF Entries
<1>7. journal' = Append(R, e)
    BY <1>2, <1>3, <1>5
<1>8. /\ journal' \in Seq(Entries) /\ Ordered(journal') /\ RecoverySucceeds(journal', file)
    <2>1. e.expected = file[Kind(e.id)].gen
        BY <1>2, <1>6
    <2>2. \A i \in 1 .. Len(R) : R[i].state \in Settled
        BY <1>4
    <2>3. /\ Append(R, e) \in Seq(Entries) /\ Ordered(Append(R, e))
          /\ RecoverySucceeds(Append(R, e), file)
        BY <1>4, <1>6, <2>1, <2>2, AppendSucceeds
    <2> QED
        BY <1>7, <2>3
<1>9. /\ Len(journal') = Len(journal) + 1 /\ Len(journal) \in Nat /\ Len(journal') # 0
      /\ journal'[Len(journal')] = e
      /\ \A i \in 1 .. Len(journal) : i \in 1 .. Len(journal') /\ journal'[i] = R[i]
      /\ \A i \in 1 .. Len(journal') : i \in 1 .. Len(journal) \/ i = Len(journal')
    BY <1>4, <1>6, <1>7
<1> USE DEF CredInv
<1>10. \A i \in 1 .. Len(journal) : R[i].id # r
    BY <1>4 DEF Accepted
<1>11. JournalInOrder'
    <2>1. \A i, h \in 1 .. Len(journal') : journal'[i].id = journal'[h].id => i = h
        BY <1>4, <1>6, <1>9, <1>10
    <2> QED
        BY <1>8, <2>1 DEF JournalInOrder, Ordered
<1>12. JournalStep
    <2>1. \A i \in 1 .. Len(journal) : journal[i].state \in Settled => R[i] = journal[i]
        BY <1>3, RecoveredShape DEF CredTypeOK, RestartReconciles, RecoverySucceeds
    <2>2. \A i \in 1 .. Len(journal) : journal'[i].id = journal[i].id
        BY <1>4, <1>9
    <2>3. \A i \in 1 .. Len(journal) : journal[i].state \in Settled =>
            journal'[i].state = journal[i].state
        BY <1>9, <2>1
    <2>4. Len(journal') >= Len(journal)
        BY <1>9
    <2> QED
        BY <2>2, <2>3, <2>4 DEF JournalStep
<1>13. Accepted' = Accepted \union {r}
    <2>1. \A i \in 1 .. Len(journal) : journal'[i].id = journal[i].id
        BY <1>4, <1>9
    <2>2. Len(journal') \in 1 .. Len(journal') /\ journal'[Len(journal')].id = r
        BY <1>6, <1>9
    <2>3. \A q : q \in Accepted' <=> \E i \in 1 .. Len(journal') : journal'[i].id = q
        BY DEF Accepted
    <2>4. \A q : q \in Accepted <=> \E i \in 1 .. Len(journal) : journal[i].id = q
        BY DEF Accepted
    <2>5. ASSUME NEW i \in 1 .. Len(journal')
          PROVE  (\E h \in 1 .. Len(journal) : journal[h].id = journal'[i].id)
                    \/ journal'[i].id = r
        <3>1. i \in 1 .. Len(journal) \/ i = Len(journal')
            BY <1>9
        <3> QED
            BY <2>1, <2>2, <3>1
    <2>6. \A q \in Accepted' : q \in Accepted \/ q = r
        BY <2>3, <2>4, <2>5
    <2>7. \A q \in Accepted : q \in Accepted'
        <3>1. \A i \in 1 .. Len(journal) : i \in 1 .. Len(journal')
            BY <1>9
        <3> QED
            BY <2>1, <2>3, <2>4, <3>1
    <2>8. r \in Accepted'
        BY <2>2, <2>3
    <2> QED
        BY <2>6, <2>7, <2>8
<1>14. CredTypeOK'
    BY <1>1, <1>8 DEF CredTypeOK
<1>15. RestartReconciles' /\ CopyIsFile'
    BY <1>8 DEF RestartReconciles, CopyIsFile
<1>16. WorkFitsJournal'
    <2>1. Newest' = e /\ journal' # <<>>
        BY <1>9 DEF Newest
    <2> QED
        BY <1>1, <1>2, <1>6, <2>1 DEF WorkFitsJournal, Consistent
<1>17. LeasesAreAlone'
    <2>1. ASSUME NEW k \in Kinds PROVE LeaseIsAlone(k)'
        <3>1. LeaseIsAlone(k)
            BY DEF LeasesAreAlone
        <3> QED
            BY <1>1, <1>14, <3>1, LeasePop
    <2>2. calls' >= calls
        BY DEF CredTypeOK
    <2> QED
        BY <1>1, <1>14, <2>1, <2>2, MarksKept DEF LeasesAreAlone
<1>18. GrantsAreMarked' /\ RefreshIsSentOnce'
    BY <1>13, GrantsKept DEF RefreshIsSentOnce
<1>19. DownIsEmpty' /\ ReadyLeaseIsCurrent'
    BY <1>1, ReadyKept DEF DownIsEmpty
<1>20. QueueQuiet /\ 1 \in 1 .. Len(queue)
    BY <1>1, Popped DEF QueueQuiet
<1>21. \A s \in Logins : Queued(s)' => Queued(s) /\ s # r
    BY <1>1, <1>20, QueueQuietKeeps
<1>22. r \in Logins => Queued(r)
    BY <1>1, <1>20 DEF Queued, Took, Head1
<1>23. LoginsAreFresh'
    <2>1. \A s \in Logins : \A i, h \in 1 .. Len(queue') :
            Asks(queue[i], s)' /\ Asks(queue[h], s)' => i = h
        BY <1>20, QueueQuietKeeps DEF LoginsAreFresh
    <2>2. login.at \in {"callback", "exchange", "acquiring"} =>
            login.id # r /\ login.id \notin Accepted /\ ~Queued(login.id) /\ login.id \in Logins
        <3>1. login.at \in {"callback", "exchange", "acquiring"} => login.id \in Logins
            BY DEF LoginsAreFresh, CredTypeOK, LoginStates
        <3> QED
            BY <1>22, <3>1 DEF LoginsAreFresh
    <2>3. login.at \in {"callback", "exchange", "acquiring"} => ~Queued(login.id)'
        BY <1>21, <2>2
    <2>4. \A s \in Logins : Queued(s)' \/ s = r =>
            /\ login.id = s
            /\ \/ login.at = "installing"
               \/ login.at = "ended" /\ login.outcome = "uncertain" /\ stopping
        BY <1>21, <1>22 DEF LoginsAreFresh
    <2>5. \A s \in Logins : Queued(s)' => s \notin Accepted'
        BY <1>13, <1>21 DEF LoginsAreFresh
    <2>6. login.at # "none" => login.id # None
        BY DEF LoginsAreFresh
    <2> QED
        BY <1>13, <2>1, <2>2, <2>3, <2>4, <2>5, <2>6 DEF LoginsAreFresh
<1>24. OutcomesAreTrue'
    <2>1. \A s : StateOf(s) \in Settled => StateOf(s)' = StateOf(s)
        BY <1>11, <1>12, <1>14, JournalStepKeeps
    <2>2. ASSUME login.at = "ended", login.outcome \notin {"installed", "uncertain"}
          PROVE  /\ StateOf(login.id)' \in {"unknown", "not_applied"}
                 /\ ~Queued(login.id)' /\ work'.id # login.id
        <3>1. /\ StateOf(login.id) \in {"unknown", "not_applied"} /\ ~Queued(login.id)
              /\ login.id \in Logins
            BY <2>2 DEF OutcomesAreTrue, LoginsAreFresh, CredTypeOK, LoginStates
        <3>2. login.id # r
            BY <1>22, <3>1
        <3>3. PICK s \in Logins : s = login.id
            BY <3>1
        <3>4. StateOf(s)' \in {"unknown", "not_applied"}
            <4>1. CASE StateOf(s) = "not_applied"
                BY <2>1, <4>1 DEF Settled
            <4>2. CASE StateOf(s) = "unknown"
                <5>1. s \notin Accepted
                    <6> SUFFICES ASSUME s \in Accepted PROVE FALSE
                        OBVIOUS
                    <6>1. PICK i \in 1 .. Len(journal) : journal[i].id = s
                        BY StateOfMeans
                    <6>2. StateOf(s) = journal[i].state /\ journal[i] \in Entries
                        BY <6>1, StateOfMeans DEF CredTypeOK
                    <6> QED
                        BY <4>2, <6>2 DEF Entries
                <5>2. s \notin Accepted'
                    BY <1>13, <3>2, <3>3, <5>1
                <5> QED
                    BY <5>2 DEF StateOf
            <4> QED
                BY <3>1, <3>3, <4>1, <4>2
        <3>5. ~Queued(s)' /\ work'.id # s
            BY <1>21, <3>1, <3>2, <3>3
        <3> QED
            BY <3>3, <3>4, <3>5
    <2>3. login.at = "ended" /\ login.outcome = "installed" => StateOf(login.id)' = "completed"
        BY <2>1 DEF OutcomesAreTrue, Settled
    <2>4. \A s \in Changes : change'[s].answer = "done" => StateOf(s)' = "completed"
        BY <2>1 DEF OutcomesAreTrue, Settled
    <2> QED
        BY <2>2, <2>3, <2>4 DEF OutcomesAreTrue
<1> QED
    BY <1>11, <1>14, <1>15, <1>16, <1>17, <1>18, <1>19, <1>23, <1>24

LEMMA TakeMutationKeeps ==
    ASSUME CredInv, TakeMutation
    PROVE  CredInv'
<1>1. Took("mutate") /\ UNCHANGED <<up, file, mem, sound, lease, spent, calls>>
    BY DEF TakeMutation
<1>2. PICK r, gen : r = Head1.id /\ gen = Head1.gen
    OBVIOUS
<1>3. /\ r \in Requests /\ gen \in Nat /\ (r \in Logins => r \notin Accepted)
    BY <1>1, <1>2, MutationTaken
<1>4. faults \in Nat /\ journal \in Seq(Entries) /\ JournalInOrder
    BY DEF CredInv, CredTypeOK
<1>5. CASE /\ AnswerChange(r, "invalid_state")
           /\ UNCHANGED <<journal, work>> /\ NoFault
    <2>1. "invalid_state" \in Answers /\ faults' \in Nat
        BY <1>4, <1>5 DEF Answers, NoFault
    <2> QED
        BY <1>1, <1>2, <1>5, <2>1, TakenAnswered
<1>6. CASE Consistent /\ RecoverySucceeds(journal, mem)
    <2>1. PICK R : R = Recovered(journal, file)
        OBVIOUS
    <2>2. mem = file
        BY <1>6, CopyWhenConsistent DEF CredInv
    <2>3. /\ R \in Seq(Entries) /\ Len(R) = Len(journal)
          /\ \A i \in 1 .. Len(R) : R[i].state \in Settled /\ R[i].id = journal[i].id
          /\ journal' = R => JournalInOrder' /\ JournalStep /\ Accepted' = Accepted
        BY <1>4, <1>6, <2>1, <2>2, RecoverStep
    <2>4. CASE /\ r \in Accepted
               /\ journal' = R
               /\ AnswerChange(r, ReceiptAnswer(R[EntryOf(R, r)], gen))
               /\ UNCHANGED work /\ NoFault
        <3>1. PICK i \in 1 .. Len(journal') : journal'[i].id = r
            BY <2>3, <2>4 DEF Accepted
        <3>2. EntryOf(R, r) = i
            BY <2>3, <2>4, <3>1 DEF EntryOf, JournalInOrder
        <3>3. PICK a : a = ReceiptAnswer(R[i], gen)
            OBVIOUS
        <3>4. a \in Answers /\ (a = "done" => R[i].state = "completed")
            BY <3>3 DEF ReceiptAnswer, Answers
        <3>5. StateOf(r)' = R[i].state
            BY <2>3, <2>4, <3>1, StateAfter
        <3>6. AnswerChange(r, a) /\ r \notin Logins /\ faults' \in Nat
            BY <1>3, <1>4, <2>4, <3>2, <3>3 DEF NoFault
        <3> QED
            BY <1>1, <1>2, <2>1, <2>4, <3>4, <3>5, <3>6, TakenAnswered
    <2>5. CASE /\ r \notin Accepted
               /\ journal' = R
               /\ AnswerChange(r, "generation_conflict")
               /\ UNCHANGED work /\ NoFault
        <3>1. "generation_conflict" \in Answers /\ faults' \in Nat
            BY <1>4, <2>5 DEF Answers, NoFault
        <3>2. StateOf(r)' = "unknown"
            <4>1. r \notin Accepted'
                BY <2>3, <2>5
            <4> QED
                BY <4>1 DEF StateOf
        <3> QED
            BY <1>1, <1>2, <2>1, <2>5, <3>1, <3>2, TakenAnswered
    <2>6. CASE /\ r \notin Accepted /\ mem[Kind(r)].gen = gen
               /\ journal' = Append(R, [id |-> r, expected |-> gen, state |-> "prepared",
                                        facts |-> {}])
               /\ work' = [at |-> "dispatch", id |-> r]
               /\ UNCHANGED <<login, change, lock, stopping>> /\ NoFault
        BY <1>1, <1>2, <1>6, <2>1, <2>2, <2>6, TakenAccepted DEF NoFault
    <2>7. CASE /\ Fault
               /\ journal' = R
               /\ AnswerChange(r, "storage")
               /\ UNCHANGED work
        <3>1. "storage" \in Answers /\ faults' \in Nat
            BY <1>4, <2>7 DEF Answers, Fault
        <3> QED
            BY <1>1, <1>2, <2>1, <2>7, <3>1, TakenAnswered
    <2>8. CASE ~Consistent \/ ~RecoverySucceeds(journal, mem)
        BY <1>6, <2>8
    <2> QED
        BY <1>2, <1>6, <2>1, <2>2, <2>4, <2>5, <2>6, <2>7 DEF TakeMutation
<1> QED
    BY <1>2, <1>5, <1>6 DEF TakeMutation

-----------------------------------------------------------------------------
(* The worker takes a message of a lease.                                  *)

LEMMA LeaseAnswered ==
    ASSUME CredTypeOK, NEW k \in Kinds, NEW mark, NEW at, NEW reply,
           reply.at \in LeaseStages, reply.grant \in Grants \union {None},
           AnswerLease(k, mark, at, reply)
    PROVE  /\ lease' \in [Kinds -> LeaseStates]
           /\ lock' \in [Kinds -> Requests \union {None, "lease"}]
           /\ \A n \in Kinds : n # k => lease'[n] = lease[n] /\ lock'[n] = lock[n]
           /\ ~Holds(k, mark, at) => lease' = lease /\ lock' = lock
           /\ Holds(k, mark, at) /\ reply.at = "idle" =>
                lease'[k].at = "idle" /\ lock'[k] = None
           /\ Holds(k, mark, at) /\ reply.at # "idle" =>
                /\ lease'[k].at = reply.at /\ lease'[k].grant = reply.grant
                /\ lease'[k].gen = lease[k].gen /\ lease'[k].mark = lease[k].mark
                /\ lock' = lock
<1>1. lease \in [Kinds -> LeaseStates] /\ lock \in [Kinds -> Requests \union {None, "lease"}]
    BY DEF CredTypeOK
<1>2. CASE ~Holds(k, mark, at)
    BY <1>1, <1>2 DEF AnswerLease
<1>3. CASE Holds(k, mark, at) /\ reply.at = "idle"
    <2>1. lease' = [lease EXCEPT ![k] = IdleLease] /\ lock' = [lock EXCEPT ![k] = None]
        BY <1>3 DEF AnswerLease, Release
    <2>2. IdleLease \in LeaseStates /\ IdleLease.at = "idle"
        BY DEF IdleLease, LeaseStates, LeaseStages
    <2>3. lease' \in [Kinds -> LeaseStates] /\ lease'[k] = IdleLease
          /\ \A n \in Kinds : n # k => lease'[n] = lease[n]
        BY <1>1, <2>1, <2>2
    <2>4. lock' \in [Kinds -> Requests \union {None, "lease"}] /\ lock'[k] = None
          /\ \A n \in Kinds : n # k => lock'[n] = lock[n]
        BY <1>1, <2>1
    <2> QED
        BY <1>3, <2>2, <2>3, <2>4
<1>4. CASE Holds(k, mark, at) /\ reply.at # "idle"
    <2>1. lease' = [lease EXCEPT ![k].at = reply.at, ![k].grant = reply.grant] /\ lock' = lock
        BY <1>4 DEF AnswerLease
    <2>2. lease[k] \in LeaseStates
        BY <1>1
    <2> DEFINE l == [lease[k] EXCEPT !.at = reply.at, !.grant = reply.grant]
    <2>3. /\ l \in LeaseStates /\ l.at = reply.at /\ l.grant = reply.grant
          /\ l.gen = lease[k].gen /\ l.mark = lease[k].mark
        BY <2>2 DEF LeaseStates
    <2>4. lease' = [lease EXCEPT ![k] = l]
        BY <1>1, <2>1
    <2> HIDE DEF l
    <2>5. lease' \in [Kinds -> LeaseStates] /\ lease'[k] = l
          /\ \A n \in Kinds : n # k => lease'[n] = lease[n]
        BY <1>1, <2>3, <2>4
    <2> QED
        BY <1>1, <1>4, <2>1, <2>3, <2>5
<1> QED
    BY <1>2, <1>3, <1>4

\* The first message of a lease is answered: nothing of its credential is behind it.
LEMMA BeginAnswered ==
    ASSUME CredInv, Took("begin"), NEW k, k = Head1.kind, NEW m, m = Head1.mark
    PROVE  /\ up /\ work = NoWork /\ queue # <<>> /\ queue' = Tail(queue)
           /\ k \in Kinds /\ m \in Nat /\ queue' \in Seq(JobTypes)
           /\ KindOfMessage(queue[1]) = k /\ lease[k].at \in {"idle", "waiting", "begin"}
           /\ lease[k].at = "begin" /\ OurBegin(k, queue[1]) => Holds(k, m, "begin")
           /\ Holds(k, m, "begin") =>
                /\ lease[k].at = "begin" /\ Head1.gen = lease[k].gen
                /\ \A i \in 1 .. Len(queue) : i # 1 => KindOfMessage(queue[i]) # k
           /\ \A n \in Kinds : n # k => ~OurBegin(n, queue[1])
<1> USE DEF CredInv
<1>1. up /\ work = NoWork /\ queue # <<>> /\ queue' = Tail(queue) /\ queue[1].type = "begin"
      /\ k = queue[1].kind /\ m = queue[1].mark /\ Head1 = queue[1]
    BY DEF Took, Free, Head1
<1>2. /\ 1 \in 1 .. Len(queue) /\ queue' \in Seq(JobTypes)
      /\ \A i \in 1 .. Len(queue) : i # 1 => i > 1
    BY <1>1, Popped
<1>3. k \in Kinds /\ m \in Nat
    BY <1>1, <1>2, MessageTypes
<1>4. KindOfMessage(queue[1]) = k
    BY <1>1 DEF KindOfMessage
<1>5. LeaseIsAlone(k) /\ lease[k].at \in LeaseStages
    BY <1>3 DEF LeasesAreAlone, CredTypeOK, LeaseStates
<1>6. lease[k].at \in {"idle", "waiting", "begin"}
    <2>1. lease[k].at # "finishing"
        BY <1>1, <1>2, <1>4, <1>5 DEF LeaseIsAlone, OurFinish
    <2>2. lease[k].at \notin {"ready", "granted", "exchange"}
        BY <1>2, <1>4, <1>5 DEF LeaseIsAlone
    <2> QED
        BY <1>5, <2>1, <2>2 DEF LeaseStages
<1>7. lease[k].at = "begin" /\ OurBegin(k, queue[1]) => Holds(k, m, "begin")
    BY <1>1, <1>5 DEF LeaseIsAlone, OurBegin, Holds
<1>8. ASSUME Holds(k, m, "begin")
      PROVE  /\ lease[k].at = "begin" /\ Head1.gen = lease[k].gen
             /\ \A i \in 1 .. Len(queue) : i # 1 => KindOfMessage(queue[i]) # k
    <2>1. lease[k].at = "begin" /\ OurBegin(k, queue[1])
        BY <1>1, <1>8 DEF Holds, OurBegin
    <2>2. PICK p \in 1 .. Len(queue) :
            /\ OurBegin(k, queue[p]) /\ queue[p].gen = lease[k].gen
            /\ \A i \in 1 .. Len(queue) : i < p => ~OurBegin(k, queue[i])
            /\ \A i \in 1 .. Len(queue) : i > p => KindOfMessage(queue[i]) # k
        BY <1>5, <2>1 DEF LeaseIsAlone
    <2>3. p = 1
        BY <1>2, <2>1, <2>2
    <2> QED
        BY <1>1, <1>2, <2>1, <2>2, <2>3
<1>9. \A n \in Kinds : n # k => ~OurBegin(n, queue[1])
    BY <1>1 DEF OurBegin
<1> QED
    BY <1>1, <1>2, <1>3, <1>4, <1>6, <1>7, <1>8, <1>9

LEMMA BeginKeepsLeases ==
    ASSUME CredInv, CredTypeOK', Took("begin"), NEW k, k = Head1.kind, NEW m, m = Head1.mark,
           NEW reply, reply.at \in {"idle", "ready", "granted"},
           reply.grant \in Grants \union {None},
           reply.at = "granted" => k = "openai" /\ reply.grant \in Grants,
           AnswerLease(k, m, "begin", reply), UNCHANGED <<work, calls>>
    PROVE  LeasesAreAlone'
<1>1. /\ work = NoWork /\ queue # <<>> /\ queue' = Tail(queue)
      /\ k \in Kinds /\ KindOfMessage(queue[1]) = k /\ lease[k].at \in {"idle", "waiting", "begin"}
      /\ lease[k].at = "begin" /\ OurBegin(k, queue[1]) => Holds(k, m, "begin")
      /\ Holds(k, m, "begin") =>
           /\ lease[k].at = "begin"
           /\ \A i \in 1 .. Len(queue) : i # 1 => KindOfMessage(queue[i]) # k
      /\ \A n \in Kinds : n # k => ~OurBegin(n, queue[1])
    BY BeginAnswered
<1> USE DEF CredInv
<1>2. reply.at \in LeaseStages
    BY DEF LeaseStages
<1>3. calls' >= calls /\ calls \in Nat
    BY DEF CredTypeOK
<1>4. /\ \A n \in Kinds : n # k => lease'[n] = lease[n] /\ lock'[n] = lock[n]
      /\ ~Holds(k, m, "begin") => lease' = lease /\ lock' = lock
      /\ Holds(k, m, "begin") /\ reply.at = "idle" => lease'[k].at = "idle" /\ lock'[k] = None
      /\ Holds(k, m, "begin") /\ reply.at # "idle" =>
           /\ lease'[k].at = reply.at /\ lease'[k].grant = reply.grant
           /\ lease'[k].gen = lease[k].gen /\ lease'[k].mark = lease[k].mark
           /\ lock' = lock
    BY <1>1, <1>2, LeaseAnswered
<1>5. ASSUME NEW n \in Kinds, n # k \/ ~Holds(k, m, "begin") PROVE LeaseIsAlone(n)'
    <2>1. LeaseIsAlone(n)
        BY DEF LeasesAreAlone
    <2>2. lease'[n] = lease[n] /\ lock'[n] = lock[n]
          /\ (lease'["openai"] = lease["openai"] \/ n # "openai")
        BY <1>4, <1>5
    <2>3. lease[n].at = "begin" => ~OurBegin(n, queue[1])
        BY <1>1, <1>5
    <2>4. lease[n].at = "finishing" => KindOfMessage(queue[1]) # n
        BY <1>1, <1>5
    <2> QED
        BY <1>1, <2>1, <2>2, <2>3, <2>4, LeasePop, WorkTypes
<1>6. ASSUME Holds(k, m, "begin") PROVE LeaseIsAlone(k)'
    <2>1. LeaseIsAlone(k) /\ lock[k] = "lease"
        BY <1>1, <1>6 DEF LeasesAreAlone, Holds
    <2>2. CASE reply.at = "idle"
        BY <1>4, <1>6, <2>2, RequestKinds DEF LeaseIsAlone
    <2>3. CASE reply.at # "idle"
        <3>1. \A i \in 1 .. Len(queue') : KindOfMessage(queue[i])' # k
            <4>1. \A i \in 1 .. Len(queue') : i + 1 \in 1 .. Len(queue) /\ queue'[i] = queue[i + 1]
                                              /\ i + 1 # 1
                BY <1>1, Popped
            <4> QED
                BY <1>1, <1>6, <4>1 DEF KindOfMessage
        <3>2. lease'[k].mark <= calls' /\ work'.at = "idle"
            BY <1>1, <1>4, <1>6, <2>1, <2>3, WorkTypes DEF LeaseIsAlone
        <3> QED
            BY <1>4, <1>6, <2>1, <2>3, <3>1, <3>2 DEF LeaseIsAlone
    <2> QED
        BY <2>2, <2>3
<1>7. \A n \in Kinds : LeaseIsAlone(n)'
    BY <1>5, <1>6
<1> QED
    BY <1>1, <1>3, <1>7, MarksKept DEF LeasesAreAlone

\* The answer to a refresh that a lease awaits is its own.
LEMMA FinishAnswered ==
    ASSUME CredInv, Took("finish"), NEW m, m = Head1.mark
    PROVE  /\ up /\ work = NoWork /\ queue # <<>> /\ queue' = Tail(queue)
           /\ m \in Nat /\ Head1.tokens \in BOOLEAN /\ queue' \in Seq(JobTypes)
           /\ "openai" \in Kinds /\ KindOfMessage(queue[1]) = "openai"
           /\ lease["openai"].at \in {"idle", "waiting", "begin", "finishing"}
           /\ lease["openai"].at = "finishing" <=> Holds("openai", m, "finishing")
           /\ Holds("openai", m, "finishing") =>
                /\ Head1.gen = lease["openai"].gen
                /\ \A i \in 1 .. Len(queue) : i # 1 => KindOfMessage(queue[i]) # "openai"
           /\ \A n \in Kinds : ~OurBegin(n, queue[1])
<1> USE DEF CredInv
<1>1. up /\ work = NoWork /\ queue # <<>> /\ queue' = Tail(queue) /\ queue[1].type = "finish"
      /\ m = queue[1].mark /\ Head1 = queue[1]
    BY DEF Took, Free, Head1
<1>2. /\ 1 \in 1 .. Len(queue) /\ queue' \in Seq(JobTypes)
    BY <1>1, Popped
<1>3. m \in Nat /\ Head1.tokens \in BOOLEAN
    BY <1>1, <1>2, MessageTypes
<1>4. KindOfMessage(queue[1]) = "openai" /\ "openai" \in Kinds
    BY <1>1, RequestKinds DEF KindOfMessage
<1>5. LeaseIsAlone("openai") /\ lease["openai"].at \in LeaseStages
    BY <1>4 DEF LeasesAreAlone, CredTypeOK, LeaseStates
<1>6. lease["openai"].at \in {"idle", "waiting", "begin", "finishing"}
    BY <1>2, <1>4, <1>5 DEF LeaseIsAlone, LeaseStages
<1>7. ASSUME lease["openai"].at = "finishing"
      PROVE  /\ OurFinish(queue[1])
             /\ \A i \in 1 .. Len(queue) : i # 1 => KindOfMessage(queue[i]) # "openai"
    <2>1. PICK p \in 1 .. Len(queue) :
            /\ OurFinish(queue[p])
            /\ \A i \in 1 .. Len(queue) : i # p => KindOfMessage(queue[i]) # "openai"
        BY <1>5, <1>7 DEF LeaseIsAlone
    <2>2. p = 1
        BY <1>2, <1>4, <2>1
    <2> QED
        BY <2>1, <2>2
<1>8. lease["openai"].at = "finishing" <=> Holds("openai", m, "finishing")
    BY <1>1, <1>5, <1>7 DEF LeaseIsAlone, OurFinish, Holds
<1>9. \A n \in Kinds : ~OurBegin(n, queue[1])
    BY <1>1 DEF OurBegin
<1>10. Holds("openai", m, "finishing") =>
         /\ Head1.gen = lease["openai"].gen
         /\ \A i \in 1 .. Len(queue) : i # 1 => KindOfMessage(queue[i]) # "openai"
    BY <1>1, <1>7, <1>8 DEF OurFinish
<1> QED
    BY <1>1, <1>2, <1>3, <1>4, <1>6, <1>8, <1>9, <1>10

LEMMA FinishKeepsLeases ==
    ASSUME CredInv, CredTypeOK', Took("finish"), NEW m, m = Head1.mark,
           NEW reply, reply.at \in {"idle", "ready"}, reply.grant \in Grants \union {None},
           AnswerLease("openai", m, "finishing", reply), UNCHANGED <<work, calls>>
    PROVE  LeasesAreAlone'
<1>1. /\ work = NoWork /\ queue # <<>> /\ queue' = Tail(queue)
      /\ "openai" \in Kinds /\ KindOfMessage(queue[1]) = "openai"
      /\ lease["openai"].at = "finishing" <=> Holds("openai", m, "finishing")
      /\ Holds("openai", m, "finishing") =>
           \A i \in 1 .. Len(queue) : i # 1 => KindOfMessage(queue[i]) # "openai"
      /\ \A n \in Kinds : ~OurBegin(n, queue[1])
    BY FinishAnswered
<1> USE DEF CredInv
<1>2. reply.at \in LeaseStages
    BY DEF LeaseStages
<1>3. calls' >= calls /\ calls \in Nat
    BY DEF CredTypeOK
<1>4. /\ \A n \in Kinds : n # "openai" => lease'[n] = lease[n] /\ lock'[n] = lock[n]
      /\ ~Holds("openai", m, "finishing") => lease' = lease /\ lock' = lock
      /\ Holds("openai", m, "finishing") /\ reply.at = "idle" =>
           lease'["openai"].at = "idle" /\ lock'["openai"] = None
      /\ Holds("openai", m, "finishing") /\ reply.at # "idle" =>
           /\ lease'["openai"].at = reply.at /\ lease'["openai"].grant = reply.grant
           /\ lease'["openai"].gen = lease["openai"].gen
           /\ lease'["openai"].mark = lease["openai"].mark
           /\ lock' = lock
    BY <1>1, <1>2, LeaseAnswered
<1>5. ASSUME NEW n \in Kinds, n # "openai" \/ ~Holds("openai", m, "finishing")
      PROVE  LeaseIsAlone(n)'
    <2>1. LeaseIsAlone(n)
        BY DEF LeasesAreAlone
    <2>2. lease'[n] = lease[n] /\ lock'[n] = lock[n]
          /\ (lease'["openai"] = lease["openai"] \/ n # "openai")
        BY <1>4, <1>5
    <2>3. ~OurBegin(n, queue[1])
        BY <1>1
    <2>4. lease[n].at = "finishing" => KindOfMessage(queue[1]) # n
        BY <1>1, <1>5
    <2> QED
        BY <1>1, <2>1, <2>2, <2>3, <2>4, LeasePop, WorkTypes
<1>6. ASSUME Holds("openai", m, "finishing") PROVE LeaseIsAlone("openai")'
    <2>1. LeaseIsAlone("openai") /\ lock["openai"] = "lease" /\ lease["openai"].at = "finishing"
        BY <1>1, <1>6 DEF LeasesAreAlone, Holds
    <2>2. CASE reply.at = "idle"
        BY <1>4, <1>6, <2>2, RequestKinds DEF LeaseIsAlone
    <2>3. CASE reply.at # "idle"
        <3>1. \A i \in 1 .. Len(queue') : KindOfMessage(queue[i])' # "openai"
            <4>1. \A i \in 1 .. Len(queue') : i + 1 \in 1 .. Len(queue) /\ queue'[i] = queue[i + 1]
                                              /\ i + 1 # 1
                BY <1>1, Popped
            <4> QED
                BY <1>1, <1>6, <4>1 DEF KindOfMessage
        <3>2. lease'["openai"].mark <= calls' /\ work'.at = "idle"
            BY <1>1, <1>4, <1>6, <2>1, <2>3, WorkTypes DEF LeaseIsAlone
        <3> QED
            BY <1>4, <1>6, <2>1, <2>3, <3>1, <3>2 DEF LeaseIsAlone
    <2> QED
        BY <2>2, <2>3
<1>7. \A n \in Kinds : LeaseIsAlone(n)'
    BY <1>5, <1>6
<1> QED
    BY <1>1, <1>3, <1>7, MarksKept DEF LeasesAreAlone

\* Replacing the tokens of the ChatGPT credential changes nothing that a recovery reads.
LEMMA SaveKeeps ==
    ASSUME CredInv, Consistent, work = NoWork, UNCHANGED <<journal, work>>, NEW c \in Creds,
           c.gen = mem["openai"].gen, c.marker = mem["openai"].marker,
           c.phase = "removed" <=> mem["openai"].phase = "removed", SaveOpenAi(c)
    PROVE  /\ file' \in [Kinds -> Creds] /\ mem' \in [Kinds -> Creds]
           /\ sound' \in [Kinds -> BOOLEAN] /\ faults' \in Nat
           /\ JournalInOrder' /\ RestartReconciles' /\ CopyIsFile' /\ WorkFitsJournal'
           /\ Accepted' = Accepted /\ \A s : StateOf(s)' = StateOf(s)
           /\ mem["openai"] = file["openai"] /\ mem'["openai"] = c
           /\ file'["openai"] = file["openai"] \/ file'["openai"] = c
           /\ sound'["openai"] => file'["openai"] = c
           /\ \A k \in Kinds : k # "openai" => mem'[k] = mem[k] /\ sound'[k] = sound[k]
<1> USE DEF CredInv
<1>1. /\ file \in [Kinds -> Creds] /\ mem \in [Kinds -> Creds] /\ sound \in [Kinds -> BOOLEAN]
      /\ faults \in Nat /\ mem = file /\ "openai" \in Kinds
    BY CopyWhenConsistent, RequestKinds DEF CredTypeOK
<1>2. PICK d : d = [file EXCEPT !["openai"] = c]
    OBVIOUS
<1>3. d \in [Kinds -> Creds] /\ d["openai"] = c /\ \A k \in Kinds : k # "openai" => d[k] = file[k]
    BY <1>1, <1>2
<1>4. mem' = d /\ (file' = d \/ file' = file)
    BY <1>1, <1>2 DEF SaveOpenAi
<1>5. /\ faults' \in Nat
      /\ \/ sound' = sound /\ file' = d
         \/ sound' = [sound EXCEPT !["openai"] = FALSE]
    BY <1>1, <1>2 DEF SaveOpenAi, Fault, NoFault
<1>6. /\ sound' \in [Kinds -> BOOLEAN] /\ \A k \in Kinds : k # "openai" => sound'[k] = sound[k]
      /\ sound'["openai"] => file' = d
    BY <1>1, <1>5
<1>7. SameLogin(file, file')
    BY <1>1, <1>3, <1>4 DEF SameLogin
<1>8. JournalInOrder' /\ Accepted' = Accepted /\ \A s : StateOf(s)' = StateOf(s)
    BY DEF JournalInOrder, Accepted, StateOf, EntryOf
<1>9. RestartReconciles'
    <2>1. RecoverySucceeds(journal, file')
        BY <1>7, SameLoginRecovers DEF RestartReconciles, CredTypeOK
    <2> QED
        BY <2>1 DEF RestartReconciles
<1>10. CopyIsFile'
    BY <1>1, <1>3, <1>4, <1>6 DEF CopyIsFile
<1>11. WorkFitsJournal'
    BY WorkTypes DEF WorkFitsJournal
<1> QED
    BY <1>1, <1>3, <1>4, <1>5, <1>6, <1>8, <1>9, <1>10, <1>11

\* A credential that is there was installed by an accepted request.
LEMMA MarkerAccepted ==
    ASSUME CredInv, NEW k \in Kinds, file[k].phase # "removed"
    PROVE  file[k].marker \in Accepted
<1> USE DEF CredInv
<1>1. PICK R : R = Recovered(journal, file)
    OBVIOUS
<1>2. /\ R \in Seq(Entries) /\ Len(R) = Len(journal)
      /\ \A i \in 1 .. Len(R) : R[i].id = journal[i].id
    BY <1>1, RecoverStep DEF CredTypeOK, RestartReconciles
<1>3. CredentialStateValid(R, file)
    BY <1>1 DEF RestartReconciles, RecoverySucceeds
<1>4. Done(R, k) # {} /\ file[k].marker = R[LastIn(Done(R, k))].id
    BY <1>3, StateValidMeans
<1>5. LastIn(Done(R, k)) \in 1 .. Len(R)
    BY <1>2, <1>4, DoneIsFinite, HighestIsLast
<1> QED
    BY <1>2, <1>4, <1>5 DEF Accepted

\* What taking a message of a lease leaves alone.
LEMMA LeaseTaken ==
    ASSUME CredInv, up, queue # <<>>, queue' = Tail(queue),
           UNCHANGED <<up, journal, work, change, login, stopping, spent, calls>>,
           file' \in [Kinds -> Creds], mem' \in [Kinds -> Creds], sound' \in [Kinds -> BOOLEAN],
           faults' \in Nat, lease' \in [Kinds -> LeaseStates],
           lock' \in [Kinds -> Requests \union {None, "lease"}]
    PROVE  CredTypeOK' /\ LoginsAreFresh' /\ OutcomesAreTrue' /\ RefreshIsSentOnce' /\ DownIsEmpty'
<1> USE DEF CredInv
<1>1. queue' \in Seq(JobTypes)
    BY Popped
<1>2. CredTypeOK'
    BY <1>1 DEF CredTypeOK
<1>3. Accepted' = Accepted /\ \A s : StateOf(s)' = StateOf(s)
    BY DEF Accepted, StateOf, EntryOf
<1>4. QueueQuiet
    BY DEF QueueQuiet
<1>5. LoginsAreFresh' /\ OutcomesAreTrue'
    BY <1>2, <1>3, <1>4, LoginsKept
<1> QED
    BY <1>2, <1>5 DEF RefreshIsSentOnce, DownIsEmpty

\* Used grants stay marked while the tokens of the ChatGPT file only grow or are marked.
LEMMA TokensKeepGrants ==
    ASSUME CredInv, UNCHANGED <<spent, work>>, work = NoWork, Accepted' = Accepted,
           NEW c \in Creds, c.marker = file["openai"].marker,
           \/ c.rev = file["openai"].rev + 1
           \/ c.rev = file["openai"].rev /\ c.phase # "active",
           file'["openai"] = file["openai"] \/ file'["openai"] = c,
           lease'["openai"].at = "granted" =>
             /\ lease'["openai"].grant = <<file["openai"].marker, file["openai"].rev>>
             /\ file["openai"].phase = "active" /\ file["openai"].marker \in Accepted
             /\ file'["openai"] = c /\ c.rev = file["openai"].rev
    PROVE  GrantsAreMarked'
<1> USE DEF CredInv
<1>1. file["openai"] \in Creds /\ "openai" \in Kinds
    BY RequestKinds DEF CredTypeOK
<1>2. PICK f : f = file["openai"]
    OBVIOUS
<1>3. f.rev \in Nat /\ c.rev \in Nat /\ f.marker \in Requests \union {None}
    BY <1>1, <1>2 DEF Creds
<1>4. work'.at = "idle"
    BY DEF NoWork
<1>5. \A g \in Grants : (\E i \in 1 .. Len(spent) : spent[i] = g) =>
        /\ g[1] \in Accepted
        /\ g[1] = f.marker => g[2] <= f.rev /\ (g[2] = f.rev => f.phase # "active")
    BY <1>2 DEF GrantsAreMarked, Used
<1>6. \A g \in Grants : Used(g)' =>
        \/ \E i \in 1 .. Len(spent) : spent[i] = g
        \/ /\ lease'["openai"].at = "granted" /\ g = <<f.marker, f.rev>>
    BY <1>2 DEF Used
<1>7. ASSUME NEW g \in Grants, Used(g)'
      PROVE  /\ g[1] \in Accepted'
             /\ work'.at \in {"dispatch", "apply"} => g[1] # work'.id
             /\ g[1] = file'["openai"].marker =>
                   /\ g[2] <= file'["openai"].rev
                   /\ g[2] = file'["openai"].rev => file'["openai"].phase # "active"
    <2>1. g[2] \in Nat
        BY DEF Grants
    <2>2. CASE \E i \in 1 .. Len(spent) : spent[i] = g
        <3>1. /\ g[1] \in Accepted
              /\ g[1] = f.marker => g[2] <= f.rev /\ (g[2] = f.rev => f.phase # "active")
            BY <1>5, <2>2
        <3>2. CASE file'["openai"] = f
            BY <1>4, <3>1, <3>2
        <3>3. CASE file'["openai"] = c
            BY <1>2, <1>3, <1>4, <2>1, <3>1, <3>3
        <3> QED
            BY <1>2, <3>2, <3>3
    <2>3. CASE lease'["openai"].at = "granted" /\ g = <<f.marker, f.rev>>
        <3>1. g[1] = f.marker /\ g[2] = f.rev
            BY <2>3
        <3>2. f.marker \in Accepted /\ file'["openai"] = c /\ c.rev = f.rev
            BY <1>2, <2>3
        <3>3. c.phase # "active"
            BY <1>2, <1>3, <3>2
        <3> QED
            BY <1>3, <1>4, <3>1, <3>2, <3>3
    <2> QED
        BY <1>6, <1>7, <2>2, <2>3
<1>8. ASSUME NEW i \in 1 .. Len(spent), lease'["openai"].at = "granted"
      PROVE  spent[i] # lease'["openai"].grant
    <2>1. spent[i] \in Grants
        BY DEF CredTypeOK
    <2>2. f.phase = "active" /\ lease'["openai"].grant = <<f.marker, f.rev>>
        BY <1>2, <1>8
    <2>3. spent[i] = <<f.marker, f.rev>> => spent[i][1] = f.marker /\ spent[i][2] = f.rev
        OBVIOUS
    <2> QED
        BY <1>5, <2>1, <2>2, <2>3
<1> QED
    BY <1>7, <1>8 DEF GrantsAreMarked

\* The worker answers a lease without writing.
LEMMA BeginUnwritten ==
    ASSUME CredInv, Took("begin"), NEW k, k = Head1.kind, NEW m, m = Head1.mark,
           NEW reply, reply.at \in {"idle", "ready"}, reply.grant = None,
           reply.at = "ready" => mem[k].gen = Head1.gen /\ mem[k].phase = "active",
           AnswerLease(k, m, "begin", reply), UNCHANGED <<file, mem, sound, faults>>,
           UNCHANGED <<up, journal, work, change, login, stopping, spent, calls>>
    PROVE  CredInv'
<1>1. /\ up /\ work = NoWork /\ queue # <<>> /\ queue' = Tail(queue) /\ k \in Kinds
      /\ lease[k].at \in {"idle", "waiting", "begin"}
      /\ Holds(k, m, "begin") => Head1.gen = lease[k].gen
    BY BeginAnswered
<1> USE DEF CredInv
<1>2. reply.at \in LeaseStages /\ reply.grant \in Grants \union {None}
    BY DEF LeaseStages
<1>3. /\ lease' \in [Kinds -> LeaseStates]
      /\ lock' \in [Kinds -> Requests \union {None, "lease"}]
      /\ \A n \in Kinds : n # k => lease'[n] = lease[n]
      /\ ~Holds(k, m, "begin") => lease' = lease
      /\ Holds(k, m, "begin") /\ reply.at = "idle" => lease'[k].at = "idle"
      /\ Holds(k, m, "begin") /\ reply.at # "idle" =>
           lease'[k].at = reply.at /\ lease'[k].gen = lease[k].gen
    BY <1>1, <1>2, LeaseAnswered
<1>4. CredTypeOK' /\ LoginsAreFresh' /\ OutcomesAreTrue' /\ RefreshIsSentOnce' /\ DownIsEmpty'
    <2>1. file' \in [Kinds -> Creds] /\ mem' \in [Kinds -> Creds]
          /\ sound' \in [Kinds -> BOOLEAN] /\ faults' \in Nat
        BY DEF CredTypeOK
    <2> QED
        BY <1>1, <1>3, <2>1, LeaseTaken
<1>5. LeasesAreAlone'
    BY <1>2, <1>4, BeginKeepsLeases
<1>6. JournalInOrder' /\ RestartReconciles' /\ CopyIsFile' /\ WorkFitsJournal' /\ Accepted' = Accepted
    BY StoresKept
<1>7. lease'[k].at # "granted"
    BY <1>1, <1>3
<1>8. GrantsAreMarked'
    <2>1. lease'["openai"].at = "granted" => lease'["openai"] = lease["openai"]
        BY <1>3, <1>7, RequestKinds
    <2> QED
        BY <1>6, <2>1, GrantsKept
<1>9. ReadyLeaseIsCurrent'
    <2> SUFFICES ASSUME NEW n \in Kinds, lease'[n].at = "ready", sound'[n]
                 PROVE  mem'[n].gen = lease'[n].gen /\ mem'[n].phase = "active"
        BY DEF ReadyLeaseIsCurrent
    <2>1. CASE n # k
        BY <1>3, <2>1 DEF ReadyLeaseIsCurrent
    <2>2. CASE n = k
        BY <1>1, <1>3, <2>2
    <2> QED
        BY <2>1, <2>2
<1> QED
    BY <1>4, <1>5, <1>6, <1>8, <1>9

\* The worker marks the ChatGPT credential before it answers a lease.
LEMMA BeginWritten ==
    ASSUME CredInv, Took("begin"), Head1.kind = "openai", NEW m, m = Head1.mark, Consistent,
           NEW c \in Creds, c.gen = mem["openai"].gen, c.marker = mem["openai"].marker,
           c.rev = mem["openai"].rev, c.phase # "active",
           c.phase = "removed" <=> mem["openai"].phase = "removed", SaveOpenAi(c),
           NEW reply, reply.at \in {"idle", "granted"}, reply.grant \in Grants \union {None},
           reply.at = "granted" =>
             /\ sound'["openai"] /\ mem["openai"].phase = "active"
             /\ reply.grant = <<mem["openai"].marker, mem["openai"].rev>>,
           AnswerLease("openai", m, "begin", reply),
           UNCHANGED <<up, journal, work, change, login, stopping, spent, calls>>
    PROVE  CredInv'
<1>1. /\ up /\ work = NoWork /\ queue # <<>> /\ queue' = Tail(queue) /\ "openai" \in Kinds
      /\ lease["openai"].at \in {"idle", "waiting", "begin"}
    BY BeginAnswered
<1>2. reply.at \in LeaseStages /\ (reply.at = "granted" => reply.grant \in Grants)
    <2>1. mem["openai"] \in Creds
        BY <1>1 DEF CredInv, CredTypeOK
    <2> QED
        BY <2>1 DEF LeaseStages, Creds, Grants
<1>3. /\ lease' \in [Kinds -> LeaseStates]
      /\ lock' \in [Kinds -> Requests \union {None, "lease"}]
      /\ \A n \in Kinds : n # "openai" => lease'[n] = lease[n]
      /\ ~Holds("openai", m, "begin") => lease' = lease
      /\ Holds("openai", m, "begin") =>
           lease'["openai"].at = reply.at
      /\ Holds("openai", m, "begin") /\ reply.at # "idle" =>
           lease'["openai"].grant = reply.grant
    BY <1>1, <1>2, LeaseAnswered DEF CredInv
<1>4. /\ file' \in [Kinds -> Creds] /\ mem' \in [Kinds -> Creds]
      /\ sound' \in [Kinds -> BOOLEAN] /\ faults' \in Nat
      /\ JournalInOrder' /\ RestartReconciles' /\ CopyIsFile' /\ WorkFitsJournal'
      /\ Accepted' = Accepted
      /\ mem["openai"] = file["openai"]
      /\ file'["openai"] = file["openai"] \/ file'["openai"] = c
      /\ sound'["openai"] => file'["openai"] = c
      /\ \A k \in Kinds : k # "openai" => mem'[k] = mem[k] /\ sound'[k] = sound[k]
    BY <1>1, SaveKeeps
<1> USE DEF CredInv
<1>5. CredTypeOK' /\ LoginsAreFresh' /\ OutcomesAreTrue' /\ RefreshIsSentOnce' /\ DownIsEmpty'
    BY <1>1, <1>3, <1>4, LeaseTaken
<1>6. LeasesAreAlone'
    BY <1>2, <1>5, BeginKeepsLeases
<1>7. lease'["openai"].at # "ready"
      /\ (lease'["openai"].at = "granted" => reply.at = "granted" /\ lease'["openai"].grant = reply.grant)
    BY <1>1, <1>3
<1>8. GrantsAreMarked'
    <2>1. lease'["openai"].at = "granted" =>
             /\ lease'["openai"].grant = <<file["openai"].marker, file["openai"].rev>>
             /\ file["openai"].phase = "active" /\ file["openai"].marker \in Accepted
             /\ file'["openai"] = c /\ c.rev = file["openai"].rev
        BY <1>1, <1>4, <1>7, MarkerAccepted
    <2> QED
        BY <1>1, <1>4, <2>1, TokensKeepGrants
<1>9. ReadyLeaseIsCurrent'
    BY <1>3, <1>4, <1>7 DEF ReadyLeaseIsCurrent
<1> QED
    BY <1>4, <1>5, <1>6, <1>8, <1>9

LEMMA TakeBeginKeeps ==
    ASSUME CredInv, TakeBegin
    PROVE  CredInv'
<1>1. Took("begin") /\ UNCHANGED <<up, journal, work, change, login, stopping, spent, calls>>
    BY DEF TakeBegin
<1>2. PICK k, m : k = Head1.kind /\ m = Head1.mark
    OBVIOUS
<1>3. k \in Kinds /\ m \in Nat
    BY <1>1, <1>2, BeginAnswered
<1>4. mem[k] \in Creds /\ (Consistent => mem = file) /\ file[k] \in Creds
    BY <1>3, CopyWhenConsistent DEF CredInv, CredTypeOK
<1>5. ErrorReply.at = "idle" /\ ErrorReply.grant = None
    BY DEF ErrorReply
<1>6. PICK c : c = SettledRefresh(mem[k])
    OBVIOUS
<1>7. CASE AnswerLease(k, m, "begin", ErrorReply) /\ UNCHANGED <<file, mem, sound>> /\ NoFault
    BY <1>1, <1>2, <1>5, <1>7, BeginUnwritten DEF NoFault
<1>8. CASE /\ Consistent /\ mem[k].phase \in {"dispatched", "reauth", "removed"}
           /\ AnswerLease(k, m, "begin", ErrorReply) /\ c # mem[k] /\ SaveOpenAi(c)
    <2>1. mem[k].phase = "dispatched" /\ c.phase = "reauth"
        BY <1>4, <1>6, <1>8 DEF SettledRefresh, Creds
    <2>2. k = "openai"
        BY <1>3, <2>1 DEF CredInv, CopyIsFile, Kinds
    <2>3. c \in Creds /\ c.gen = mem["openai"].gen /\ c.marker = mem["openai"].marker
          /\ c.rev = mem["openai"].rev /\ c.phase # "active"
          /\ (c.phase = "removed" <=> mem["openai"].phase = "removed")
        BY <1>4, <1>6, <2>1, <2>2, RefreshSettles
    <2> QED
        BY <1>1, <1>2, <1>5, <1>8, <2>2, <2>3, BeginWritten
<1>9. CASE /\ Consistent /\ mem[k].gen = Head1.gen /\ mem[k].phase = "active"
           /\ AnswerLease(k, m, "begin", [at |-> "ready", grant |-> None])
           /\ UNCHANGED <<file, mem, sound>> /\ NoFault
    <2>1. PICK reply : reply = [at |-> "ready", grant |-> None]
        OBVIOUS
    <2>2. reply.at = "ready" /\ reply.grant = None /\ AnswerLease(k, m, "begin", reply)
        BY <1>9, <2>1
    <2> QED
        BY <1>1, <1>2, <1>9, <2>2, BeginUnwritten DEF NoFault
<1>10. CASE /\ k = "openai" /\ Consistent /\ mem[k].phase = "active"
            /\ SaveOpenAi([mem[k] EXCEPT !.phase = "dispatched", !.refresh = m])
            /\ AnswerLease(k, m, "begin",
                  IF sound'["openai"]
                  THEN [at |-> "granted", grant |-> <<mem[k].marker, mem[k].rev>>]
                  ELSE ErrorReply)
    <2>1. PICK d : d = [mem[k] EXCEPT !.phase = "dispatched", !.refresh = m]
        OBVIOUS
    <2>2. d \in Creds /\ d.gen = mem["openai"].gen /\ d.marker = mem["openai"].marker
          /\ d.rev = mem["openai"].rev /\ d.phase = "dispatched"
        BY <1>3, <1>4, <1>10, <2>1 DEF Creds
    <2>3. PICK g : g = <<mem["openai"].marker, mem["openai"].rev>>
        OBVIOUS
    <2>4. g \in Grants
        BY <1>4, <1>10, <2>3 DEF Creds, Grants
    <2>5. PICK reply : reply = IF sound'["openai"] THEN [at |-> "granted", grant |-> g]
                               ELSE ErrorReply
        OBVIOUS
    <2>6. /\ reply.at \in {"idle", "granted"} /\ reply.grant \in Grants \union {None}
          /\ reply.at = "granted" => sound'["openai"] /\ reply.grant = g
        BY <1>5, <2>4, <2>5
    <2>7. SaveOpenAi(d) /\ AnswerLease("openai", m, "begin", reply)
        BY <1>10, <2>1, <2>3, <2>5
    <2> QED
        BY <1>1, <1>2, <1>10, <2>2, <2>3, <2>6, <2>7, BeginWritten
<1> QED
    BY <1>2, <1>6, <1>7, <1>8, <1>9, <1>10 DEF TakeBegin

LEMMA FinishRefused ==
    ASSUME CredInv, Took("finish"), NEW m, m = Head1.mark,
           AnswerLease("openai", m, "finishing", ErrorReply),
           UNCHANGED <<file, mem, sound, faults>>,
           UNCHANGED <<up, journal, work, change, login, stopping, spent, calls>>
    PROVE  CredInv'
<1>1. /\ up /\ work = NoWork /\ queue # <<>> /\ queue' = Tail(queue) /\ "openai" \in Kinds
      /\ lease["openai"].at \in {"idle", "waiting", "begin", "finishing"}
      /\ lease["openai"].at = "finishing" <=> Holds("openai", m, "finishing")
    BY FinishAnswered
<1> USE DEF CredInv
<1>2. /\ ErrorReply.at = "idle" /\ ErrorReply.at \in LeaseStages /\ ErrorReply.at \in {"idle", "ready"}
      /\ ErrorReply.grant \in Grants \union {None}
    BY DEF LeaseStages, ErrorReply
<1>3. /\ lease' \in [Kinds -> LeaseStates]
      /\ lock' \in [Kinds -> Requests \union {None, "lease"}]
      /\ \A n \in Kinds : n # "openai" => lease'[n] = lease[n]
      /\ ~Holds("openai", m, "finishing") => lease' = lease
      /\ Holds("openai", m, "finishing") => lease'["openai"].at = "idle"
    BY <1>1, <1>2, LeaseAnswered
<1>4. CredTypeOK' /\ LoginsAreFresh' /\ OutcomesAreTrue' /\ RefreshIsSentOnce' /\ DownIsEmpty'
    <2>1. file' \in [Kinds -> Creds] /\ mem' \in [Kinds -> Creds]
          /\ sound' \in [Kinds -> BOOLEAN] /\ faults' \in Nat
        BY DEF CredTypeOK
    <2> QED
        BY <1>1, <1>3, <2>1, LeaseTaken
<1>5. LeasesAreAlone'
    <2>1. PICK reply : reply = ErrorReply
        OBVIOUS
    <2> QED
        BY <1>2, <1>4, <2>1, FinishKeepsLeases
<1>6. JournalInOrder' /\ RestartReconciles' /\ CopyIsFile' /\ WorkFitsJournal' /\ Accepted' = Accepted
    BY StoresKept
<1>7. GrantsAreMarked'
    <2>1. lease'["openai"].at # "granted"
        BY <1>1, <1>3
    <2> QED
        BY <1>6, <2>1, GrantsKept
<1>8. ReadyLeaseIsCurrent'
    <2>1. lease'["openai"].at # "ready"
        BY <1>1, <1>3
    <2>2. \A n \in Kinds : lease'[n].at = "ready" => lease[n].at = "ready" /\ lease'[n].gen = lease[n].gen
        BY <1>3, <2>1
    <2> QED
        BY <2>2, ReadyKept
<1> QED
    BY <1>4, <1>5, <1>6, <1>7, <1>8

LEMMA FinishWritten ==
    ASSUME CredInv, Took("finish"), NEW m, m = Head1.mark, Consistent,
           mem["openai"].gen = Head1.gen, mem["openai"].phase = "dispatched",
           NEW d \in Creds, d.gen = mem["openai"].gen, d.marker = mem["openai"].marker,
           \/ Head1.tokens /\ d.phase = "active" /\ d.rev = mem["openai"].rev + 1
           \/ ~Head1.tokens /\ d.phase = "reauth" /\ d.rev = mem["openai"].rev,
           SaveOpenAi(d),
           NEW reply, reply.at \in {"idle", "ready"}, reply.grant = None,
           reply.at = "ready" => Head1.tokens,
           AnswerLease("openai", m, "finishing", reply),
           UNCHANGED <<up, journal, work, change, login, stopping, spent, calls>>
    PROVE  CredInv'
<1>1. /\ up /\ work = NoWork /\ queue # <<>> /\ queue' = Tail(queue) /\ "openai" \in Kinds
      /\ lease["openai"].at \in {"idle", "waiting", "begin", "finishing"}
      /\ lease["openai"].at = "finishing" <=> Holds("openai", m, "finishing")
      /\ Holds("openai", m, "finishing") => Head1.gen = lease["openai"].gen
    BY FinishAnswered
<1>2. /\ reply.at \in LeaseStages /\ reply.grant \in Grants \union {None}
    BY DEF LeaseStages
<1>3. /\ lease' \in [Kinds -> LeaseStates]
      /\ lock' \in [Kinds -> Requests \union {None, "lease"}]
      /\ \A n \in Kinds : n # "openai" => lease'[n] = lease[n]
      /\ ~Holds("openai", m, "finishing") => lease' = lease
      /\ Holds("openai", m, "finishing") => lease'["openai"].at = reply.at
      /\ Holds("openai", m, "finishing") /\ reply.at # "idle" =>
           lease'["openai"].gen = lease["openai"].gen
    BY <1>1, <1>2, LeaseAnswered DEF CredInv
<1>4. /\ file' \in [Kinds -> Creds] /\ mem' \in [Kinds -> Creds]
      /\ sound' \in [Kinds -> BOOLEAN] /\ faults' \in Nat
      /\ JournalInOrder' /\ RestartReconciles' /\ CopyIsFile' /\ WorkFitsJournal'
      /\ Accepted' = Accepted
      /\ mem["openai"] = file["openai"] /\ mem'["openai"] = d
      /\ file'["openai"] = file["openai"] \/ file'["openai"] = d
      /\ \A k \in Kinds : k # "openai" => mem'[k] = mem[k] /\ sound'[k] = sound[k]
    <2>1. d.phase = "removed" <=> mem["openai"].phase = "removed"
        OBVIOUS
    <2> QED
        BY <1>1, <2>1, SaveKeeps
<1> USE DEF CredInv
<1>5. CredTypeOK' /\ LoginsAreFresh' /\ OutcomesAreTrue' /\ RefreshIsSentOnce' /\ DownIsEmpty'
    BY <1>1, <1>3, <1>4, LeaseTaken
<1>6. LeasesAreAlone'
    BY <1>2, <1>5, FinishKeepsLeases
<1>7. GrantsAreMarked'
    <2>1. lease'["openai"].at # "granted"
        BY <1>1, <1>3
    <2>2. d.rev = file["openai"].rev + 1 \/ (d.rev = file["openai"].rev /\ d.phase # "active")
        BY <1>4
    <2> QED
        BY <1>1, <1>4, <2>1, <2>2, TokensKeepGrants
<1>8. ReadyLeaseIsCurrent'
    <2> SUFFICES ASSUME NEW n \in Kinds, lease'[n].at = "ready", sound'[n]
                 PROVE  mem'[n].gen = lease'[n].gen /\ mem'[n].phase = "active"
        BY DEF ReadyLeaseIsCurrent
    <2>1. CASE n # "openai"
        BY <1>3, <1>4, <2>1 DEF ReadyLeaseIsCurrent
    <2>2. CASE n = "openai"
        <3>1. Holds("openai", m, "finishing") /\ reply.at = "ready"
            BY <1>1, <1>3, <2>2
        <3> QED
            BY <1>1, <1>3, <1>4, <2>2, <3>1
    <2> QED
        BY <2>1, <2>2
<1> QED
    BY <1>4, <1>5, <1>6, <1>7, <1>8

LEMMA TakeFinishKeeps ==
    ASSUME CredInv, TakeFinish
    PROVE  CredInv'
<1>1. Took("finish") /\ UNCHANGED <<up, journal, work, change, login, stopping, spent, calls>>
    BY DEF TakeFinish
<1>2. PICK m : m = Head1.mark
    OBVIOUS
<1>3. "openai" \in Kinds /\ Head1.tokens \in BOOLEAN
    BY <1>1, <1>2, FinishAnswered
<1>4. PICK c : c = mem["openai"]
    OBVIOUS
<1>5. c \in Creds
    BY <1>3, <1>4 DEF CredInv, CredTypeOK
<1>6. CASE AnswerLease("openai", m, "finishing", ErrorReply) /\ UNCHANGED <<file, mem, sound>> /\ NoFault
    BY <1>1, <1>2, <1>6, FinishRefused DEF NoFault
<1>7. CASE /\ Consistent /\ c.gen = Head1.gen /\ c.phase = "dispatched"
           /\ SaveOpenAi(IF Head1.tokens THEN [c EXCEPT !.phase = "active", !.rev = @ + 1]
                         ELSE [c EXCEPT !.phase = "reauth"])
           /\ AnswerLease("openai", m, "finishing",
                IF sound'["openai"] /\ Head1.tokens THEN [at |-> "ready", grant |-> None]
                ELSE ErrorReply)
    <2>1. PICK d : d = IF Head1.tokens THEN [c EXCEPT !.phase = "active", !.rev = @ + 1]
                       ELSE [c EXCEPT !.phase = "reauth"]
        OBVIOUS
    <2>2. /\ d \in Creds /\ d.gen = c.gen /\ d.marker = c.marker
          /\ \/ Head1.tokens /\ d.phase = "active" /\ d.rev = c.rev + 1
             \/ ~Head1.tokens /\ d.phase = "reauth" /\ d.rev = c.rev
        <3>1. CASE Head1.tokens
            <4>1. PICK rev \in Nat : rev = c.rev + 1
                BY <1>5 DEF Creds
            <4>2. d = [c EXCEPT !.phase = "active", !.rev = rev]
                BY <2>1, <3>1, <4>1
            <4>3. d \in Creds /\ d.gen = c.gen /\ d.marker = c.marker
                  /\ d.phase = "active" /\ d.rev = rev
                BY <1>5, <4>2 DEF Creds
            <4> QED
                BY <3>1, <4>1, <4>3
        <3>2. CASE ~Head1.tokens
            <4>1. d = [c EXCEPT !.phase = "reauth"]
                BY <2>1, <3>2
            <4> QED
                BY <1>5, <3>2, <4>1 DEF Creds
        <3> QED
            BY <3>1, <3>2
    <2>3. PICK reply : reply = IF sound'["openai"] /\ Head1.tokens
                               THEN [at |-> "ready", grant |-> None] ELSE ErrorReply
        OBVIOUS
    <2>4. /\ reply.at \in {"idle", "ready"} /\ reply.grant = None
          /\ reply.at = "ready" => Head1.tokens
        BY <2>3 DEF ErrorReply
    <2>5. SaveOpenAi(d) /\ AnswerLease("openai", m, "finishing", reply)
        BY <1>7, <2>1, <2>3
    <2> QED
        BY <1>1, <1>2, <1>4, <1>7, <2>2, <2>4, <2>5, FinishWritten
<1> QED
    BY <1>2, <1>4, <1>6, <1>7 DEF TakeFinish

-----------------------------------------------------------------------------
(* The theorems.                                                           *)

LEMMA CredInvNext ==
    ASSUME CredInv, [Next]_vars
    PROVE  CredInv'
<1>1. CASE WorkerStep
    BY <1>1, TakeMutationKeeps, TakeBeginKeeps, TakeFinishKeeps, DispatchKeeps,
       ApplyOpenCodeKeeps, ApplyOpenAiKeeps, CompleteKeeps DEF WorkerStep
<1>2. CASE LoginStep \/ LoginBounds
    BY <1>2, EarlyLoginStepKeeps, InstallLoginKeeps, CancelOrShutdownKeeps,
       InstallationTimeoutKeeps DEF LoginStep, LoginBounds
<1>3. CASE LeaseStep
    BY <1>3, SendGrantKeeps, ExchangeGrantKeeps, StartLeaseKeeps, BeginAccessKeeps,
       AbandonLeaseKeeps DEF LeaseStep
<1>4. CASE \E r \in Changes : RequestChange(r) \/ SendChange(r)
    BY <1>4, RequestChangeKeeps, SendChangeKeeps
<1>5. CASE \E r \in Logins : StartLogin(r)
    BY <1>5, StartLoginKeeps
<1>6. CASE BeginShutdown \/ Stop \/ Crash \/ Restart
    BY <1>6, CancelOrShutdownKeeps, LostKeeps, RestartKeeps
<1>7. CASE UNCHANGED vars
    <2>1. CredTypeOK' /\ JournalInOrder' /\ RestartReconciles' /\ CopyIsFile' /\ WorkFitsJournal'
        BY <1>7 DEF vars, CredInv, CredTypeOK, JournalInOrder, RestartReconciles, CopyIsFile,
                    WorkFitsJournal, Consistent, Newest, Installed
    <2>2. LeasesAreAlone' /\ GrantsAreMarked' /\ RefreshIsSentOnce'
        BY <1>7 DEF vars, CredInv, LeasesAreAlone, LeaseIsAlone, OurBegin, OurFinish, KindOfMessage,
                    GrantsAreMarked, Used, Accepted, RefreshIsSentOnce
    <2>3. LoginsAreFresh' /\ DownIsEmpty' /\ OutcomesAreTrue' /\ ReadyLeaseIsCurrent'
        BY <1>7 DEF vars, CredInv, LoginsAreFresh, Queued, Asks, Accepted, DownIsEmpty,
                    OutcomesAreTrue, StateOf, EntryOf, ReadyLeaseIsCurrent
    <2> QED
        BY <2>1, <2>2, <2>3 DEF CredInv
<1> QED
    BY <1>1, <1>2, <1>3, <1>4, <1>5, <1>6, <1>7 DEF Next

\* Of the stored credentials: the journal, the two files and the copies fit each other in
\* every state, whatever step of a change the process stopped at (mutate_credential,
\* recover_credential_mutations), a lease that was granted stays alone with its credential,
\* and a login that has not installed leaves no trace (LoginSupervisor).
THEOREM CredentialsTheorem == Spec => []CredInv
<1>1. CredInv /\ [Next]_vars => CredInv'
    BY CredInvNext
<1> QED
    BY <1>1, CredInvInit, PTL DEF Spec

\* Whatever the step that a crash follows, opening the store reconciles the journal with the
\* files: it never meets a dispatched change that is neither installed nor absent, a
\* generation without its completed request, or a gap (recover_credential_mutations).
THEOREM ReconciliationTheorem == Spec => []RestartReconciles
<1>1. CredInv => RestartReconciles
    BY DEF CredInv
<1> QED
    BY <1>1, CredentialsTheorem, PTL

\* A refresh grant leaves the server once, over every retry, abandoned lease, failed
\* replacement of the file and crash (begin_openai_access marks it before it is answered).
THEOREM RefreshTheorem == Spec => []RefreshIsSentOnce
<1>1. CredInv => RefreshIsSentOnce
    BY DEF CredInv
<1> QED
    BY <1>1, CredentialsTheorem, PTL

\* What the callers are told happens: a change answered as done and an installed login are
\* completed in the journal, and a login reported as not installed is never installed later
\* (the outcomes of LoginSupervisor's installation).
THEOREM OutcomeTheorem == Spec => []OutcomesAreTrue
<1>1. CredInv => OutcomesAreTrue
    BY DEF CredInv
<1> QED
    BY <1>1, CredentialsTheorem, PTL

\* The credential of a lease that is ready is the stored one until the lease is given back,
\* although callers that gave up left their changes in the worker's queue.
THEOREM LeaseTheorem == Spec => []ReadyLeaseIsCurrent
<1>1. CredInv => ReadyLeaseIsCurrent
    BY DEF CredInv
<1> QED
    BY <1>1, CredentialsTheorem, PTL

--------------------------------------------------------------------------------
(* Attempts and what reached the service. *)

\* Operation o was counted, and at most one attempt of it reached the service.
SentOnce(o) == delivered[o] \in {0, 1}

\* delivered has an element for every operation that was dispatched; nothing of the one
\* being sent has reached the service, as far as the run goes on.
DeliveredFits ==
  /\ delivered \in Seq(Nat) /\ operation \in Nat
  /\ stage \in {"loop", "encoded", "sending", "streaming", "tools", "ended"}
  /\ stage = "encoded" => operation = Len(delivered) + 1
  /\ stage \in {"loop", "sending", "streaming", "tools"} => operation = Len(delivered)
  /\ stage = "sending" => operation \in DOMAIN delivered /\ delivered[operation] = 0
  /\ \A o \in DOMAIN delivered : SentOnce(o)

\* A step that sends nothing and does not move between the stages of an operation.
LEMMA NothingSent ==
  ASSUME DeliveredFits, UNCHANGED <<delivered, operation>>,
         \/ stage' = "ended"
         \/ stage' = stage
         \/ stage \in {"loop", "sending", "streaming", "tools"}
              /\ stage' \in {"loop", "streaming", "tools"}
  PROVE  DeliveredFits'
BY DEF DeliveredFits, SentOnce

\* A step that sends the request, after which nothing is sent for the operation.
LEMMA RequestSent ==
  ASSUME DeliveredFits, stage = "sending", delivered' = Delivered, operation' = operation,
         stage' \in {"loop", "streaming", "ended"}
  PROVE  DeliveredFits'
<1>1. operation \in DOMAIN delivered /\ delivered[operation] = 0 /\ operation = Len(delivered)
  BY DEF DeliveredFits
<1>2. delivered' = [delivered EXCEPT ![operation] = 1]
  BY <1>1 DEF Delivered
<1>3. delivered \in Seq(Nat)
  BY DEF DeliveredFits
<1>4. /\ delivered' \in Seq(Nat) /\ Len(delivered') = Len(delivered)
      /\ DOMAIN delivered' = DOMAIN delivered
  BY <1>1, <1>2, <1>3
<1>5. \A o \in DOMAIN delivered : SentOnce(o)'
  BY <1>2 DEF DeliveredFits, SentOnce
<1> QED
  BY <1>1, <1>4, <1>5 DEF DeliveredFits

LEMMA Dispatched ==
  ASSUME DeliveredFits, Dispatch
  PROVE  DeliveredFits'
<1>1. /\ delivered \in Seq(Nat) /\ operation \in Nat /\ operation = Len(delivered) + 1
      /\ delivered' = Append(delivered, 0) /\ operation' = operation /\ stage' = "sending"
  BY DEF DeliveredFits, Dispatch
<1>2. /\ delivered' \in Seq(Nat) /\ Len(delivered') = operation
      /\ DOMAIN delivered' = 1 .. operation /\ DOMAIN delivered = 1 .. (operation - 1)
      /\ delivered'[operation] = 0 /\ operation \in DOMAIN delivered'
  BY <1>1
<1>3. \A o \in DOMAIN delivered : delivered'[o] = delivered[o]
  BY <1>1, <1>2
<1>4. ASSUME NEW o \in DOMAIN delivered'
      PROVE  SentOnce(o)'
  <2>1. CASE o \in DOMAIN delivered
    BY <1>3, <2>1 DEF DeliveredFits, SentOnce
  <2>2. CASE o \notin DOMAIN delivered
    <3>1. o = operation
      BY <1>1, <1>2, <2>2
    <3> QED
      BY <1>2, <3>1 DEF SentOnce
  <2> QED
    BY <2>1, <2>2
<1> QED
  BY <1>1, <1>2, <1>4 DEF DeliveredFits

LEMMA DeliveredFitsInit ==
  ASSUME TurnsInit
  PROVE  DeliveredFits
<1>1. delivered = <<>> /\ operation = 0 /\ stage = "loop"
  BY DEF TurnsInit
<1>2. delivered \in Seq(Nat) /\ Len(delivered) = 0 /\ DOMAIN delivered = {}
  BY <1>1
<1> QED
  BY <1>1, <1>2 DEF DeliveredFits

LEMMA DeliveredFitsNext ==
  ASSUME DeliveredFits, [TurnsNext]_turnsVars
  PROVE  DeliveredFits'
<1>1. CASE UNCHANGED turnsVars
  BY <1>1, NothingSent DEF turnsVars
<1>2. CASE Cancel \/ RunTool \/ ReceiveRecord \/ Compact
  BY <1>2, NothingSent DEF Cancel, RunTool, ReceiveRecord, Compact, transport
<1>3. CASE \/ LoopSeesCancellation \/ CompactionFails \/ NothingToCompact \/ RequestIsRefused
           \/ DispatchIsRefused \/ ExchangeIsCancelled \/ AnswerFails
  BY <1>3, NothingSent DEF LoopSeesCancellation, CompactionFails, NothingToCompact, RequestIsRefused,
     DispatchIsRefused, ExchangeIsCancelled, AnswerFails, StopRun, transport
<1>4. CASE MakeRequest
  BY <1>4 DEF MakeRequest, DeliveredFits, SentOnce, transport
<1>5. CASE Dispatch
  BY <1>5, Dispatched
<1>6. ASSUME NEW sent \in BOOLEAN, AttemptFails(sent)
      PROVE  DeliveredFits'
  <2>1. stage = "sending" /\ operation' = operation
    BY <1>6 DEF AttemptFails
  <2>2. CASE sent
    <3>1. delivered' = Delivered /\ stage' = "ended"
      BY <1>6, <2>2 DEF AttemptFails, RetryAllowed, StopRun
    <3> QED
      BY <2>1, <3>1, RequestSent
  <2>3. CASE ~sent
    <3>1. delivered' = delivered /\ (stage' = "ended" \/ stage' = stage)
      BY <1>6, <2>3 DEF AttemptFails, StopRun
    <3> QED
      BY <2>1, <3>1, NothingSent
  <2> QED
    BY <2>2, <2>3
<1>7. ASSUME NEW sent \in BOOLEAN, TimesOut(sent)
      PROVE  DeliveredFits'
  <2>1. stage' = "ended" /\ operation' = operation
    BY <1>7 DEF TimesOut, StopRun
  <2>2. CASE sent /\ stage = "sending"
    <3>1. delivered' = Delivered
      BY <1>7, <2>2 DEF TimesOut
    <3> QED
      BY <2>1, <2>2, <3>1, RequestSent
  <2>3. CASE ~(sent /\ stage = "sending")
    <3>1. delivered' = delivered
      BY <1>7, <2>3 DEF TimesOut
    <3> QED
      BY <2>1, <3>1, NothingSent
  <2> QED
    BY <2>2, <2>3
<1>8. CASE HeadersArrive \/ AnswerIsRefused \/ ContextIsRejected
  <2>1. /\ stage = "sending" /\ delivered' = Delivered /\ operation' = operation
        /\ stage' \in {"loop", "streaming", "ended"}
    BY <1>8 DEF HeadersArrive, AnswerIsRefused, ContextIsRejected, StopRun
  <2> QED
    BY <2>1, RequestSent
<1>9. CASE BodyEnds
  <2>1. /\ stage = "streaming" /\ UNCHANGED <<delivered, operation>>
        /\ stage' \in {"ended", "tools"}
    BY <1>9 DEF BodyEnds, StopRun
  <2> QED
    BY <2>1, NothingSent
<1>10. CASE ToolsDone
  BY <1>10, NothingSent DEF ToolsDone
<1> QED
  BY <1>1, <1>2, <1>3, <1>4, <1>5, <1>6, <1>7, <1>8, <1>9, <1>10 DEF TurnsNext

\* However connections fail, no request reaches the service a second time
\* (send_model_request and the loop of run_supervisor.rs).
THEOREM TransmissionTheorem == TurnsSpec => []TransmittedAtMostOnce
<1>1. TurnsInit => DeliveredFits
  BY DeliveredFitsInit
<1>2. DeliveredFits /\ [TurnsNext]_turnsVars => DeliveredFits'
  BY DeliveredFitsNext
<1>3. DeliveredFits => TransmittedAtMostOnce
  BY DEF DeliveredFits, SentOnce, TransmittedAtMostOnce
<1> QED
  BY <1>1, <1>2, <1>3, PTL DEF TurnsSpec
================================================================================

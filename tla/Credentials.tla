---------------------------- MODULE Credentials ----------------------------
(***************************************************************************)
(* The stored credentials of the server: an OpenCode key and a ChatGPT     *)
(* login, each in a private file replaced by rename, next to a database    *)
(* that journals every change of them.  The two stores share one           *)
(* persistence worker, which takes messages in order; an asynchronous      *)
(* caller that gives up leaves its message behind.  A change is prepared,  *)
(* dispatched, written to the file and completed, and any of the four may  *)
(* be the last one before a crash.  Leases refresh an expired login, and   *)
(* the login supervisor installs a new one.                                *)
(***************************************************************************)
EXTENDS Naturals, Sequences, FiniteSets

CONSTANTS Logins,    \* the mutation requests made by logins
          Changes,   \* the mutation requests made by the set and remove operations
          Kind(_),   \* the credential a request is about
          Sets(_),   \* does the request set the credential (or remove it)
          None,
          MaxCalls,        \* changes sent (a retry keeps its id) and leases calls
          MaxConnections,  \* callback connections a login reads (16 in the code)
          MaxFaults        \* failed transactions, failed replacements and crashes

Kinds == {"opencode", "openai"}
Requests == Logins \union Changes

ASSUME RequestsAssumption ==
    /\ Logins \intersect Changes = {}
    /\ "lease" \notin Requests /\ None \notin Requests \union {"lease", "done"}
    /\ MaxCalls \in Nat /\ MaxConnections \in Nat \ {0} /\ MaxFaults \in Nat
    /\ \A r \in Requests : Kind(r) \in Kinds /\ Sets(r) \in BOOLEAN
    /\ \A r \in Logins : Kind(r) = "openai" /\ Sets(r)

VARIABLES
    up,       \* the server process runs
    file,     \* file[k]: the credential file
    mem,      \* mem[k]: the copy the worker keeps
    sound,    \* sound[k]: the copy is known to match the file
    journal,  \* the accepted requests, in order, with their state and facts
    queue,    \* the messages to the worker
    work,     \* the change the worker is in the middle of
    lock,     \* lock[k]: who holds the dispatch lock of a credential
    change,   \* change[r]: the caller of a set or remove operation
    lease,    \* lease[k]: a provider turn's use of a credential
    login,    \* the login supervisor's task
    stopping, \* the login supervisor refuses further logins
    spent,    \* the refresh grants sent to the token endpoint
    calls, faults

vars == <<up, file, mem, sound, journal, queue, work, lock, change, lease, login, stopping,
          spent, calls, faults>>

(* A file that was never written reads as generation 0.  Only the ChatGPT  *)
(* file has a refresh in its life: "rev" counts the token sets of a        *)
(* generation, "refresh" marks the refresh that is under way.              *)
Unconfigured == [gen |-> 0, marker |-> None, phase |-> "removed", rev |-> 0, refresh |-> 0]

IdleLease == [at |-> "idle", gen |-> 0, mark |-> 0, grant |-> None]
NoLogin == [at |-> "none", id |-> None, gen |-> 0, cancelled |-> FALSE, seen |-> 0,
            outcome |-> None]
NoWork == [at |-> "idle", id |-> None]

Init ==
    /\ up = TRUE
    /\ file = [k \in Kinds |-> Unconfigured]
    /\ mem = file
    /\ sound = [k \in Kinds |-> TRUE]
    /\ journal = <<>>
    /\ queue = <<>>
    /\ work = NoWork
    /\ lock = [k \in Kinds |-> None]
    /\ change = [r \in Changes |-> [at |-> "idle", gen |-> 0, answer |-> None]]
    /\ lease = [k \in Kinds |-> IdleLease]
    /\ login = NoLogin
    /\ stopping = FALSE
    /\ spent = <<>>
    /\ calls = 0
    /\ faults = 0

-----------------------------------------------------------------------------
(* The journal.                                                            *)

Accepted == {journal[i].id : i \in 1 .. Len(journal)}
EntryOf(j, r) == CHOOSE i \in 1 .. Len(j) : j[i].id = r
StateOf(r) == IF r \in Accepted THEN journal[EntryOf(journal, r)].state ELSE "unknown"

(* Every later transaction records its fact with the state it sets.        *)
Moved(j, r, state) ==
    LET i == EntryOf(j, r) IN
    [j EXCEPT ![i].state = state, ![i].facts = @ \union {state}]

(* Is the request the one whose effect the file (or the copy) holds?       *)
Installed(e, creds) ==
    LET c == creds[Kind(e.id)] IN
    /\ c.gen = e.expected + 1
    /\ (c.phase # "removed") = Sets(e.id)
    /\ c.marker = e.id

Reconcilable(e, creds) ==
    e.state = "dispatched" => Installed(e, creds) \/ creds[Kind(e.id)].gen = e.expected

RecoveredState(e, creds) ==
    CASE e.state = "prepared" -> "not_applied"
      [] e.state = "dispatched" -> IF Installed(e, creds) THEN "completed" ELSE "not_applied"
      [] OTHER -> e.state

(* recover_credential_mutations settles every request still open.          *)
Recovered(j, creds) ==
    [i \in 1 .. Len(j) |->
        LET state == RecoveredState(j[i], creds) IN
        IF state = j[i].state THEN j[i]
        ELSE [j[i] EXCEPT !.state = state, !.facts = @ \union {state}]]

CompletedBefore(j, k, n) ==
    Cardinality({i \in 1 .. n : Kind(j[i].id) = k /\ j[i].state = "completed"})

(* What every recovery checks of the requests and their facts.             *)
RecordsValid(j) ==
    \A i \in 1 .. Len(j) :
        /\ j[i].expected = CompletedBefore(j, Kind(j[i].id), i - 1)
        /\ j[i].state \in {"dispatched", "completed"} => "dispatched" \in j[i].facts
        /\ j[i].state = "prepared" => j[i].facts = {}
        /\ ("completed" \in j[i].facts) = (j[i].state = "completed")
        /\ ("not_applied" \in j[i].facts) = (j[i].state = "not_applied")

(* And what it checks of the credentials once every request is settled.    *)
CredentialStateValid(j, creds) ==
    \A k \in Kinds :
        LET done == {i \in 1 .. Len(j) : Kind(j[i].id) = k /\ j[i].state = "completed"} IN
        /\ creds[k].gen = Cardinality(done)
        /\ IF done = {} THEN creds[k].phase = "removed"
           ELSE LET last == CHOOSE i \in done : \A h \in done : h <= i IN
                /\ creds[k].marker = j[last].id
                /\ (creds[k].phase # "removed") = Sets(j[last].id)

(* ensure_consistent of both stores; the ChatGPT store reads its file too. *)
Consistent == sound["opencode"] /\ sound["openai"] /\ mem["openai"] = file["openai"]

RecoverySucceeds(j, creds) ==
    /\ RecordsValid(j)
    /\ \A i \in 1 .. Len(j) : Reconcilable(j[i], creds)
    /\ CredentialStateValid(Recovered(j, creds), creds)

Fault == faults < MaxFaults /\ faults' = faults + 1
NoFault == UNCHANGED faults

-----------------------------------------------------------------------------
(* Answers.  A caller that has gone keeps nothing: the answer is dropped.  *)

LoginWaits(r) == login.at = "installing" /\ login.id = r

(* How the login supervisor reads the answer to its installation.          *)
LoginOutcome(answer) ==
    CASE answer = "done" -> "installed"
      [] answer = "generation_conflict" -> "credential_changed"
      [] answer \in {"request_conflict", "not_applied"} -> "unavailable"
      [] OTHER -> "uncertain"

Release(k) == lock' = [lock EXCEPT ![k] = None]

AnswerChange(r, answer) ==
    IF r \in Changes
    THEN /\ IF change[r].at = "sent" /\ lock[Kind(r)] = r
            THEN /\ change' = [change EXCEPT ![r].at = "idle", ![r].answer = answer]
                 /\ Release(Kind(r))
            ELSE UNCHANGED <<change, lock>>
         /\ UNCHANGED <<login, stopping>>
    ELSE /\ IF LoginWaits(r) /\ lock["openai"] = r
            THEN /\ login' = [login EXCEPT !.at = "ended", !.outcome = LoginOutcome(answer)]
                 /\ stopping' = (stopping \/ LoginOutcome(answer) = "uncertain")
                 /\ Release("openai")
            ELSE UNCHANGED <<login, stopping, lock>>
         /\ UNCHANGED change

-----------------------------------------------------------------------------
(* The worker: one message at a time.                                      *)

Free == up /\ work = NoWork
Head1 == queue[1]
Took(type) == Free /\ queue # <<>> /\ Head1.type = type /\ queue' = Tail(queue)

ReceiptAnswer(e, gen) ==
    IF e.expected # gen THEN "request_conflict"
    ELSE IF e.state = "completed" THEN "done"
    ELSE IF e.state = "not_applied" THEN "not_applied"
    ELSE "invalid_state"

(* mutate_credential up to the first transaction: recovery, the receipt of *)
(* a request seen before, the generation check, the preparation.           *)
TakeMutation ==
    /\ Took("mutate")
    /\ LET r == Head1.id  gen == Head1.gen  j == Recovered(journal, mem) IN
       IF ~Consistent \/ ~RecoverySucceeds(journal, mem)
       THEN /\ AnswerChange(r, "invalid_state")
            /\ UNCHANGED <<journal, work>> /\ NoFault
       ELSE \/ /\ r \in Accepted
               /\ journal' = j
               /\ AnswerChange(r, ReceiptAnswer(j[EntryOf(j, r)], gen))
               /\ UNCHANGED work /\ NoFault
            \/ /\ r \notin Accepted /\ mem[Kind(r)].gen # gen
               /\ journal' = j
               /\ AnswerChange(r, "generation_conflict")
               /\ UNCHANGED work /\ NoFault
            \/ /\ r \notin Accepted /\ mem[Kind(r)].gen = gen
               /\ journal' = Append(j, [id |-> r, expected |-> gen, state |-> "prepared",
                                        facts |-> {}])
               /\ work' = [at |-> "dispatch", id |-> r]
               /\ UNCHANGED <<login, change, lock, stopping>> /\ NoFault
            \/ /\ r \notin Accepted /\ mem[Kind(r)].gen = gen
               /\ Fault
               /\ journal' = j
               /\ AnswerChange(r, "storage")
               /\ UNCHANGED work
    /\ UNCHANGED <<up, file, mem, sound, lease, spent, calls>>

(* A failing transaction is followed by a recovery, which may fail too.    *)
AfterFailure(r, creds) ==
    /\ Fault
    /\ journal' \in {journal, Recovered(journal, creds)}
    /\ work' = NoWork
    /\ AnswerChange(r, "storage")

\* Mutant: the file is written before the dispatch is recorded.
DispatchCredentialMutation_WritesFirst ==
    /\ up /\ work.at = "dispatch"
    /\ LET k == Kind(work.id)
           c == [gen |-> mem[k].gen + 1, marker |-> work.id, rev |-> 1, refresh |-> 0,
                 phase |-> IF Sets(work.id) THEN "active" ELSE "removed"] IN
       file' = [file EXCEPT ![k] = c] /\ mem' = [mem EXCEPT ![k] = c]
    /\ work' = [work EXCEPT !.at = "apply"]
    /\ UNCHANGED <<up, journal, sound, queue, login, change, lock, lease, stopping, spent,
                   calls, faults>>

DispatchCredentialMutation ==
    /\ up /\ work.at = "dispatch"
    /\ \/ /\ journal' = Moved(journal, work.id, "dispatched")
          /\ work' = [work EXCEPT !.at = "apply"]
          /\ UNCHANGED <<login, change, lock, stopping>> /\ NoFault
       \/ AfterFailure(work.id, mem)
    /\ UNCHANGED <<up, file, mem, sound, queue, lease, spent, calls>>

NextState(r, c) ==
    [gen |-> c.gen + 1, marker |-> r, rev |-> IF Sets(r) THEN 1 ELSE 0, refresh |-> 0,
     phase |-> IF Sets(r) THEN "active" ELSE "removed"]

(* CredentialStore::apply writes, and reads its file back when the         *)
(* replacement fails; if that fails too the copy is not to be trusted.     *)
ApplyOpenCode ==
    LET c == NextState(work.id, mem["opencode"]) IN
    /\ up /\ work.at = "apply" /\ Kind(work.id) = "opencode"
    /\ \/ /\ file' = [file EXCEPT !["opencode"] = c]
          /\ mem' = [mem EXCEPT !["opencode"] = c]
          /\ work' = [work EXCEPT !.at = "complete"]
          /\ UNCHANGED <<sound, journal, login, change, lock, stopping>> /\ NoFault
       \/ /\ Fault
          /\ file' \in {file, [file EXCEPT !["opencode"] = c]}
          /\ \/ /\ mem' = [mem EXCEPT !["opencode"] = file'["opencode"]]
                /\ UNCHANGED sound
                /\ journal' \in {journal, Recovered(journal, mem')}
             \/ /\ sound' = [sound EXCEPT !["opencode"] = FALSE]
                /\ UNCHANGED <<mem, journal>>
          /\ work' = NoWork
          /\ AnswerChange(work.id, "storage")
    /\ UNCHANGED <<up, queue, lease, spent, calls>>

(* OpenAiCredentialStore::apply changes its copy first; tokens that are    *)
(* about to expire are refused before that.                                *)
ApplyOpenAi ==
    LET c == NextState(work.id, mem["openai"]) IN
    /\ up /\ work.at = "apply" /\ Kind(work.id) = "openai"
    /\ \/ /\ file' = [file EXCEPT !["openai"] = c]
          /\ mem' = [mem EXCEPT !["openai"] = c]
          /\ work' = [work EXCEPT !.at = "complete"]
          /\ UNCHANGED <<sound, journal, login, change, lock, stopping>> /\ NoFault
       \/ /\ Fault
          /\ file' \in {file, [file EXCEPT !["openai"] = c]}
          /\ mem' = [mem EXCEPT !["openai"] = c]
          /\ sound' = [sound EXCEPT !["openai"] = FALSE]
          /\ work' = NoWork
          /\ AnswerChange(work.id, "storage")
          /\ UNCHANGED journal
       \/ /\ Sets(work.id) /\ Fault
          /\ journal' = Recovered(journal, mem)
          /\ work' = NoWork
          /\ AnswerChange(work.id, "reauthentication")
          /\ UNCHANGED <<file, mem, sound>>
    /\ UNCHANGED <<up, queue, lease, spent, calls>>

CompleteCredentialMutation ==
    /\ up /\ work.at = "complete"
    /\ \/ /\ journal' = Moved(journal, work.id, "completed")
          /\ work' = NoWork
          /\ AnswerChange(work.id, "done") /\ NoFault
       \/ AfterFailure(work.id, mem)
    /\ UNCHANGED <<up, file, mem, sound, queue, lease, spent, calls>>

-----------------------------------------------------------------------------
(* Set and remove operations.  The caller names the generation it knows.   *)

RequestChange(r) ==
    /\ up /\ change[r].at = "idle" /\ calls < MaxCalls
    /\ calls' = calls + 1
    /\ \E gen \in {change[r].gen, mem[Kind(r)].gen} :
        change' = [change EXCEPT ![r] = [at |-> "waiting", gen |-> gen, answer |-> None]]
    /\ UNCHANGED <<up, file, mem, sound, journal, queue, work, lock, lease, login, stopping,
                   spent, faults>>

\* Mutant: a change does not wait for the lease that uses the credential.
SendChange_WithoutLock(r) ==
    /\ up /\ change[r].at = "waiting"
    /\ queue' = Append(queue, [type |-> "mutate", id |-> r, gen |-> change[r].gen])
    /\ change' = [change EXCEPT ![r].at = "sent"]
    /\ UNCHANGED <<up, file, mem, sound, journal, work, lock, lease, login, stopping, spent,
                   calls, faults>>

SendChange(r) ==
    /\ up /\ change[r].at = "waiting" /\ lock[Kind(r)] = None
    /\ lock' = [lock EXCEPT ![Kind(r)] = r]
    /\ queue' = Append(queue, [type |-> "mutate", id |-> r, gen |-> change[r].gen])
    /\ change' = [change EXCEPT ![r].at = "sent"]
    /\ UNCHANGED <<up, file, mem, sound, journal, work, lease, login, stopping, spent, calls,
                   faults>>

-----------------------------------------------------------------------------
(* Leases.                                                                 *)

StartLease(k) ==
    /\ up /\ lease[k].at = "idle" /\ calls < MaxCalls
    /\ mem[k].phase # "removed"
    /\ calls' = calls + 1
    /\ lease' = [lease EXCEPT ![k] = [at |-> "waiting", gen |-> mem[k].gen, mark |-> calls + 1,
                                      grant |-> None]]
    /\ UNCHANGED <<up, file, mem, sound, journal, queue, work, lock, change, login, stopping,
                   spent, faults>>

BeginAccess(k) ==
    /\ up /\ lease[k].at = "waiting" /\ lock[k] = None
    /\ lock' = [lock EXCEPT ![k] = "lease"]
    /\ queue' = Append(queue, [type |-> "begin", kind |-> k, gen |-> lease[k].gen,
                               mark |-> lease[k].mark])
    /\ lease' = [lease EXCEPT ![k].at = "begin"]
    /\ UNCHANGED <<up, file, mem, sound, journal, work, change, login, stopping, spent, calls,
                   faults>>

Holds(k, mark, at) == lock[k] = "lease" /\ lease[k].mark = mark /\ lease[k].at = at

(* The answer to a lease that still waits for it; an error ends the lease. *)
AnswerLease(k, mark, at, reply) ==
    IF ~Holds(k, mark, at) THEN UNCHANGED <<lease, lock>>
    ELSE IF reply.at = "idle"
         THEN lease' = [lease EXCEPT ![k] = IdleLease] /\ Release(k)
         ELSE lease' = [lease EXCEPT ![k].at = reply.at, ![k].grant = reply.grant]
              /\ UNCHANGED lock

ErrorReply == [at |-> "idle", grant |-> None]

(* Replacing the ChatGPT file under a lease: the copy changes first, and a *)
(* failed replacement leaves it untrusted whatever the file holds.         *)
SaveOpenAi(c) ==
    \/ /\ file' = [file EXCEPT !["openai"] = c]
       /\ mem' = [mem EXCEPT !["openai"] = c]
       /\ UNCHANGED sound /\ NoFault
    \/ /\ Fault
       /\ file' \in {file, [file EXCEPT !["openai"] = c]}
       /\ mem' = [mem EXCEPT !["openai"] = c]
       /\ sound' = [sound EXCEPT !["openai"] = FALSE]

\* Mutant: a refresh left under way is taken for an active credential.
SettledRefresh_Resumes(c) == IF c.phase = "dispatched" THEN [c EXCEPT !.phase = "active"] ELSE c

SettledRefresh(c) == IF c.phase = "dispatched" THEN [c EXCEPT !.phase = "reauth"] ELSE c

(* The worker begins an access: a refresh left under way by a lease that   *)
(* gave up is settled first, and an expired token set is marked before its *)
(* grant leaves the worker.  The clock decides what has expired.           *)
TakeBegin ==
    /\ Took("begin")
    /\ LET k == Head1.kind  m == Head1.mark  c == SettledRefresh(mem[k]) IN
       \/ /\ ~Consistent \/ ~RecoverySucceeds(journal, mem) \/ mem[k].gen # Head1.gen
          /\ AnswerLease(k, m, "begin", ErrorReply)
          /\ UNCHANGED <<file, mem, sound>> /\ NoFault
       \/ /\ Consistent /\ mem[k].gen = Head1.gen
          /\ mem[k].phase \in {"dispatched", "reauth", "removed"}
          /\ AnswerLease(k, m, "begin", ErrorReply)
          /\ IF c = mem[k] THEN UNCHANGED <<file, mem, sound>> /\ NoFault ELSE SaveOpenAi(c)
       \/ /\ Consistent /\ mem[k].gen = Head1.gen /\ mem[k].phase = "active"
          /\ AnswerLease(k, m, "begin", [at |-> "ready", grant |-> None])
          /\ UNCHANGED <<file, mem, sound>> /\ NoFault
       \/ /\ k = "openai"
          /\ Consistent /\ mem[k].gen = Head1.gen /\ mem[k].phase = "active"
          /\ SaveOpenAi([mem[k] EXCEPT !.phase = "dispatched", !.refresh = m])
          /\ AnswerLease(k, m, "begin",
                IF sound'["openai"] THEN [at |-> "granted", grant |-> <<mem[k].marker, mem[k].rev>>]
                ELSE ErrorReply)
    /\ UNCHANGED <<up, journal, work, change, login, stopping, spent, calls>>

SendGrant ==
    /\ up /\ lease["openai"].at = "granted"
    /\ spent' = Append(spent, lease["openai"].grant)
    /\ lease' = [lease EXCEPT !["openai"].at = "exchange"]
    /\ UNCHANGED <<up, file, mem, sound, journal, queue, work, lock, change, login, stopping,
                   calls, faults>>

FinishMessage(tokens) ==
    [type |-> "finish", gen |-> lease["openai"].gen, mark |-> lease["openai"].mark,
     tokens |-> tokens]

(* The exchange answers with tokens of the account, or with nothing that   *)
(* can be kept.                                                            *)
ExchangeGrant ==
    /\ up /\ lease["openai"].at = "exchange"
    /\ \E tokens \in BOOLEAN : queue' = Append(queue, FinishMessage(tokens))
    /\ lease' = [lease EXCEPT !["openai"].at = "finishing"]
    /\ UNCHANGED <<up, file, mem, sound, journal, work, lock, change, login, stopping, spent,
                   calls, faults>>

TakeFinish ==
    /\ Took("finish")
    /\ LET c == mem["openai"]  m == Head1.mark IN
       \/ /\ ~Consistent \/ c.gen # Head1.gen \/ c.phase # "dispatched" \/ c.refresh # m
          /\ AnswerLease("openai", m, "finishing", ErrorReply)
          /\ UNCHANGED <<file, mem, sound>> /\ NoFault
       \/ /\ Consistent /\ c.gen = Head1.gen /\ c.phase = "dispatched" /\ c.refresh = m
          /\ SaveOpenAi(IF Head1.tokens THEN [c EXCEPT !.phase = "active", !.rev = @ + 1]
                        ELSE [c EXCEPT !.phase = "reauth"])
          /\ AnswerLease("openai", m, "finishing",
                IF sound'["openai"] /\ Head1.tokens THEN [at |-> "ready", grant |-> None]
                ELSE ErrorReply)
    /\ UNCHANGED <<up, journal, work, change, login, stopping, spent, calls>>

(* A cancellation or the deadline of the lease, at any point.  Under an    *)
(* exchange the refresh is settled first, if the worker answers in time.   *)
AbandonLease(k) ==
    /\ up /\ lease[k].at # "idle"
    /\ lease' = [lease EXCEPT ![k] = IdleLease]
    /\ IF lease[k].at = "exchange" THEN queue' = Append(queue, FinishMessage(FALSE))
       ELSE UNCHANGED queue
    /\ IF lock[k] = "lease" THEN Release(k) ELSE UNCHANGED lock
    /\ UNCHANGED <<up, file, mem, sound, journal, work, change, login, stopping, spent, calls,
                   faults>>

-----------------------------------------------------------------------------
(* The login supervisor: one login at a time, registered until joined.     *)

LoginRuns == login.at \in {"callback", "exchange", "acquiring", "installing"}

StartLogin(r) ==
    /\ up /\ ~stopping /\ ~LoginRuns
    /\ r \notin Accepted
    /\ calls < MaxCalls
    /\ calls' = calls + 1
    /\ Consistent
    /\ login' = [NoLogin EXCEPT !.at = "callback", !.id = r, !.gen = mem["openai"].gen]
    /\ UNCHANGED <<up, file, mem, sound, journal, queue, work, lock, change, lease, stopping,
                   spent, faults>>

EndLogin(outcome) == login' = [login EXCEPT !.at = "ended", !.outcome = outcome]

(* The callback reads a bounded number of connections: a rejected one is   *)
(* answered and forgotten, a denial ends the login, a code is exchanged.   *)
ReceiveCallback ==
    /\ up /\ login.at = "callback" /\ ~login.cancelled
    /\ \/ /\ login.seen + 1 < MaxConnections
          /\ login' = [login EXCEPT !.seen = @ + 1]
       \/ login.seen + 1 = MaxConnections /\ EndLogin("unavailable")
       \/ EndLogin("denied")
       \/ login' = [login EXCEPT !.at = "exchange"]
    /\ UNCHANGED <<up, file, mem, sound, journal, queue, work, lock, change, lease, stopping,
                   spent, calls, faults>>

ExchangeCode ==
    /\ up /\ login.at = "exchange" /\ ~login.cancelled
    /\ login' = [login EXCEPT !.at = "acquiring"] \/ EndLogin("exchange_failed")
    /\ UNCHANGED <<up, file, mem, sound, journal, queue, work, lock, change, lease, stopping,
                   spent, calls, faults>>

InstallLogin ==
    /\ up /\ login.at = "acquiring" /\ lock["openai"] = None
    /\ lock' = [lock EXCEPT !["openai"] = login.id]
    /\ queue' = Append(queue, [type |-> "mutate", id |-> login.id, gen |-> login.gen])
    /\ login' = [login EXCEPT !.at = "installing"]
    /\ UNCHANGED <<up, file, mem, sound, journal, work, change, lease, stopping, spent, calls,
                   faults>>

(* The browser never comes back, or the client asks or disconnects: both   *)
(* end the login only before its installation.                             *)
AuthorizationEnds ==
    /\ up /\ login.at \in {"callback", "exchange"}
    /\ IF login.cancelled THEN EndLogin("cancelled") ELSE EndLogin("expired")
    /\ UNCHANGED <<up, file, mem, sound, journal, queue, work, lock, change, lease, stopping,
                   spent, calls, faults>>

\* Mutant: a timeout is reported as a failed login.
InstallationTimeout_Definite ==
    /\ up /\ login.at \in {"acquiring", "installing"}
    /\ EndLogin("unavailable")
    /\ IF lock["openai"] = login.id THEN Release("openai") ELSE UNCHANGED lock
    /\ UNCHANGED <<up, file, mem, sound, journal, queue, work, change, lease, stopping, spent,
                   calls, faults>>

(* The bound on the installation: nobody knows whether it will happen.     *)
InstallationTimeout ==
    /\ up /\ login.at \in {"acquiring", "installing"}
    /\ EndLogin("uncertain")
    /\ stopping' = TRUE
    /\ IF lock["openai"] = login.id THEN Release("openai") ELSE UNCHANGED lock
    /\ UNCHANGED <<up, file, mem, sound, journal, queue, work, change, lease, spent, calls,
                   faults>>

CancelLogin ==
    /\ up /\ LoginRuns /\ ~login.cancelled
    /\ login' = [login EXCEPT !.cancelled = TRUE]
    /\ UNCHANGED <<up, file, mem, sound, journal, queue, work, lock, change, lease, stopping,
                   spent, calls, faults>>

(* Shutdown refuses further logins, cancels the one registered and joins   *)
(* it; the worker then finishes its messages and the process ends.         *)
BeginShutdown ==
    /\ up /\ ~stopping
    /\ stopping' = TRUE
    /\ login' = IF LoginRuns THEN [login EXCEPT !.cancelled = TRUE] ELSE login
    /\ UNCHANGED <<up, file, mem, sound, journal, queue, work, lock, change, lease, spent,
                   calls, faults>>

-----------------------------------------------------------------------------
(* The process.                                                            *)

Lost ==
    /\ queue' = <<>>
    /\ work' = NoWork
    /\ lock' = [k \in Kinds |-> None]
    /\ change' = [r \in Changes |-> [change[r] EXCEPT !.at = "idle", !.answer = None]]
    /\ lease' = [k \in Kinds |-> IdleLease]
    /\ login' = IF login.at = "ended" THEN login ELSE NoLogin

Stop ==
    /\ up /\ stopping /\ ~LoginRuns /\ queue = <<>> /\ work = NoWork
    /\ up' = FALSE
    /\ Lost
    /\ UNCHANGED <<file, mem, sound, journal, stopping, spent, calls, faults>>

Crash ==
    /\ up /\ Fault
    /\ up' = FALSE
    /\ Lost
    /\ UNCHANGED <<file, mem, sound, journal, stopping, spent, calls>>

(* Opening the store reads the files, settles the open requests and then   *)
(* the refresh that was under way; the last write may be the one that the  *)
(* next crash prevents.                                                    *)
Restart ==
    /\ ~up
    /\ RecoverySucceeds(journal, file)
    /\ journal' = Recovered(journal, file)
    /\ \/ /\ up' = TRUE
          /\ file' = [file EXCEPT !["openai"] = SettledRefresh(@)]
          /\ NoFault
       \/ up' = FALSE /\ UNCHANGED file /\ Fault
    /\ mem' = file'
    /\ sound' = [k \in Kinds |-> TRUE]
    /\ stopping' = FALSE
    /\ login' = NoLogin
    /\ UNCHANGED <<queue, work, lock, change, lease, spent, calls>>

-----------------------------------------------------------------------------
WorkerStep ==
    \/ TakeMutation \/ TakeBegin \/ TakeFinish
    \/ DispatchCredentialMutation \/ ApplyOpenCode \/ ApplyOpenAi \/ CompleteCredentialMutation

LoginStep == ReceiveCallback \/ ExchangeCode \/ InstallLogin \/ CancelLogin

LoginBounds == AuthorizationEnds \/ InstallationTimeout

LeaseStep ==
    \/ SendGrant \/ ExchangeGrant
    \/ \E k \in Kinds : StartLease(k) \/ BeginAccess(k) \/ AbandonLease(k)

Next ==
    \/ WorkerStep \/ LoginStep \/ LoginBounds \/ LeaseStep
    \/ \E r \in Changes : RequestChange(r) \/ SendChange(r)
    \/ \E r \in Logins : StartLogin(r)
    \/ BeginShutdown \/ Stop \/ Crash \/ Restart

Spec == Init /\ [][Next]_vars

-----------------------------------------------------------------------------
(* Properties.                                                             *)

(* Whatever the step that a crash follows, the files and the journal it    *)
(* leaves can be reconciled: opening the store never meets a dispatched    *)
(* change that is neither installed nor absent, a generation without its   *)
(* completed request, or a chain of requests with a gap.                   *)
RestartReconciles == RecoverySucceeds(journal, file)

(* A refresh grant leaves the server once, over every retry, abandoned     *)
(* lease, failed replacement and crash.                                    *)
RefreshIsSentOnce == \A i, h \in 1 .. Len(spent) : spent[i] = spent[h] => i = h

Queued(r) == \E i \in 1 .. Len(queue) : queue[i].type = "mutate" /\ queue[i].id = r

(* What a caller is told is what happens: an installed login or a change   *)
(* answered as done is completed in the journal, and a login reported as   *)
(* cancelled, denied, refused or overtaken is not installed and is never   *)
(* installed later.                                                        *)
OutcomesAreTrue ==
    /\ \A r \in Changes : change[r].answer = "done" => StateOf(r) = "completed"
    /\ login.at = "ended" =>
        /\ login.outcome = "installed" => StateOf(login.id) = "completed"
        /\ login.outcome \notin {"installed", "uncertain"} =>
              /\ StateOf(login.id) \in {"unknown", "not_applied"}
              /\ ~Queued(login.id) /\ work.id # login.id

(* The credential of a lease that is ready is the stored one until the     *)
(* lease is given back, although callers that gave up left their changes   *)
(* in the worker's queue.                                                  *)
ReadyLeaseIsCurrent ==
    \A k \in Kinds :
        lease[k].at = "ready" /\ sound[k] =>
            mem[k].gen = lease[k].gen /\ mem[k].phase = "active"
=============================================================================

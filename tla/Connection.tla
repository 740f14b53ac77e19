----------------------------- MODULE Connection -----------------------------
(***************************************************************************)
(* How a terminal client finds, starts and proves the local server:        *)
(* connect_or_start and discover on the client's side, ServerEndpoint and  *)
(* the accept loop of morons-server on the other, over the files of the    *)
(* control directory that they share.                                      *)
(*                                                                         *)
(* Nothing but the host lock orders the processes, so every look at a file *)
(* and every change of one is a step of its own.  A client's probe of the  *)
(* lock takes it for a moment: `holder' may be a client.  A server is      *)
(* named by the epoch it generates, and its socket file with it.           *)
(***************************************************************************)
EXTENDS Naturals

CONSTANTS
  Clients,          \* running terminal clients
  Servers,          \* server processes
  Companion,        \* the server process each client may launch
  Before,           \* the server process of an earlier time
  None,
  MaxFaults         \* bound: crashes, failed starts, refused connections and stops

ASSUME ConnectionAssumption ==
  /\ Companion \in [Clients -> Servers \ {Before}]
  /\ \A a, b \in Clients : Companion[a] = Companion[b] => a = b
  /\ Before \in Servers /\ None \notin Clients \union Servers
  /\ Clients \intersect Servers = {}
  /\ MaxFaults \in Nat

VARIABLES
  dir,      \* the control directory exists
  lock,     \* the host lock file exists
  key,      \* the authentication key: none, partial or whole
  reg,      \* the server the endpoint registration names
  socks,    \* the endpoints in the runtime directory
  holder,   \* who holds the host lock
  srv,      \* the server processes
  cl,       \* the clients
  conn,     \* the connection each client has made
  faults,
  past      \* lost: a server ended while the directory had no whole key; raced: the
            \* clients in whose discovery a server published or ended

files == <<dir, lock, key, reg, socks>>
vars == <<dir, lock, key, reg, socks, holder, srv, cl, conn, faults, past>>

NoConn == [s |-> None, at |-> "none"]

(***************************************************************************)
(* morons-server.  `at' is the next thing the process does.                *)
(***************************************************************************)
NewServer == [at |-> "idle", existed |-> FALSE, seen |-> FALSE, outdated |-> FALSE]

Gone(s) == srv[s].at = "gone"

Living == {s \in Servers : srv[s].at \notin {"idle", "gone"}}

At(s, p) == srv[s].at = p

Goto(s, p) == srv' = [srv EXCEPT ![s].at = p]

\* Connections of `s' that are cut when it drops them.
Closed(s) == [c \in Clients |-> IF conn[c].s = s /\ conn[c].at # "none"
                                THEN [conn[c] EXCEPT !.at = "closed"] ELSE conn[c]]

\* The clients in the middle of a discovery.
Seeking == {c \in Clients : cl[c].at \notin
              {"discover", "Absent", "Incomplete", "Starting", "Registered", "connect",
               "authenticate", "ended"}}

\* The process ends; what it holds of the lock ends with it.
Exit(s) ==
  /\ Goto(s, "gone")
  /\ holder' = IF holder = s THEN None ELSE holder
  /\ past' = [lost |-> past.lost \/ (dir /\ key # "whole"), raced |-> Seeking]

\* A server is also started by hand.
StartByHand(s) ==
  /\ At(s, "idle") /\ \A c \in Clients : Companion[c] # s
  /\ Goto(s, "check")
  /\ UNCHANGED <<files, holder, cl, conn, faults, past>>

\* prepare_for_server: whether the directory was there decides, much later,
\* whether a key may be created.
CheckDirectory(s) ==
  /\ At(s, "check")
  /\ srv' = [srv EXCEPT ![s].existed = dir, ![s].at = "directory"]
  /\ UNCHANGED <<files, holder, cl, conn, faults, past>>

\* ensure_private_directory looks again and creates: another contender may
\* come between, and the creation is refused.
EnsureDirectory(s) ==
  /\ At(s, "directory")
  /\ dir' = TRUE
  /\ \/ Goto(s, "lockfile") /\ UNCHANGED <<holder, past>>
     \/ ~srv[s].existed /\ dir /\ Exit(s)
  /\ UNCHANGED <<lock, key, reg, socks, cl, conn, faults>>

\* acquire_host_lock, up to the check of the lock file
FindLockFile(s) ==
  /\ At(s, "lockfile")
  /\ IF srv[s].existed /\ ~lock THEN Exit(s)
     ELSE /\ srv' = [srv EXCEPT ![s].seen = lock, ![s].at = "openlock"]
          /\ UNCHANGED <<holder, past>>
  /\ UNCHANGED <<files, cl, conn, faults>>

\* create_new refuses a lock file that has appeared since.
OpenLockFile(s) ==
  /\ At(s, "openlock")
  /\ lock' = TRUE
  /\ IF lock /\ ~srv[s].seen THEN Exit(s)
     ELSE Goto(s, "trylock") /\ UNCHANGED <<holder, past>>
  /\ UNCHANGED <<dir, key, reg, socks, cl, conn, faults>>

\* Mutant: a lock that is held is not waited for, nor taken.
TryLock_Ignored(s) ==
  /\ At(s, "trylock")
  /\ holder' = IF holder = None THEN s ELSE holder
  /\ Goto(s, "key")
  /\ UNCHANGED <<files, cl, conn, faults, past>>

TryLock(s) ==
  /\ At(s, "trylock")
  /\ IF holder # None THEN Exit(s)
     ELSE holder' = s /\ Goto(s, "key") /\ UNCHANGED past
  /\ UNCHANGED <<files, cl, conn, faults>>

\* A key is created only where the whole directory is new.
FindKey(s) ==
  /\ At(s, "key")
  /\ \/ key = "whole" /\ Goto(s, "clean") /\ UNCHANGED <<key, holder, past>>
     \/ key = "none" /\ ~srv[s].existed
        /\ key' = "partial" /\ Goto(s, "writekey") /\ UNCHANGED <<holder, past>>
     \/ (key = "partial" \/ (key = "none" /\ srv[s].existed))
        /\ Exit(s) /\ UNCHANGED key
  /\ UNCHANGED <<dir, lock, reg, socks, cl, conn, faults>>

WriteKey(s) ==
  /\ At(s, "writekey")
  /\ \/ key' = "whole" /\ Goto(s, "clean") /\ UNCHANGED <<holder, faults, past>>
     \/ /\ faults < MaxFaults /\ faults' = faults + 1
        /\ key' = "none" /\ Goto(s, "gone")
        /\ holder' = None /\ past' = [lost |-> TRUE, raced |-> Seeking]
  /\ UNCHANGED <<dir, lock, reg, socks, cl, conn>>

\* The holder removes what an earlier server left.
RemoveStale(s) ==
  /\ At(s, "clean")
  /\ reg' = None /\ socks' = {}
  /\ Goto(s, "bind")
  /\ UNCHANGED <<dir, lock, key, holder, cl, conn, faults, past>>

Bind(s) ==
  /\ At(s, "bind")
  /\ socks' = socks \union {s}
  /\ Goto(s, "open")
  /\ UNCHANGED <<dir, lock, key, reg, holder, cl, conn, faults, past>>

\* ServerApplication::open recovers the database, or ends the process.
OpenApplication(s) ==
  /\ At(s, "open")
  /\ \/ Goto(s, "publish") /\ UNCHANGED <<faults>>
     \/ faults < MaxFaults /\ faults' = faults + 1 /\ Goto(s, "unlink")
  /\ UNCHANGED <<files, holder, cl, conn, past>>

\* The registration is written aside and renamed into place.
Publish(s) ==
  /\ At(s, "publish")
  /\ IF reg # None THEN Goto(s, "unlink") /\ UNCHANGED reg
     ELSE reg' = s /\ Goto(s, "serving")
  /\ past' = [past EXCEPT !.raced = Seeking]
  /\ UNCHANGED <<dir, lock, key, socks, holder, cl, conn, faults>>

\* Ctrl+C, or a stop request of a client.
Stop(s) ==
  /\ At(s, "serving") /\ faults < MaxFaults
  /\ faults' = faults + 1
  /\ Goto(s, "draining")
  /\ UNCHANGED <<files, holder, cl, conn, past>>

\* Connections are joined or aborted, and the listener is dropped.
Drain(s) ==
  /\ At(s, "draining")
  /\ conn' = Closed(s)
  /\ Goto(s, "unregister")
  /\ UNCHANGED <<files, holder, cl, faults, past>>

\* ServerControl::drop: only its own registration is removed.
Unregister(s) ==
  /\ At(s, "unregister")
  /\ reg' = IF reg = s THEN None ELSE reg
  /\ Goto(s, "unlink")
  /\ UNCHANGED <<dir, lock, key, socks, holder, cl, conn, faults, past>>

Unlink(s) ==
  /\ At(s, "unlink")
  /\ socks' = socks \ {s}
  /\ conn' = Closed(s)
  /\ Exit(s)
  /\ UNCHANGED <<dir, lock, key, reg, cl, faults>>

\* The process dies and leaves every file as it is.
Crash(s) ==
  /\ s \in Living /\ faults < MaxFaults
  /\ faults' = faults + 1
  /\ conn' = Closed(s)
  /\ Exit(s)
  /\ UNCHANGED <<files, cl>>

(***************************************************************************)
(* The connection: authenticate_server, handle_handshake.                  *)
(***************************************************************************)
Listening(s) == srv[s].at \in {"open", "publish", "serving", "draining"} /\ s \in socks

Serving(s, c) == At(s, "serving") /\ conn[c].s = s

Reply(c, p) ==
  conn' = [conn EXCEPT ![c].at = p] /\ UNCHANGED <<files, holder, srv, cl, faults, past>>

\* A connection beyond MAX_CLIENT_CONNECTIONS, most of which are those of
\* clients not modelled here, is dropped; another one is sent the challenge.
Accept(s, c) ==
  /\ Serving(s, c) /\ conn[c].at = "pending"
  /\ \/ conn' = [conn EXCEPT ![c].at = "challenged"] /\ UNCHANGED faults
     \/ /\ faults < MaxFaults /\ faults' = faults + 1
        /\ conn' = [conn EXCEPT ![c].at = "closed"]
  /\ UNCHANGED <<files, holder, srv, cl, past>>

ServerProves(s, c) == Serving(s, c) /\ conn[c].at = "proved" /\ Reply(c, "proven")

ServerGreets(s, c) ==
  /\ Serving(s, c) /\ conn[c].at = "greeted"
  /\ Reply(c, IF srv[s].outdated THEN "mismatched" ELSE "accepted")

(***************************************************************************)
(* connect_or_start_until_mode.                                            *)
(***************************************************************************)
NewClient ==
  [at |-> "discover", held |-> FALSE, launched |-> FALSE, exited |-> FALSE,
   debug |-> FALSE, starting |-> FALSE, grace |-> FALSE, incomplete |-> FALSE, reg |-> None, out |-> "none"]

Ended(c) == cl[c].at = "ended"

Look(c, k) == cl' = [cl EXCEPT ![c] = k] /\ UNCHANGED <<files, srv, conn, faults, past>>

Step(c, p) == Look(c, [cl[c] EXCEPT !.at = p]) /\ UNCHANGED holder

\* The discovery answers `f'.
Finding(k, f) == [k EXCEPT !.at = f]

Finished(c, why) == [NewClient EXCEPT !.at = "ended", !.out = why, !.debug = cl[c].debug]

End(c, why) == Look(c, Finished(c, why)) /\ UNCHANGED holder

\* A malformed control state, which has a cause if a server ended before the
\* key was whole, or published its endpoint or ended during this discovery.
Malformed(c) == Finished(c, IF past.lost \/ c \in past.raced THEN "Control" ELSE "Unfounded")

Reaped(c) == cl[c].exited \/ (cl[c].launched /\ Gone(Companion[c]))

\* discover_observing, look by look.
Discover(c) ==
  /\ cl[c].at = "discover"
  /\ cl' = [cl EXCEPT ![c].exited = Reaped(c), ![c].at = IF dir THEN "lock1" ELSE "Absent"]
  /\ past' = [past EXCEPT !.raced = @ \ {c}]
  /\ UNCHANGED <<files, holder, srv, conn, faults>>

SeekLock(c) == cl[c].at = "lock1" /\ Step(c, IF lock THEN "probe" ELSE "empty")

SeekEmpty(c) ==
  /\ cl[c].at = "empty"
  /\ Step(c, IF ~lock /\ key = "none" /\ reg = None THEN "Incomplete" ELSE "lock2")

\* A lock that has appeared since is examined like any other.
SeekLockAgain(c) ==
  /\ cl[c].at = "lock2"
  /\ Look(c, IF lock THEN [cl[c] EXCEPT !.at = "probe"] ELSE Malformed(c))
  /\ UNCHANGED holder

\* probe_host_lock takes the lock, if it is free, and gives it back.
ProbeLock(c) ==
  /\ cl[c].at = "probe"
  /\ IF holder # None
     THEN Look(c, [cl[c] EXCEPT !.held = TRUE, !.at = "reg1"]) /\ UNCHANGED holder
     ELSE holder' = c /\ Look(c, [cl[c] EXCEPT !.held = FALSE, !.at = "unprobe"])

Unprobe(c) ==
  /\ cl[c].at = "unprobe"
  /\ holder' = None
  /\ Look(c, [cl[c] EXCEPT !.at = "key1"])

\* An initializer that has published nothing is waited for, and its key not read.
SeekPublication(c) == cl[c].at = "reg1" /\ Step(c, IF reg = None THEN "Starting" ELSE "key1")

SeekKey(c) == cl[c].at = "key1" /\ Step(c, IF key = "none" THEN "reg2" ELSE "key2")

KeyIsMissing(c) ==
  /\ cl[c].at = "reg2"
  /\ Look(c, IF reg # None THEN Malformed(c)
             ELSE Finding(cl[c], IF cl[c].held THEN "Starting" ELSE "Incomplete"))
  /\ UNCHANGED holder

LoadKey(c) == cl[c].at = "key2" /\ Step(c, IF key = "whole" THEN "reg3" ELSE "reg4")

\* Mutant: a key that cannot be read is an error at once.
KeyIsPartial_Fatal(c) ==
  /\ cl[c].at = "reg4"
  /\ Look(c, Malformed(c)) /\ UNCHANGED holder

\* A key that cannot be read is an error unless an initializer is writing it.
KeyIsPartial(c) ==
  /\ cl[c].at = "reg4"
  /\ Look(c, IF reg # None THEN Malformed(c) ELSE [cl[c] EXCEPT !.at = "probe2"])
  /\ UNCHANGED holder

ProbeLockAgain(c) ==
  /\ cl[c].at = "probe2"
  /\ IF holder # None THEN Look(c, Finding(cl[c], "Starting")) /\ UNCHANGED holder
     ELSE holder' = c /\ Look(c, [cl[c] EXCEPT !.at = "unprobe2"])

UnprobeAgain(c) ==
  /\ cl[c].at = "unprobe2"
  /\ holder' = None
  /\ Look(c, Malformed(c))

Unregistered(k) == Finding(k, IF k.held THEN "Starting" ELSE "Absent")

SeekRegistration(c) ==
  /\ cl[c].at = "reg3"
  /\ Look(c, IF reg = None THEN Unregistered(cl[c]) ELSE [cl[c] EXCEPT !.at = "read"])
  /\ UNCHANGED holder

ReadRegistration(c) ==
  /\ cl[c].at = "read"
  /\ Look(c, IF reg = None THEN Unregistered(cl[c])
             ELSE [cl[c] EXCEPT !.reg = reg, !.at = "Registered"])
  /\ UNCHANGED holder

\* The part of the loop that follows discovery.  A period of grace runs from
\* the first of the findings that allow it.
Timed(k) ==
  [k EXCEPT !.grace = k.exited /\ k.at \in {"Absent", "Incomplete"},
            !.incomplete = k.at = "Incomplete",
            !.starting = k.at = "Starting"]

\* A companion that has exited, and nothing to connect to for the whole grace
GraceOver(c) ==
  /\ cl[c].at \in {"Absent", "Incomplete"} /\ cl[c].exited /\ cl[c].grace
  /\ End(c, "CompanionExited")

\* Mutant: a registration that cannot be connected to is tried for ever.
TimesOut_UnlessRegistered(c) ==
  /\ cl[c].at \in {"Absent", "Incomplete"} /\ ~cl[c].starting
  /\ End(c, "StartupTimedOut")

\* The startup deadline passes; it is set anew when the server leaves Starting.
TimesOut(c) ==
  /\ cl[c].at \in {"Absent", "Incomplete", "Registered"} /\ ~cl[c].starting
  /\ End(c, "StartupTimedOut")

IncompleteOver(c) ==
  /\ cl[c].at = "Incomplete" /\ cl[c].incomplete
  /\ End(c, "RemainedIncomplete")

\* spawn_companion: once for a client, and then the loop begins again.
Launch(c, k) ==
  /\ cl' = [cl EXCEPT ![c] = [k EXCEPT !.launched = TRUE, !.at = "discover", !.held = FALSE,
                                       !.reg = None]]
  /\ IF k.launched THEN UNCHANGED srv
     ELSE srv' = [srv EXCEPT ![Companion[c]].at = "check"]
  /\ UNCHANGED <<files, holder, conn, faults, past>>

Again(c, k) == Look(c, [k EXCEPT !.at = "discover", !.held = FALSE]) /\ UNCHANGED holder

Decide(c) ==
  LET k == Timed(cl[c])
  IN  /\ cl[c].at \in {"Absent", "Incomplete", "Starting", "Registered"}
      /\ CASE k.at = "Absent"     -> Launch(c, k)
           [] k.at = "Incomplete" -> Again(c, k)
           [] k.at = "Starting"   ->
                IF cl[c].debug /\ ~k.launched
                THEN End(c, "Debug")
                ELSE Again(c, k)
           [] OTHER -> Look(c, [k EXCEPT !.at = "connect"]) /\ UNCHANGED holder

\* connect_registered_server: an endpoint nobody listens at, or that does not
\* take the connection in time, allows a companion to be started.
Connect(c) ==
  LET s == cl[c].reg
  IN  /\ cl[c].at = "connect"
      /\ \/ /\ Listening(s)
            /\ conn' = [conn EXCEPT ![c] = [s |-> s, at |-> "pending"]]
            /\ cl' = [cl EXCEPT ![c].at = "authenticate"]
            /\ UNCHANGED <<files, holder, srv, faults, past>>
         \/ ~Listening(s) /\ Launch(c, cl[c])

\* authenticate_client and perform_handshake
Respond(c, from, to) ==
  /\ cl[c].at = "authenticate" /\ conn[c].at = from
  /\ conn' = [conn EXCEPT ![c].at = to]
  /\ UNCHANGED <<files, holder, srv, cl, faults, past>>

ClientProves(c) == Respond(c, "challenged", "proved")

ClientGreets(c) == Respond(c, "proven", "greeted")

Connected(c) ==
  /\ cl[c].at = "authenticate" /\ conn[c].at = "accepted"
  /\ End(c, IF cl[c].debug /\ cl[c].reg # Companion[c] THEN "Debug" ELSE "Connected")

\* The peer is gone, has another version, or does not answer in time: none of
\* them is retried, and none allows another server to be started.
Refused(c) ==
  /\ cl[c].at = "authenticate"
  /\ End(c, CASE conn[c].at = "mismatched" -> "Handshake"
              [] conn[c].at = "closed"     -> "Authentication"
              [] OTHER                     -> "AuthenticationTimedOut")

(***************************************************************************)
(* The specification.  The profile is new, or has a server that runs, or   *)
(* that has died and left its files.                                       *)
(***************************************************************************)
Init ==
  \E old \in {"new", "running", "dead"}, outdated \in BOOLEAN :
    /\ old # "running" => ~outdated
    /\ dir = (old # "new") /\ lock = dir /\ key = IF dir THEN "whole" ELSE "none"
    /\ reg = IF dir THEN Before ELSE None
    /\ socks = IF dir THEN {Before} ELSE {}
    /\ holder = IF old = "running" THEN Before ELSE None
    /\ srv = [s \in Servers |->
                IF s = Before
                THEN [NewServer EXCEPT !.at = IF old = "running" THEN "serving" ELSE "gone",
                                       !.outdated = outdated]
                ELSE NewServer]
    /\ \E d \in [Clients -> BOOLEAN] :
         cl = [c \in Clients |-> [NewClient EXCEPT !.debug = d[c]]]
    /\ conn = [c \in Clients |-> NoConn]
    /\ faults = 0 /\ past = [lost |-> FALSE, raced |-> {}]

Start(s) ==
  \/ CheckDirectory(s) \/ EnsureDirectory(s) \/ FindLockFile(s) \/ OpenLockFile(s)
  \/ TryLock(s) \/ FindKey(s) \/ WriteKey(s) \/ RemoveStale(s) \/ Bind(s)
  \/ OpenApplication(s) \/ Publish(s)

Finish(s) == Drain(s) \/ Unregister(s) \/ Unlink(s)

Serve(s, c) == Accept(s, c) \/ ServerProves(s, c) \/ ServerGreets(s, c)

Seek(c) ==
  \/ Discover(c) \/ SeekLock(c) \/ SeekEmpty(c) \/ SeekLockAgain(c) \/ ProbeLock(c)
  \/ Unprobe(c) \/ SeekPublication(c) \/ SeekKey(c) \/ KeyIsMissing(c) \/ LoadKey(c)
  \/ KeyIsPartial(c) \/ ProbeLockAgain(c) \/ UnprobeAgain(c) \/ SeekRegistration(c)
  \/ ReadRegistration(c)

Attempt(c) ==
  Decide(c) \/ Connect(c) \/ ClientProves(c) \/ ClientGreets(c) \/ Connected(c) \/ Refused(c)

Expire(c) == GraceOver(c) \/ TimesOut(c) \/ IncompleteOver(c)

Next ==
  \/ \E s \in Servers : Start(s) \/ Finish(s) \/ StartByHand(s) \/ Stop(s) \/ Crash(s)
  \/ \E s \in Servers, c \in Clients : Serve(s, c)
  \/ \E c \in Clients : Seek(c) \/ Attempt(c) \/ Expire(c)

Spec == Init /\ [][Next]_vars

\* Every process is scheduled, and a deadline that is looked at again and
\* again has passed at one of the looks.
FairSpec ==
  /\ Spec
  /\ \A s \in Servers : WF_vars(Start(s)) /\ WF_vars(Finish(s))
  /\ \A s \in Servers, c \in Clients : WF_vars(Serve(s, c))
  /\ \A c \in Clients :
       WF_vars(Seek(c) \/ Attempt(c)) /\ SF_vars(Expire(c))

(***************************************************************************)
(* Properties.                                                             *)
(***************************************************************************)
\* A contender never disturbs the winner: while a server serves, the
\* registration on disk names it and its endpoint is in place.
RegistrationIsCurrent ==
  \A s \in Servers : At(s, "serving") => reg = s /\ s \in socks /\ holder = s

\* Whatever a client sees of servers that start, stop and die meanwhile, it reports a
\* malformed control state only if a server ended before the key was whole, or
\* if a server published its endpoint or ended during that very discovery.
ControlErrorHasCause == \A c \in Clients : cl[c].out # "Unfounded"

\* Every client gets its connection or an error.
ClientDecides == \A c \in Clients : <>Ended(c)

\* When every contender of a concurrent start has ended, and none of them
\* was disturbed, the control root is one that a later server can start from.
ConcurrentStartLeavesRoot ==
  faults = 0 /\ Living = {} /\ dir => key = "whole"
=============================================================================

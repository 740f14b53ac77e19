------------------------- MODULE SessionCatalogProofs -------------------------
(***************************************************************************)
(* Theorems about SessionCatalog, for any number of sessions, requests,    *)
(* starts and faults: a start is never refused unless a deletion is        *)
(* stranded, the sessions are what a rebuild derives from the requests, a  *)
(* deletion is final, and images are paired with their files.              *)
(***************************************************************************)
EXTENDS SessionCatalog, FiniteSetTheorems, WellFoundedInduction, TLAPS

\* The stages in which a start has cleared up the files of images.
Cleared == {"creations", "archives", "deletes", "serving"}

CatalogTypeOK ==
  /\ row \in [Requests -> Rows] /\ next \in Nat \ {0}
  /\ session \in [Creates -> SessionRows \cup {None}]
  /\ files \in [Creates -> {"none", "temporary", "written", "identity"}]
  /\ image \in [Creates -> {{}, {"file"}, {"file", "row"}}]
  /\ busy \in SUBSET Creates
  /\ stop \in [Stops -> [epoch : Nat, signal : BOOLEAN]]
  /\ handler \in Flags \cup Deletes \cup {None}
  /\ creating \in Creates \cup {None} /\ staging \in Creates \cup {None}
  /\ server \in Cleared \cup {"down", "attachments", "failed"} /\ stopping \in BOOLEAN
  /\ starts \in Nat /\ faults \in Nat

\* A session is there while its creation is ready, and its workspace with it.
ReadyMeansThere ==
  \A c \in Creates : /\ session[c] # None <=> row[c].state = "ready"
                     /\ row[c].state = "ready" => files[c] = "identity"

\* What is accepted or applied about a session is forgotten with the session.
RequestsHaveSession ==
  \A q \in Renames \cup Flags :
    row[q].state \in {"prepared", "applied"} => row[SessionOf[q]].state = "ready"

DeletionsAdvance ==
  \A q \in Deletes : row[q].state \in {"none", "prepared", "cleaned", "complete"}

AppliedRenames(c) == {q \in Renames : SessionOf[q] = c /\ row[q].state = "applied"}

\* The name of a session is the last that was given to it.
NamesAreLatest ==
  \A c \in Creates : session[c] # None =>
    \/ AppliedRenames(c) = {} /\ session[c].name = c
    \/ /\ session[c].name \in AppliedRenames(c)
       /\ \A q \in AppliedRenames(c) : row[q].seq <= row[session[c].name].seq

\* A process is signalled by one stop request, and by one if it accepted any.
SignalsAreSingle ==
  /\ \A p \in Stops : Registered(p) =>
       \E r \in Stops : stop[r].epoch = stop[p].epoch /\ stop[r].signal
  /\ \A p, r \in Stops : stop[p].signal /\ stop[r].signal /\ stop[p].epoch = stop[r].epoch => p = r
  /\ \A p \in Stops : stop[p].signal => Registered(p)

\* ImagesArePaired, in every stage after the files were cleared up.
FilesHaveCause ==
  server \in Cleared =>
    \A c \in Creates : image[c] = {"file"} =>
      staging = c \/ \E q \in Deletes : SessionOf[q] = c /\ row[q].state = "cleaned"

\* What the worker is inside of belongs to the stage it runs in.
WorkerFitsStage ==
  /\ creating # None => server \in {"serving", "creations"}
  /\ staging # None => /\ server = "serving" /\ session[staging] # None
                       /\ image[staging] = {"file"}
  /\ server \in {"archives", "deletes"} => busy = {}

CatalogInv ==
  /\ CatalogTypeOK /\ ReadyMeansThere /\ RequestsHaveSession /\ DeletionsAdvance
  /\ NamesAreLatest /\ SequencesAreValid /\ SignalsAreSingle /\ DeletionIsFinal
  /\ FilesHaveCause /\ WorkerFitsStage /\ StartsUnlessDeletionStranded

--------------------------------------------------------------------------------
(* Facts about the operators of the model. *)

\* A request is of one kind, and what it is about is a session.
LEMMA Kinds ==
  /\ \A q \in Renames \cup Flags \cup Deletes : SessionOf[q] \in Creates /\ q \in Requests
  /\ Creates \subseteq Requests /\ Stops \subseteq Requests
  /\ \A q \in Creates : q \notin Renames \cup Flags \cup Deletes \cup Stops
  /\ \A q \in Renames : q \notin Flags \cup Deletes \cup Stops
  /\ \A q \in Flags : q \notin Deletes \cup Stops
  /\ \A q \in Deletes : q \notin Stops
  /\ None \notin Requests /\ None \notin Creates /\ None \notin SessionRows
  BY CatalogAssumption DEF Flags, Requests

\* A session that is there has a row.
LEMMA SessionIsRow ==
  ASSUME CatalogTypeOK, NEW c \in Creates, session[c] # None
  PROVE  session[c] \in SessionRows /\ session[c].name \in Creates \cup Renames
         /\ session[c].archived \in BOOLEAN
<1>1. session[c] \in SessionRows
  BY DEF CatalogTypeOK
<1> QED
  BY <1>1 DEF SessionRows

\* The oldest of some requests is one of them.
LEMMA OldestIsOne ==
  ASSUME CatalogTypeOK, NEW S \in SUBSET Requests, S # {}
  PROVE  Oldest(S) \in S
<1> DEFINE T == {row[q].seq : q \in S}
<1>1. \A q \in S : row[q].seq \in Nat
  BY DEF CatalogTypeOK, Rows
<1>2. T \subseteq Nat /\ T # {}
  BY <1>1
<1> HIDE DEF T
<1>3. PICK x \in T : \A y \in T : <<y, x>> \notin OpToRel(<, Nat)
  BY <1>2, NatLessThanWellFounded, WFMin
<1>a. \A y \in T : ~(y < x)
  BY <1>2, <1>3 DEF OpToRel
<1>4. \A y \in T : x <= y
  BY <1>2, <1>a
<1>5. PICK q \in S : row[q].seq = x
  BY <1>3 DEF T
<1>6. \A r \in S : row[q].seq <= row[r].seq
  BY <1>4, <1>5 DEF T
<1> QED
  BY <1>6 DEF Oldest

\* The latest of some requests is the one that no other is after.
LEMMA LatestIsLast ==
  ASSUME CatalogTypeOK, SequencesAreValid, NEW S \in SUBSET Requests, NEW q \in S,
         \A r \in S : Registered(r) /\ row[r].seq <= row[q].seq
  PROVE  Latest(S) = q
<1> DEFINE x == CHOOSE p \in S : \A r \in S : row[r].seq <= row[p].seq
<1>1. x \in S /\ \A r \in S : row[r].seq <= row[x].seq
  OBVIOUS
<1>2. Latest(S) = x
  BY DEF Latest
<1> HIDE DEF x
<1>3. row[x].seq \in Nat /\ row[q].seq \in Nat
  <2>1. row[x] \in Rows /\ row[q] \in Rows
    BY <1>1 DEF CatalogTypeOK
  <2> QED
    BY <2>1 DEF Rows
<1>4. row[x].seq <= row[q].seq /\ row[q].seq <= row[x].seq
  BY <1>1
<1>5. row[x].seq = row[q].seq
  BY <1>3, <1>4
<1> QED
  BY <1>1, <1>2, <1>5 DEF SequencesAreValid

\* A name that is the latest is the one a rebuild derives.
LEMMA RebuiltIsThere ==
  ASSUME CatalogInv, NEW c \in Creates
  PROVE  /\ (session[c] = None) = (Rebuilt(c) = None)
         /\ session[c] # None =>
              /\ Rebuilt(c) \in SessionRows /\ Rebuilt(c).name = session[c].name
<1> USE Kinds DEF CatalogInv
<1>1. session[c] = None => Rebuilt(c) = None
  BY DEF ReadyMeansThere, Rebuilt
<1>2. ASSUME session[c] # None
      PROVE  Rebuilt(c) \in SessionRows /\ Rebuilt(c).name = session[c].name
  <2> DEFINE name == IF AppliedRenames(c) = {} THEN c ELSE Latest(AppliedRenames(c))
             archived == Latest(AppliedFlags(c)) \in Archives
  <2>1. row[c].state = "ready"
    BY <1>2 DEF ReadyMeansThere
  <2>2. Rebuilt(c) = [name |-> name, archived |-> archived]
    BY <2>1 DEF Rebuilt, AppliedRenames
  <2>3. name = session[c].name
    <3>1. CASE AppliedRenames(c) = {}
      BY <1>2, <3>1 DEF NamesAreLatest
    <3>2. CASE AppliedRenames(c) # {}
      <4>1. /\ session[c].name \in AppliedRenames(c)
            /\ \A q \in AppliedRenames(c) : row[q].seq <= row[session[c].name].seq
        BY <1>2, <3>2 DEF NamesAreLatest
      <4>2. AppliedRenames(c) \in SUBSET Requests /\ \A q \in AppliedRenames(c) : Registered(q)
        BY DEF AppliedRenames, Registered
      <4>3. Latest(AppliedRenames(c)) = session[c].name
        BY <4>1, <4>2, LatestIsLast
      <4> QED
        BY <3>2, <4>3
    <3> QED
      BY <3>1, <3>2
  <2>4. session[c].name \in Creates \cup Renames
    BY <1>2, SessionIsRow
  <2>5. archived \in BOOLEAN
    OBVIOUS
  <2> HIDE DEF name, archived
  <2> QED
    BY <2>2, <2>3, <2>4, <2>5 DEF SessionRows
<1> QED
  BY <1>1, <1>2

\* A process is signalled once, in the words of the validation.
LEMMA StopFactsHold ==
  ASSUME SignalsAreSingle
  PROVE  StopFactsAreValid
<1> SUFFICES ASSUME NEW p \in Stops, Registered(p)
             PROVE  Cardinality({r \in Stops : stop[r].epoch = stop[p].epoch /\ stop[r].signal}) = 1
  BY DEF StopFactsAreValid
<1>1. PICK r \in Stops : stop[r].epoch = stop[p].epoch /\ stop[r].signal
  BY DEF SignalsAreSingle
<1>2. {s \in Stops : stop[s].epoch = stop[p].epoch /\ stop[s].signal} = {r}
  BY <1>1 DEF SignalsAreSingle
<1> QED
  BY <1>2, FS_Singleton

--------------------------------------------------------------------------------
(* What a step keeps by leaving the tables alone, or most of them. *)

LEMMA CatalogInvInit == Init => CatalogInv
<1> SUFFICES ASSUME Init PROVE CatalogInv
  OBVIOUS
<1> USE Kinds DEF Init
<1>1. CatalogTypeOK
  <2>1. NoRow \in Rows /\ 1 \in Nat \ {0} /\ 0 \in Nat
    BY DEF NoRow, Rows
  <2>2. row \in [Requests -> Rows] /\ next \in Nat \ {0}
    BY <2>1
  <2>3. /\ session \in [Creates -> SessionRows \cup {None}]
        /\ files \in [Creates -> {"none", "temporary", "written", "identity"}]
        /\ image \in [Creates -> {{}, {"file"}, {"file", "row"}}]
    OBVIOUS
  <2>4. stop \in [Stops -> [epoch : Nat, signal : BOOLEAN]]
    OBVIOUS
  <2> QED
    BY <2>2, <2>3, <2>4 DEF CatalogTypeOK, Cleared
<1>2. \A q \in Requests : row[q].state = "none"
  BY DEF NoRow
<1>3. ReadyMeansThere /\ RequestsHaveSession /\ DeletionsAdvance /\ NamesAreLatest
      /\ DeletionIsFinal /\ FilesHaveCause /\ WorkerFitsStage /\ StartsUnlessDeletionStranded
  BY <1>2 DEF ReadyMeansThere, RequestsHaveSession, DeletionsAdvance, NamesAreLatest,
              DeletionIsFinal, FilesHaveCause, WorkerFitsStage, StartsUnlessDeletionStranded
<1>4. SequencesAreValid /\ SignalsAreSingle
  BY <1>2 DEF SequencesAreValid, SignalsAreSingle, Registered
<1> QED
  BY <1>1, <1>3, <1>4 DEF CatalogInv

\* A step that leaves the tables alone only has to keep to its stage.
LEMMA QuietKeeps ==
  ASSUME CatalogInv, UNCHANGED <<tables, staging>>,
         /\ busy' \in SUBSET Creates /\ handler' \in Flags \cup Deletes \cup {None}
         /\ creating' \in Creates \cup {None} /\ stopping' \in BOOLEAN
         /\ starts' \in Nat /\ faults' \in Nat
         /\ server' \in Cleared \cup {"down", "attachments", "failed"},
         creating' # None => server' \in {"serving", "creations"},
         staging # None => server' = "serving",
         server' \in {"archives", "deletes"} => busy' = {},
         server' \in Cleared => server \in Cleared,
         server' = "failed" => StrandedDeletion
  PROVE  CatalogInv'
<1> USE DEF CatalogInv, tables
<1>1. CatalogTypeOK'
  BY DEF CatalogTypeOK
<1>2. ReadyMeansThere' /\ RequestsHaveSession' /\ DeletionsAdvance' /\ NamesAreLatest'
  BY DEF ReadyMeansThere, RequestsHaveSession, DeletionsAdvance, NamesAreLatest, AppliedRenames
<1>3. SequencesAreValid' /\ SignalsAreSingle' /\ DeletionIsFinal'
  BY DEF SequencesAreValid, SignalsAreSingle, DeletionIsFinal, Registered
<1>4. FilesHaveCause' /\ WorkerFitsStage'
  BY DEF FilesHaveCause, WorkerFitsStage
<1>5. StartsUnlessDeletionStranded'
  BY DEF StartsUnlessDeletionStranded, StrandedDeletion, AppliedFlags, Latest
<1> QED
  BY <1>1, <1>2, <1>3, <1>4, <1>5

\* Sequences stay valid while rows keep theirs, or when one row takes the next.
LEMMA SequencesKept ==
  ASSUME CatalogTypeOK, CatalogTypeOK', SequencesAreValid, next' >= next,
         \A q \in Requests : row'[q].seq = row[q].seq /\ (Registered(q)' <=> Registered(q))
  PROVE  SequencesAreValid'
<1>1. \A q \in Requests : row[q].seq \in Nat
  BY DEF CatalogTypeOK, Rows
<1>2. next \in Nat /\ next' \in Nat
  BY DEF CatalogTypeOK
<1> QED
  BY <1>1, <1>2 DEF SequencesAreValid

LEMMA SequenceTaken ==
  ASSUME CatalogTypeOK, CatalogTypeOK', SequencesAreValid, next' > next, NEW q \in Requests,
         row'[q].seq = next, \A r \in Requests \ {q} : row'[r] = row[r]
  PROVE  SequencesAreValid'
<1>1. \A r \in Requests : row[r].seq \in Nat
  BY DEF CatalogTypeOK, Rows
<1>2. next \in Nat /\ next' \in Nat
  BY DEF CatalogTypeOK
<1>3. \A r \in Requests \ {q} : Registered(r)' <=> Registered(r)
  BY DEF Registered
<1>4. \A r \in Requests \ {q} : Registered(r)' => row'[r].seq < next
  BY <1>3 DEF SequencesAreValid
<1> QED
  BY <1>1, <1>2, <1>3, <1>4 DEF SequencesAreValid

\* Names stay the latest while no session gets one and no rename is applied.
LEMMA NamesKept ==
  ASSUME NamesAreLatest,
         \A c \in Creates : session'[c] # None =>
           /\ session[c] # None /\ session'[c].name = session[c].name
           /\ \A q \in Renames : SessionOf[q] = c => row'[q] = row[q]
  PROVE  NamesAreLatest'
<1> SUFFICES ASSUME NEW c \in Creates, session'[c] # None
             PROVE  \/ AppliedRenames(c)' = {} /\ session'[c].name = c
                    \/ /\ session'[c].name \in AppliedRenames(c)'
                       /\ \A q \in AppliedRenames(c)' :
                            row'[q].seq <= row'[session'[c].name].seq
  BY DEF NamesAreLatest
<1>1. AppliedRenames(c)' = AppliedRenames(c)
  BY DEF AppliedRenames
<1>2. \A q \in AppliedRenames(c) : row'[q] = row[q]
  BY DEF AppliedRenames
<1> QED
  BY <1>1, <1>2 DEF NamesAreLatest

\* Signals stay single while no stop request is accepted.
LEMMA SignalsKept ==
  ASSUME SignalsAreSingle, stop' = stop, \A p \in Stops : row'[p] = row[p]
  PROVE  SignalsAreSingle'
BY DEF SignalsAreSingle, Registered

--------------------------------------------------------------------------------
(* The steps of a creation. *)

LEMMA CreateKeeps ==
  ASSUME CatalogInv, NEW c \in Creates, CreateSession(c) PROVE CatalogInv'
<1> USE Kinds DEF CatalogInv
<1>1. CASE Registered(c)
  <2>1. UNCHANGED <<tables, staging>>
    BY <1>1 DEF CreateSession, tables, disk
  <2> QED
    BY <2>1, QuietKeeps DEF CreateSession, WorkerFree, bounds, CatalogTypeOK, Cleared,
                            WorkerFitsStage
<1>2. CASE ~Registered(c)
  <2>1. /\ row' = [row EXCEPT ![c] = [state |-> "prepared", seq |-> next]]
        /\ next' = next + 2 /\ creating' = c
        /\ UNCHANGED <<session, files, image, busy, events, stop, handler, server, stopping,
                       starts, faults, staging>>
    BY <1>2 DEF CreateSession, Register, disk, bounds
  <2>2. server = "serving" /\ staging = None /\ row[c].state = "none"
    BY <1>2 DEF CreateSession, WorkerFree, Registered
  <2>3. CatalogTypeOK'
    <3>1. [state |-> "prepared", seq |-> next] \in Rows /\ next + 2 \in Nat \ {0}
      BY DEF CatalogTypeOK, Rows
    <3> QED
      BY <2>1, <3>1 DEF CatalogTypeOK
  <2>4. /\ row'[c].state = "prepared" /\ row'[c].seq = next
        /\ \A q \in Requests \ {c} : row'[q] = row[q]
    BY <2>1 DEF CatalogTypeOK
  <2>5. SequencesAreValid'
    BY <2>1, <2>3, <2>4, SequenceTaken DEF CatalogTypeOK
  <2>6. ReadyMeansThere' /\ RequestsHaveSession' /\ DeletionsAdvance'
    BY <2>1, <2>2, <2>4 DEF ReadyMeansThere, RequestsHaveSession, DeletionsAdvance
  <2>7. NamesAreLatest'
    BY <2>1, <2>4, NamesKept
  <2>8. SignalsAreSingle'
    BY <2>1, <2>4, SignalsKept
  <2>9. DeletionIsFinal'
    BY <2>1, <2>2, <2>4 DEF DeletionIsFinal, RowsOfSession
  <2>10. FilesHaveCause' /\ WorkerFitsStage' /\ StartsUnlessDeletionStranded'
    BY <2>1, <2>2, <2>4 DEF FilesHaveCause, WorkerFitsStage, StartsUnlessDeletionStranded
  <2> QED
    BY <2>3, <2>5, <2>6, <2>7, <2>8, <2>9, <2>10
<1> QED
  BY <1>1, <1>2

LEMMA DispatchKeeps ==
  ASSUME CatalogInv, NEW c \in Creates, DispatchWorkspaceCreation(c) PROVE CatalogInv'
<1> USE Kinds DEF CatalogInv
<1>1. /\ row' = [row EXCEPT ![c].state = "dispatched"] /\ next' = next + 2
      /\ UNCHANGED <<session, files, image, busy, events, stop, handler, creating, server,
                     stopping, starts, faults, staging>>
  BY DEF DispatchWorkspaceCreation, SetState, disk, bounds, worker
<1>2. server \in {"serving", "creations"} /\ row[c].state = "prepared"
  BY DEF DispatchWorkspaceCreation, WorkerFitsStage
<1>3. /\ row'[c].state = "dispatched" /\ row'[c].seq = row[c].seq
      /\ \A q \in Requests \ {c} : row'[q] = row[q]
  BY <1>1 DEF CatalogTypeOK, Rows
<1>4. CatalogTypeOK'
  <2>1. row' \in [Requests -> Rows]
    BY <1>1 DEF CatalogTypeOK, Rows
  <2>2. next' \in Nat \ {0}
    BY <1>1 DEF CatalogTypeOK
  <2> QED
    BY <1>1, <2>1, <2>2 DEF CatalogTypeOK
<1>5. SequencesAreValid'
  BY <1>1, <1>2, <1>3, <1>4, SequencesKept DEF CatalogTypeOK, Registered
<1>6. ReadyMeansThere' /\ RequestsHaveSession' /\ DeletionsAdvance'
  BY <1>1, <1>2, <1>3 DEF ReadyMeansThere, RequestsHaveSession, DeletionsAdvance
<1>7. NamesAreLatest'
  BY <1>1, <1>3, NamesKept
<1>8. SignalsAreSingle'
  BY <1>1, <1>3, SignalsKept
<1>9. DeletionIsFinal'
  BY <1>1, <1>2, <1>3 DEF DeletionIsFinal, RowsOfSession
<1>10. FilesHaveCause' /\ WorkerFitsStage' /\ StartsUnlessDeletionStranded'
  BY <1>1, <1>2, <1>3 DEF FilesHaveCause, WorkerFitsStage, StartsUnlessDeletionStranded
<1> QED
  BY <1>4, <1>5, <1>6, <1>7, <1>8, <1>9, <1>10

\* Only the files of a workspace that is not ready are written.
LEMMA ProvisionKeeps ==
  ASSUME CatalogInv, NEW c \in Creates, ProvisionWorkspace(c) PROVE CatalogInv'
<1> USE DEF CatalogInv
<1>1. /\ files' \in {[files EXCEPT ![c] = "written"], [files EXCEPT ![c] = "identity"]}
      /\ row[c].state = "dispatched"
      /\ UNCHANGED <<row, next, session, image, busy, events, stop, handler, creating, server,
                     stopping, starts, faults, staging>>
  BY DEF ProvisionWorkspace, worker, bounds
<1>2. CatalogTypeOK' /\ \A d \in Creates \ {c} : files'[d] = files[d]
  BY <1>1 DEF CatalogTypeOK
<1>3. ReadyMeansThere'
  BY <1>1, <1>2 DEF ReadyMeansThere
<1>4. RequestsHaveSession' /\ DeletionsAdvance' /\ NamesAreLatest' /\ SequencesAreValid'
      /\ SignalsAreSingle' /\ DeletionIsFinal'
  BY <1>1 DEF RequestsHaveSession, DeletionsAdvance, NamesAreLatest, SequencesAreValid,
              SignalsAreSingle, DeletionIsFinal, AppliedRenames, Registered
<1>5. FilesHaveCause' /\ WorkerFitsStage'
  BY <1>1 DEF FilesHaveCause, WorkerFitsStage
<1>6. StartsUnlessDeletionStranded'
  BY <1>1 DEF StartsUnlessDeletionStranded, StrandedDeletion, AppliedFlags, Latest
<1> QED
  BY <1>2, <1>3, <1>4, <1>5, <1>6

\* A session that becomes ready has no name but that of its creation.
LEMMA FinalizeKeeps ==
  ASSUME CatalogInv, NEW c \in Creates, FinalizeSessionCreation(c) PROVE CatalogInv'
<1> USE Kinds DEF CatalogInv
<1> DEFINE new == [name |-> c, archived |-> FALSE]
<1>1. /\ row' = [row EXCEPT ![c].state = "ready"] /\ next' = next + 3
      /\ session' = [session EXCEPT ![c] = new] /\ creating' = None
      /\ UNCHANGED <<files, image, busy, stop, handler, server, stopping, starts, faults,
                     staging>>
      /\ events' = events \cup {Event("created", c, next + 1)}
  BY DEF FinalizeSessionCreation, disk, bounds
<1>2. server \in {"serving", "creations"} /\ row[c].state = "dispatched" /\ files[c] = "identity"
  BY DEF FinalizeSessionCreation, WorkerFitsStage
<1>3. /\ row'[c].state = "ready" /\ row'[c].seq = row[c].seq
      /\ \A q \in Requests \ {c} : row'[q] = row[q]
  BY <1>1 DEF CatalogTypeOK, Rows
<1>n. new \in SessionRows /\ new # None /\ new.name = c
  <2>1. new \in SessionRows /\ new.name = c
    BY DEF SessionRows
  <2> QED
    BY <2>1
<1> HIDE DEF new
<1>4. CatalogTypeOK'
  <2>1. row' \in [Requests -> Rows]
    BY <1>1 DEF CatalogTypeOK, Rows
  <2>2. next' \in Nat \ {0} /\ session' \in [Creates -> SessionRows \cup {None}]
    BY <1>1, <1>n DEF CatalogTypeOK
  <2> QED
    BY <1>1, <2>1, <2>2 DEF CatalogTypeOK
<1>s. session'[c] = new /\ \A d \in Creates \ {c} : session'[d] = session[d]
  BY <1>1 DEF CatalogTypeOK
<1>5. SequencesAreValid'
  BY <1>1, <1>2, <1>3, <1>4, SequencesKept DEF CatalogTypeOK, Registered
<1>6. ReadyMeansThere' /\ RequestsHaveSession' /\ DeletionsAdvance'
  BY <1>1, <1>2, <1>3, <1>n, <1>s DEF ReadyMeansThere, RequestsHaveSession, DeletionsAdvance
<1>7. NamesAreLatest'
  <2>1. \A d \in Creates : AppliedRenames(d)' = AppliedRenames(d)
    BY <1>3 DEF AppliedRenames
  <2>2. AppliedRenames(c) = {}
    BY <1>2 DEF AppliedRenames, RequestsHaveSession
  <2>3. \A d \in Creates : \A q \in AppliedRenames(d) : row'[q] = row[q]
    BY <1>3 DEF AppliedRenames
  <2> QED
    BY <2>1, <2>2, <2>3, <1>n, <1>s DEF NamesAreLatest
<1>8. SignalsAreSingle'
  BY <1>1, <1>3, SignalsKept
<1>9. DeletionIsFinal'
  <2>1. \A q \in Deletes : SessionOf[q] = c => row[q].state \notin {"cleaned", "complete"}
    BY <1>2 DEF DeletionIsFinal
  <2>2. Event("created", c, next + 1).session = c
    BY DEF Event
  <2> SUFFICES ASSUME NEW q \in Deletes, row'[q].state \in {"cleaned", "complete"}
               PROVE  /\ session'[SessionOf[q]] = None
                      /\ \A r \in RowsOfSession(SessionOf[q]) :
                           row'[r].state \in {"none", "tombstone"}
                      /\ row'[SessionOf[q]].state = "tombstone"
                      /\ row'[q].state = "complete" =>
                           /\ image'[SessionOf[q]] = {}
                           /\ \A v \in events' : v.session = SessionOf[q] => v.kind = "deleted"
    BY DEF DeletionIsFinal, RowsOfSession
  <2>3. q # c /\ q \in Requests
    OBVIOUS
  <2>4. row'[q] = row[q]
    BY <1>3, <2>3
  <2>5. SessionOf[q] # c /\ SessionOf[q] \in Creates /\ SessionOf[q] \in Requests
    BY <2>1, <2>4
  <2>6. \A r \in RowsOfSession(SessionOf[q]) : r \in Requests /\ r # c
    BY <2>5 DEF RowsOfSession
  <2>7. \A r \in RowsOfSession(SessionOf[q]) : row'[r] = row[r]
    BY <1>3, <2>6
  <2>8. /\ session[SessionOf[q]] = None
        /\ \A r \in RowsOfSession(SessionOf[q]) : row[r].state \in {"none", "tombstone"}
        /\ row[SessionOf[q]].state = "tombstone"
        /\ row[q].state = "complete" =>
             /\ image[SessionOf[q]] = {}
             /\ \A v \in events : v.session = SessionOf[q] => v.kind = "deleted"
    BY <2>4 DEF DeletionIsFinal
  <2>9. session'[SessionOf[q]] = session[SessionOf[q]] /\ row'[SessionOf[q]] = row[SessionOf[q]]
    BY <1>3, <1>s, <2>5
  <2>10. \A v \in events' : v \in events \/ v.session = c
    BY <1>1, <2>2
  <2> QED
    BY <1>1, <2>4, <2>5, <2>7, <2>8, <2>9, <2>10
<1>10. FilesHaveCause' /\ WorkerFitsStage' /\ StartsUnlessDeletionStranded'
  BY <1>1, <1>2, <1>3, <1>s, <1>n
     DEF FilesHaveCause, WorkerFitsStage, StartsUnlessDeletionStranded
<1> QED
  BY <1>4, <1>5, <1>6, <1>7, <1>8, <1>9, <1>10

--------------------------------------------------------------------------------
(* Renaming and archiving. *)

\* A rename takes the next sequence, so it is the latest.
LEMMA RenameKeeps ==
  ASSUME CatalogInv, NEW q \in Renames, RenameSession(q) PROVE CatalogInv'
<1> USE Kinds DEF CatalogInv
<1> DEFINE c == SessionOf[q]
<1>c. c \in Creates /\ q \in Requests
  OBVIOUS
<1>1. /\ row' = [row EXCEPT ![q] = [state |-> "applied", seq |-> next]] /\ next' = next + 1
      /\ session' = [session EXCEPT ![c].name = q]
      /\ UNCHANGED <<files, image, busy, stop, handler, creating, staging, server, stopping,
                     starts, faults>>
      /\ events' = events \cup {Event("renamed", c, next)}
  BY DEF RenameSession, Register, disk, bounds, worker
<1>2. server = "serving" /\ row[q].state = "none" /\ session[c] # None
  BY DEF RenameSession, LockFree, WorkerFree, Registered
<1>d. row[c].state = "ready"
  BY <1>2, <1>c DEF ReadyMeansThere
<1> HIDE DEF c
<1>3. /\ row'[q].state = "applied" /\ row'[q].seq = next
      /\ \A r \in Requests \ {q} : row'[r] = row[r]
  BY <1>1 DEF CatalogTypeOK
<1>n. session'[c] \in SessionRows /\ session'[c] # None /\ session'[c].name = q
      /\ \A d \in Creates \ {c} : session'[d] = session[d]
  <2>1. session[c] \in SessionRows /\ session \in [Creates -> SessionRows \cup {None}]
    BY <1>2, <1>c DEF CatalogTypeOK
  <2>2. session'[c] = [session[c] EXCEPT !.name = q]
    BY <1>1, <1>c, <2>1
  <2>3. session'[c] \in SessionRows /\ session'[c].name = q
    BY <2>1, <2>2 DEF SessionRows
  <2>4. \A d \in Creates \ {c} : session'[d] = session[d]
    BY <1>1, <2>1
  <2> QED
    BY <2>3, <2>4
<1>4. CatalogTypeOK'
  <2>1. row' \in [Requests -> Rows]
    <3>1. [state |-> "applied", seq |-> next] \in Rows
      BY DEF CatalogTypeOK, Rows
    <3> QED
      BY <1>1, <3>1 DEF CatalogTypeOK
  <2>2. next' \in Nat \ {0}
    BY <1>1 DEF CatalogTypeOK
  <2>3. session' \in [Creates -> SessionRows \cup {None}]
    BY <1>1, <1>n DEF CatalogTypeOK
  <2> QED
    BY <1>1, <2>1, <2>2, <2>3 DEF CatalogTypeOK
<1>5. SequencesAreValid'
  BY <1>1, <1>3, <1>4, <1>c, SequenceTaken DEF CatalogTypeOK
<1>6. ReadyMeansThere' /\ RequestsHaveSession' /\ DeletionsAdvance'
  BY <1>1, <1>2, <1>3, <1>c, <1>d, <1>n
     DEF ReadyMeansThere, RequestsHaveSession, DeletionsAdvance, c
<1>7. NamesAreLatest'
  <2>1. \A d \in Creates \ {c} : AppliedRenames(d)' = AppliedRenames(d)
    BY <1>3 DEF AppliedRenames, c
  <2>2. AppliedRenames(c)' = AppliedRenames(c) \cup {q}
    BY <1>2, <1>3 DEF AppliedRenames, c
  <2>3. \A d \in Creates : \A r \in AppliedRenames(d) :
          row'[r] = row[r] /\ r # q /\ r \in Requests /\ Registered(r)
    BY <1>2, <1>3 DEF AppliedRenames, Registered
  <2>4. \A r \in AppliedRenames(c) : row[r].seq < next
    BY <1>c, <2>3 DEF SequencesAreValid
  <2>5. \A r \in AppliedRenames(c)' : row'[r].seq <= next
    <3>1. \A r \in AppliedRenames(c) : row[r].seq \in Nat /\ next \in Nat
      BY <1>c, <2>3 DEF CatalogTypeOK, Rows
    <3>2. next <= next
      BY DEF CatalogTypeOK
    <3>3. \A r \in AppliedRenames(c) : row[r].seq <= next
      BY <2>4, <3>1
    <3>4. \A r \in AppliedRenames(c) : row'[r].seq <= next
      BY <1>c, <2>3, <3>3
    <3> HIDE DEF CatalogInv
    <3> QED
      BY <1>3, <2>2, <3>2, <3>4
  <2>6. \A d \in Creates \ {c} : session'[d] # None =>
          \/ AppliedRenames(d)' = {} /\ session'[d].name = d
          \/ /\ session'[d].name \in AppliedRenames(d)'
             /\ \A r \in AppliedRenames(d)' : row'[r].seq <= row'[session'[d].name].seq
    BY <1>n, <2>1, <2>3 DEF NamesAreLatest
  <2>7. /\ session'[c].name \in AppliedRenames(c)'
        /\ \A r \in AppliedRenames(c)' : row'[r].seq <= row'[session'[c].name].seq
    BY <1>3, <1>n, <2>2, <2>5
  <2> QED
    BY <2>6, <2>7 DEF NamesAreLatest
<1>8. SignalsAreSingle'
  BY <1>1, <1>3, SignalsKept
<1>9. DeletionIsFinal'
  <2>1. \A d \in Deletes : SessionOf[d] = c => row[d].state \notin {"cleaned", "complete"}
    BY <1>d DEF DeletionIsFinal
  <2>2. Event("renamed", c, next).session = c
    BY DEF Event
  <2>3. \A d \in Deletes : SessionOf[d] # c => q \notin RowsOfSession(SessionOf[d])
    BY DEF RowsOfSession, c
  <2> QED
    BY <1>1, <1>3, <1>n, <2>1, <2>2, <2>3 DEF DeletionIsFinal, RowsOfSession
<1>10. FilesHaveCause' /\ WorkerFitsStage' /\ StartsUnlessDeletionStranded'
  BY <1>1, <1>2, <1>3, <1>n DEF FilesHaveCause, WorkerFitsStage, StartsUnlessDeletionStranded
<1> QED
  BY <1>4, <1>5, <1>6, <1>7, <1>8, <1>9, <1>10

\* A request about a session that is there is prepared: an archive, unarchive or delete.
LEMMA PrepareKeeps ==
  ASSUME CatalogInv, NEW q \in Flags \cup Deletes, ~Registered(q), session[SessionOf[q]] # None,
         Register(q, "prepared", 1), handler' \in Flags \cup Deletes, server = "serving",
         UNCHANGED <<session, disk, busy, events, stop, worker, server, stopping, bounds>>
  PROVE  CatalogInv'
<1> USE Kinds DEF CatalogInv
<1>c. SessionOf[q] \in Creates /\ q \in Requests
  OBVIOUS
<1>1. /\ row' = [row EXCEPT ![q] = [state |-> "prepared", seq |-> next]] /\ next' = next + 1
      /\ UNCHANGED <<session, files, image, busy, events, stop, creating, staging, server,
                     stopping, starts, faults>>
  BY DEF Register, disk, bounds, worker
<1>2. row[q].state = "none" /\ row[SessionOf[q]].state = "ready"
  BY <1>c DEF ReadyMeansThere, Registered
<1>3. /\ row'[q].state = "prepared" /\ row'[q].seq = next
      /\ \A r \in Requests \ {q} : row'[r] = row[r]
  BY <1>1, <1>c DEF CatalogTypeOK
<1>4. CatalogTypeOK'
  <2>1. [state |-> "prepared", seq |-> next] \in Rows /\ next + 1 \in Nat \ {0}
    BY DEF CatalogTypeOK, Rows
  <2> QED
    BY <1>1, <2>1 DEF CatalogTypeOK
<1>5. SequencesAreValid'
  BY <1>1, <1>3, <1>4, <1>c, SequenceTaken DEF CatalogTypeOK
<1>6. ReadyMeansThere' /\ RequestsHaveSession' /\ DeletionsAdvance'
  BY <1>1, <1>2, <1>3, <1>c DEF ReadyMeansThere, RequestsHaveSession, DeletionsAdvance
<1>7. NamesAreLatest'
  BY <1>1, <1>3, NamesKept
<1>8. SignalsAreSingle'
  BY <1>1, <1>3, SignalsKept
<1>9. DeletionIsFinal'
  <2>1. \A d \in Deletes : SessionOf[d] = SessionOf[q] => row[d].state \notin {"cleaned", "complete"}
    BY <1>2 DEF DeletionIsFinal
  <2> QED
    BY <1>1, <1>3, <2>1 DEF DeletionIsFinal, RowsOfSession
<1>10. FilesHaveCause' /\ WorkerFitsStage' /\ StartsUnlessDeletionStranded'
  BY <1>1, <1>2, <1>3 DEF FilesHaveCause, WorkerFitsStage, StartsUnlessDeletionStranded
<1> QED
  BY <1>4, <1>5, <1>6, <1>7, <1>8, <1>9, <1>10

\* A request that was prepared is taken up again under the lock.
LEMMA RetryKeeps ==
  ASSUME CatalogInv, server = "serving", handler' \in Flags \cup Deletes,
         UNCHANGED <<tables, busy, worker, server, stopping, bounds>>
  PROVE  CatalogInv'
BY QuietKeeps DEF CatalogInv, CatalogTypeOK, Cleared, WorkerFitsStage, worker, bounds

LEMMA PrepareArchiveKeeps ==
  ASSUME CatalogInv, NEW q \in Flags, PrepareSessionArchive(q) PROVE CatalogInv'
<1>1. server = "serving" /\ handler' = q
      /\ UNCHANGED <<session, disk, busy, events, stop, worker, server, stopping, bounds>>
  BY DEF PrepareSessionArchive, LockFree, WorkerFree
<1>2. CASE ~Registered(q) /\ session[SessionOf[q]] # None /\ Register(q, "prepared", 1)
  BY <1>1, <1>2, PrepareKeeps
<1>3. CASE UNCHANGED <<row, next>>
  BY <1>1, <1>3, RetryKeeps DEF tables, disk
<1> QED
  BY <1>2, <1>3 DEF PrepareSessionArchive

LEMMA PrepareDeleteKeeps ==
  ASSUME CatalogInv, NEW q \in Deletes, PrepareSessionDelete(q) PROVE CatalogInv'
<1>1. server = "serving" /\ handler' = q
      /\ UNCHANGED <<session, disk, busy, events, stop, worker, server, stopping, bounds>>
  BY DEF PrepareSessionDelete, LockFree, WorkerFree
<1>2. CASE ~Registered(q) /\ session[SessionOf[q]] # None /\ Register(q, "prepared", 1)
  BY <1>1, <1>2, PrepareKeeps
<1>3. CASE UNCHANGED <<row, next>>
  BY <1>1, <1>3, RetryKeeps DEF tables, disk
<1> QED
  BY <1>2, <1>3 DEF PrepareSessionDelete

\* A flag is applied to a session that is there.
LEMMA ApplyKeeps ==
  ASSUME CatalogInv, NEW q \in Flags, row[q].state = "prepared", ApplyArchive(q),
         handler' \in {handler, None}, server # "failed",
         UNCHANGED <<next, disk, busy, stop, worker, server, stopping, bounds>>
  PROVE  CatalogInv'
<1> USE Kinds DEF CatalogInv
<1> DEFINE c == SessionOf[q]
<1>c. c \in Creates /\ q \in Requests
  OBVIOUS
<1>1. /\ row' = [row EXCEPT ![q].state = "applied"]
      /\ session' = [session EXCEPT ![c].archived = q \in Archives]
      /\ UNCHANGED <<next, files, image, busy, stop, creating, staging, server, stopping,
                     starts, faults>>
      /\ events' = events \cup {Event("archived", c, row[q].seq)}
  BY DEF ApplyArchive, SetState, disk, bounds, worker
<1>2. row[c].state = "ready" /\ session[c] # None
  BY <1>c DEF ReadyMeansThere, RequestsHaveSession
<1> HIDE DEF c
<1>3. /\ row'[q].state = "applied" /\ row'[q].seq = row[q].seq
      /\ \A r \in Requests \ {q} : row'[r] = row[r]
  BY <1>1, <1>c DEF CatalogTypeOK, Rows
<1>n. session'[c] \in SessionRows /\ session'[c] # None /\ session'[c].name = session[c].name
      /\ \A d \in Creates \ {c} : session'[d] = session[d]
  <2>1. session[c] \in SessionRows /\ session \in [Creates -> SessionRows \cup {None}]
    BY <1>2, <1>c DEF CatalogTypeOK
  <2> DEFINE flag == q \in Archives
  <2>2. session'[c] = [session[c] EXCEPT !.archived = flag] /\ flag \in BOOLEAN
    BY <1>1, <1>c, <2>1
  <2> HIDE DEF flag
  <2>3. session'[c] \in SessionRows /\ session'[c].name = session[c].name
    BY <2>1, <2>2 DEF SessionRows
  <2>4. \A d \in Creates \ {c} : session'[d] = session[d]
    BY <1>1, <2>1
  <2> QED
    BY <2>3, <2>4
<1>4. CatalogTypeOK'
  <2>1. row' \in [Requests -> Rows]
    BY <1>1, <1>c DEF CatalogTypeOK, Rows
  <2>2. session' \in [Creates -> SessionRows \cup {None}]
    BY <1>1, <1>n DEF CatalogTypeOK
  <2> QED
    BY <1>1, <2>1, <2>2 DEF CatalogTypeOK
<1>5. SequencesAreValid'
  BY <1>1, <1>3, <1>4, <1>c, SequencesKept DEF CatalogTypeOK, Registered
<1>6. ReadyMeansThere' /\ RequestsHaveSession' /\ DeletionsAdvance'
  BY <1>1, <1>2, <1>3, <1>c, <1>n
     DEF ReadyMeansThere, RequestsHaveSession, DeletionsAdvance, c
<1>7. NamesAreLatest'
  BY <1>1, <1>2, <1>3, <1>n, NamesKept
<1>8. SignalsAreSingle'
  BY <1>1, <1>3, SignalsKept
<1>9. DeletionIsFinal'
  <2>1. \A d \in Deletes : SessionOf[d] = c => row[d].state \notin {"cleaned", "complete"}
    BY <1>2 DEF DeletionIsFinal
  <2>2. Event("archived", c, row[q].seq).session = c
    BY DEF Event
  <2>3. \A d \in Deletes : SessionOf[d] # c => q \notin RowsOfSession(SessionOf[d])
    BY DEF RowsOfSession, c
  <2> QED
    BY <1>1, <1>3, <1>n, <2>1, <2>2, <2>3 DEF DeletionIsFinal, RowsOfSession
<1>10. FilesHaveCause' /\ WorkerFitsStage' /\ StartsUnlessDeletionStranded'
  BY <1>1, <1>2, <1>3, <1>n DEF FilesHaveCause, WorkerFitsStage, StartsUnlessDeletionStranded
<1> QED
  BY <1>4, <1>5, <1>6, <1>7, <1>8, <1>9, <1>10

--------------------------------------------------------------------------------
(* Deletion. *)

\* The rows of a session are gone, and every request about it is remembered.
LEMMA CleanedKeeps ==
  ASSUME CatalogInv, NEW q \in Deletes, row[q].state = "prepared", session[SessionOf[q]] # None,
         Cleaned(q), server \in Cleared, staging = None,
         UNCHANGED <<next, files, busy, events, stop, handler, worker, server, stopping, bounds>>
  PROVE  CatalogInv'
<1> USE Kinds DEF CatalogInv
<1> DEFINE c == SessionOf[q]
<1>c. c \in Creates /\ q \in Requests
  OBVIOUS
<1>1. /\ session' = [session EXCEPT ![c] = None]
      /\ image' = [image EXCEPT ![c] = @ \ {"row"}]
      /\ row' = [r \in Requests |->
                   IF r = q THEN [row[r] EXCEPT !.state = "cleaned"]
                   ELSE IF r \in RowsOfSession(c) /\ Registered(r)
                          THEN [row[r] EXCEPT !.state = "tombstone"] ELSE row[r]]
      /\ UNCHANGED <<next, files, busy, events, stop, handler, creating, staging, server,
                     stopping, starts, faults>>
  BY DEF Cleaned, bounds, worker
<1>u. UNCHANGED <<next, files, busy, events, stop, handler, creating, staging, server,
                  stopping, starts, faults>>
  BY <1>1
<1>2. row[c].state = "ready"
  BY <1>c DEF ReadyMeansThere
<1>o. /\ c \in RowsOfSession(c) /\ RowsOfSession(c) \subseteq Requests
      /\ \A d \in Creates \ {c} : d \notin RowsOfSession(c)
      /\ \A d \in Deletes \cup Stops : d \notin RowsOfSession(c)
      /\ \A r \in Renames \cup Flags : r \in RowsOfSession(c) <=> SessionOf[r] = c
  BY <1>c DEF RowsOfSession
<1> HIDE DEF c
<1>r. \A r \in Requests : row[r] \in Rows /\ row[r].seq \in Nat
  BY DEF CatalogTypeOK, Rows
<1>3. /\ row'[q].state = "cleaned" /\ row'[q].seq = row[q].seq
      /\ \A r \in RowsOfSession(c) : /\ row'[r].state \in {"none", "tombstone"}
                                     /\ row[r].state # "none" => row'[r].state = "tombstone"
                                     /\ row[r].state = "none" => row'[r] = row[r]
                                     /\ row'[r].seq = row[r].seq
      /\ \A r \in Requests : r # q /\ r \notin RowsOfSession(c) => row'[r] = row[r]
  BY <1>1, <1>c, <1>o, <1>r DEF Registered, Rows
<1>n. /\ session'[c] = None /\ \A d \in Creates \ {c} : session'[d] = session[d]
      /\ image'[c] \in {{}, {"file"}} /\ \A d \in Creates \ {c} : image'[d] = image[d]
  <2>1. image[c] \in {{}, {"file"}, {"file", "row"}}
    BY <1>c DEF CatalogTypeOK
  <2>2. image[c] \ {"row"} \in {{}, {"file"}}
    BY <2>1
  <2> QED
    BY <1>1, <1>c, <2>2 DEF CatalogTypeOK
<1>4. CatalogTypeOK'
  <2>1. row' \in [Requests -> Rows]
    <3>1. \A r \in Requests : /\ [row[r] EXCEPT !.state = "cleaned"] \in Rows
                              /\ [row[r] EXCEPT !.state = "tombstone"] \in Rows
      BY <1>r DEF Rows
    <3> QED
      BY <1>1, <1>r, <3>1
  <2>2. session' \in [Creates -> SessionRows \cup {None}]
    BY <1>1 DEF CatalogTypeOK
  <2>3. image' \in [Creates -> {{}, {"file"}, {"file", "row"}}]
    BY <1>1, <1>n DEF CatalogTypeOK
  <2> QED
    BY <1>u, <2>1, <2>2, <2>3 DEF CatalogTypeOK
<1>5. SequencesAreValid'
  <2>1. \A r \in Requests : row'[r].seq = row[r].seq /\ (Registered(r)' <=> Registered(r))
    BY <1>3, <1>c, <1>o DEF Registered
  <2>2. next' >= next
    BY <1>1 DEF CatalogTypeOK
  <2> QED
    BY <1>4, <2>1, <2>2, SequencesKept
<1>6. ReadyMeansThere'
  <2>1. session'[c] = None /\ row'[c].state # "ready"
    BY <1>3, <1>n, <1>o
  <2>2. \A d \in Creates \ {c} : session'[d] = session[d] /\ row'[d] = row[d]
    BY <1>3, <1>n, <1>o
  <2> QED
    BY <1>u, <2>1, <2>2 DEF ReadyMeansThere
<1>7. RequestsHaveSession'
  <2> SUFFICES ASSUME NEW r \in Renames \cup Flags, row'[r].state \in {"prepared", "applied"}
               PROVE  row'[SessionOf[r]].state = "ready"
    BY DEF RequestsHaveSession
  <2>1. r \notin RowsOfSession(c) /\ SessionOf[r] \in Creates \ {c}
    BY <1>3, <1>o
  <2>2. row'[r] = row[r] /\ row'[SessionOf[r]] = row[SessionOf[r]]
    BY <1>3, <1>o, <2>1
  <2> QED
    BY <2>2 DEF RequestsHaveSession
<1>8. DeletionsAdvance'
  BY <1>3, <1>o DEF DeletionsAdvance
<1>9. NamesAreLatest'
  <2>1. \A d \in Creates : session'[d] # None =>
           /\ session[d] # None /\ session'[d].name = session[d].name
           /\ \A r \in Renames : SessionOf[r] = d => row'[r] = row[r]
    BY <1>3, <1>n, <1>o
  <2> QED
    BY <2>1, NamesKept
<1>10. SignalsAreSingle'
  BY <1>1, <1>3, <1>o, SignalsKept
<1>11. DeletionIsFinal'
  <2>1. \A d \in Deletes \ {q} : SessionOf[d] = c => row[d].state \notin {"cleaned", "complete"}
    BY <1>2 DEF DeletionIsFinal
  <2>2. \A d \in Deletes \ {q} : row'[d] = row[d]
    BY <1>3, <1>o
  <2>3. row'[c].state = "tombstone"
    BY <1>2, <1>3, <1>o
  <2>4. \A d \in Creates \ {c} : \A r \in RowsOfSession(d) : row'[r] = row[r]
    BY <1>3, <1>o DEF RowsOfSession
  <2>5. ASSUME NEW d \in Deletes, row'[d].state \in {"cleaned", "complete"}, d # q
        PROVE  /\ session'[SessionOf[d]] = None
               /\ \A r \in RowsOfSession(SessionOf[d]) : row'[r].state \in {"none", "tombstone"}
               /\ row'[SessionOf[d]].state = "tombstone"
               /\ row'[d].state = "complete" =>
                    /\ image'[SessionOf[d]] = {}
                    /\ \A v \in events' : v.session = SessionOf[d] => v.kind = "deleted"
    <3>1. row'[d] = row[d] /\ SessionOf[d] \in Creates \ {c}
      BY <2>1, <2>2, <2>5
    <3>2. SessionOf[d] \in RowsOfSession(SessionOf[d])
      BY DEF RowsOfSession
    <3> QED
      BY <1>n, <1>u, <2>4, <2>5, <3>1, <3>2 DEF DeletionIsFinal
  <2>6. /\ session'[SessionOf[q]] = None
        /\ \A r \in RowsOfSession(SessionOf[q]) : row'[r].state \in {"none", "tombstone"}
        /\ row'[SessionOf[q]].state = "tombstone" /\ row'[q].state # "complete"
    BY <1>3, <1>n, <2>3 DEF c
  <2>7. \A d \in Deletes : row'[d].state \in {"cleaned", "complete"} =>
               /\ session'[SessionOf[d]] = None
               /\ \A r \in RowsOfSession(SessionOf[d]) : row'[r].state \in {"none", "tombstone"}
               /\ row'[SessionOf[d]].state = "tombstone"
               /\ row'[d].state = "complete" =>
                    /\ image'[SessionOf[d]] = {}
                    /\ \A v \in events' : v.session = SessionOf[d] => v.kind = "deleted"
    BY <2>5, <2>6
  <2> QED
    BY <2>7 DEF DeletionIsFinal, RowsOfSession
<1>12. FilesHaveCause'
  <2>1. SessionOf[q] = c /\ row'[q].state = "cleaned"
    BY <1>3 DEF c
  <2>2. \A d \in Deletes \ {q} : row'[d] = row[d]
    BY <1>3, <1>o
  <2>3. \A d \in Deletes : row[d].state = "cleaned" => row'[d].state = "cleaned"
    BY <2>1, <2>2
  <2>4. \A d \in Creates \ {c} : image'[d] = image[d]
    BY <1>n
  <2> QED
    BY <1>u, <2>1, <2>3, <2>4 DEF FilesHaveCause
<1>13. WorkerFitsStage' /\ StartsUnlessDeletionStranded'
  BY <1>u DEF WorkerFitsStage, StartsUnlessDeletionStranded, Cleared
<1> QED
  BY <1>4, <1>5, <1>6, <1>7, <1>8, <1>9, <1>10, <1>11, <1>12, <1>13

\* The files of a session whose rows are gone are removed.
LEMMA RemoveFilesKeeps ==
  ASSUME CatalogInv, NEW q \in Deletes, RemoveAttachmentFiles(q) PROVE CatalogInv'
<1> USE Kinds DEF CatalogInv
<1>1. /\ image' = [image EXCEPT ![SessionOf[q]] = {}]
      /\ UNCHANGED <<row, next, session, files, busy, events, stop, handler, creating, staging,
                     server, stopping, starts, faults>>
      /\ server \in {"serving", "deletes"} /\ staging = None
  BY DEF RemoveAttachmentFiles, worker, bounds, WorkerFree, WorkerFitsStage
<1>2. \A c \in Creates : image'[c] \in {image[c], {}}
  BY <1>1 DEF CatalogTypeOK
<1>3. CatalogTypeOK'
  BY <1>1 DEF CatalogTypeOK
<1>4. ReadyMeansThere' /\ RequestsHaveSession' /\ DeletionsAdvance' /\ NamesAreLatest'
      /\ SequencesAreValid' /\ SignalsAreSingle'
  BY <1>1 DEF ReadyMeansThere, RequestsHaveSession, DeletionsAdvance, NamesAreLatest,
              SequencesAreValid, SignalsAreSingle, AppliedRenames, Registered
<1>5. DeletionIsFinal'
  BY <1>1, <1>2 DEF DeletionIsFinal, RowsOfSession
<1>6. FilesHaveCause' /\ WorkerFitsStage' /\ StartsUnlessDeletionStranded'
  BY <1>1, <1>2 DEF FilesHaveCause, WorkerFitsStage, StartsUnlessDeletionStranded
<1> QED
  BY <1>3, <1>4, <1>5, <1>6

\* The last event of a session says that it was deleted.
LEMMA CompletedKeeps ==
  ASSUME CatalogInv, NEW q \in Deletes, row[q].state = "cleaned", image[SessionOf[q]] = {},
         Completed(q), handler' \in {handler, None}, server # "failed",
         UNCHANGED <<next, session, disk, busy, stop, worker, server, stopping, bounds>>
  PROVE  CatalogInv'
<1> USE Kinds DEF CatalogInv
<1> DEFINE c == SessionOf[q]
<1>c. c \in Creates /\ q \in Requests
  OBVIOUS
<1>1. /\ row' = [row EXCEPT ![q].state = "complete"]
      /\ events' = {v \in events : v.session # c} \cup {Event("deleted", c, row[q].seq)}
      /\ UNCHANGED <<next, session, files, image, busy, stop, creating, staging, server,
                     stopping, starts, faults>>
  BY DEF Completed, SetState, disk, worker, bounds
<1>2. /\ row'[q].state = "complete" /\ row'[q].seq = row[q].seq
      /\ \A r \in Requests \ {q} : row'[r] = row[r]
  BY <1>1, <1>c DEF CatalogTypeOK, Rows
<1>3. CatalogTypeOK'
  <2>1. row' \in [Requests -> Rows]
    BY <1>1, <1>c DEF CatalogTypeOK, Rows
  <2> QED
    BY <1>1, <2>1 DEF CatalogTypeOK
<1>4. SequencesAreValid'
  BY <1>1, <1>2, <1>3, <1>c, SequencesKept DEF CatalogTypeOK, Registered
<1>5. ReadyMeansThere' /\ RequestsHaveSession' /\ DeletionsAdvance'
  BY <1>1, <1>2, <1>c DEF ReadyMeansThere, RequestsHaveSession, DeletionsAdvance
<1>6. NamesAreLatest'
  BY <1>1, <1>2, NamesKept
<1>7. SignalsAreSingle'
  BY <1>1, <1>2, SignalsKept
<1>8. DeletionIsFinal'
  <2>1. Event("deleted", c, row[q].seq).session = c /\ Event("deleted", c, row[q].seq).kind = "deleted"
    BY DEF Event
  <2>2. \A d \in Creates : \A r \in RowsOfSession(d) : row'[r] = row[r] /\ r \in Requests
    BY <1>2 DEF RowsOfSession
  <2>3. \A v \in events' : v.session = c => v.kind = "deleted"
    BY <1>1, <2>1
  <2>4. \A d \in Creates \ {c} : \A v \in events' : v.session = d => v \in events
    BY <1>1, <2>1
  <2>5. ASSUME NEW d \in Deletes, row'[d].state \in {"cleaned", "complete"}
        PROVE  /\ session'[SessionOf[d]] = None
               /\ \A r \in RowsOfSession(SessionOf[d]) : row'[r].state \in {"none", "tombstone"}
               /\ row'[SessionOf[d]].state = "tombstone"
               /\ row'[d].state = "complete" =>
                    /\ image'[SessionOf[d]] = {}
                    /\ \A v \in events' : v.session = SessionOf[d] => v.kind = "deleted"
    <3>1. row[d].state \in {"cleaned", "complete"} /\ (d = q \/ row'[d] = row[d])
      BY <1>2, <2>5
    <3>2. SessionOf[d] \in RowsOfSession(SessionOf[d]) /\ SessionOf[d] \in Creates
      BY DEF RowsOfSession
    <3>3. /\ session'[SessionOf[d]] = None
          /\ \A r \in RowsOfSession(SessionOf[d]) : row'[r].state \in {"none", "tombstone"}
          /\ row'[SessionOf[d]].state = "tombstone"
      BY <1>1, <2>2, <3>1, <3>2 DEF DeletionIsFinal
    <3>4. CASE SessionOf[d] = c
      BY <1>1, <2>3, <3>3, <3>4
    <3>5. CASE SessionOf[d] # c
      BY <1>1, <2>4, <3>1, <3>2, <3>3, <3>5 DEF DeletionIsFinal
    <3> QED
      BY <3>4, <3>5
  <2> QED
    BY <2>5 DEF DeletionIsFinal
<1>9. FilesHaveCause'
  BY <1>1, <1>2 DEF FilesHaveCause
<1>10. WorkerFitsStage' /\ StartsUnlessDeletionStranded'
  BY <1>1 DEF WorkerFitsStage, StartsUnlessDeletionStranded
<1> QED
  BY <1>3, <1>4, <1>5, <1>6, <1>7, <1>8, <1>9, <1>10

--------------------------------------------------------------------------------
(* The stop request and the image of an input. *)

\* A request signals its process unless another one did.
LEMMA StopKeeps ==
  ASSUME CatalogInv, NEW p \in Stops, StopServer(p) PROVE CatalogInv'
<1> USE Kinds DEF CatalogInv
<1> DEFINE signal == SignalsSupervisor(p)
<1>c. p \in Requests /\ Epoch \in Nat /\ signal \in BOOLEAN
  BY DEF Epoch, CatalogTypeOK, SignalsSupervisor
<1>1. /\ row' = [row EXCEPT ![p] = [state |-> "applied", seq |-> next]] /\ next' = next + 2
      /\ stop' = [stop EXCEPT ![p] = [epoch |-> Epoch, signal |-> signal]]
      /\ stopping' = (stopping \/ signal)
      /\ UNCHANGED <<session, files, image, busy, events, handler, creating, staging, server,
                     starts, faults>>
  BY DEF StopServer, Register, disk, bounds, worker
<1>2. server = "serving" /\ row[p].state = "none" /\ ~stop[p].signal
  BY DEF StopServer, LockFree, WorkerFree, Registered, SignalsAreSingle
<1>s. signal <=> ~\E r \in Stops : stop[r].epoch = Epoch /\ stop[r].signal
  BY DEF SignalsSupervisor
<1> HIDE DEF signal
<1>3. /\ row'[p].state = "applied" /\ row'[p].seq = next
      /\ \A q \in Requests \ {p} : row'[q] = row[q]
  BY <1>1, <1>c DEF CatalogTypeOK
<1>4. CatalogTypeOK'
  <2>1. [state |-> "applied", seq |-> next] \in Rows /\ next + 2 \in Nat \ {0}
    BY DEF CatalogTypeOK, Rows
  <2>2. row' \in [Requests -> Rows] /\ next' \in Nat \ {0}
    BY <1>1, <2>1 DEF CatalogTypeOK
  <2>3. stop' \in [Stops -> [epoch : Nat, signal : BOOLEAN]]
    BY <1>1, <1>c DEF CatalogTypeOK
  <2>4. stopping' \in BOOLEAN
    BY <1>1, <1>c DEF CatalogTypeOK
  <2> QED
    BY <1>1, <2>2, <2>3, <2>4 DEF CatalogTypeOK
<1>5. SequencesAreValid'
  BY <1>1, <1>3, <1>4, <1>c, SequenceTaken DEF CatalogTypeOK
<1>6. ReadyMeansThere' /\ RequestsHaveSession' /\ DeletionsAdvance'
  BY <1>1, <1>3 DEF ReadyMeansThere, RequestsHaveSession, DeletionsAdvance
<1>7. NamesAreLatest'
  BY <1>1, <1>3, NamesKept
<1>8. SignalsAreSingle'
  <2>1. /\ stop'[p].epoch = Epoch /\ stop'[p].signal = signal
        /\ \A r \in Stops \ {p} : stop'[r] = stop[r]
    BY <1>1 DEF CatalogTypeOK
  <2>2. \A r \in Stops : stop[r].signal => stop'[r] = stop[r]
    BY <1>2, <2>1
  <2>3. \A r \in Stops \ {p} : Registered(r)' <=> Registered(r)
    BY <1>3 DEF Registered
  <2>4. Registered(p)'
    BY <1>3 DEF Registered
  <2>5. \A r \in Stops : Registered(r)' =>
          \E s \in Stops : stop'[s].epoch = stop'[r].epoch /\ stop'[s].signal
    <3>1. \A r \in Stops \ {p} : Registered(r)' =>
            \E s \in Stops : stop'[s].epoch = stop'[r].epoch /\ stop'[s].signal
      BY <2>1, <2>2, <2>3 DEF SignalsAreSingle
    <3>2. \E s \in Stops : stop'[s].epoch = stop'[p].epoch /\ stop'[s].signal
      BY <1>s, <2>1, <2>2
    <3> QED
      BY <3>1, <3>2
  <2>6. \A r, s \in Stops :
          stop'[r].signal /\ stop'[s].signal /\ stop'[r].epoch = stop'[s].epoch => r = s
    BY <1>s, <2>1 DEF SignalsAreSingle
  <2>7. \A r \in Stops : stop'[r].signal => Registered(r)'
    BY <2>1, <2>3, <2>4 DEF SignalsAreSingle
  <2> QED
    BY <2>5, <2>6, <2>7 DEF SignalsAreSingle
<1>9. DeletionIsFinal'
  BY <1>1, <1>3 DEF DeletionIsFinal, RowsOfSession
<1>10. FilesHaveCause' /\ WorkerFitsStage' /\ StartsUnlessDeletionStranded'
  BY <1>1, <1>2, <1>3 DEF FilesHaveCause, WorkerFitsStage, StartsUnlessDeletionStranded
<1> QED
  BY <1>4, <1>5, <1>6, <1>7, <1>8, <1>9, <1>10

\* A file is written before its row only for the input that is being accepted.
LEMMA StageKeeps ==
  ASSUME CatalogInv, NEW c \in Creates, StageImage(c) PROVE CatalogInv'
<1> USE Kinds DEF CatalogInv
<1>1. /\ image' = [image EXCEPT ![c] = {"file"}] /\ staging' = c
      /\ UNCHANGED <<row, next, session, files, busy, events, stop, handler, creating, server,
                     stopping, starts, faults>>
      /\ server = "serving" /\ staging = None /\ session[c] # None
  BY DEF StageImage, AcceptsWork, LockFree, WorkerFree, bounds
<1>2. /\ image'[c] = {"file"} /\ \A d \in Creates \ {c} : image'[d] = image[d]
      /\ row[c].state = "ready"
  BY <1>1 DEF CatalogTypeOK, ReadyMeansThere
<1>3. CatalogTypeOK'
  BY <1>1 DEF CatalogTypeOK
<1>4. ReadyMeansThere' /\ RequestsHaveSession' /\ DeletionsAdvance' /\ NamesAreLatest'
      /\ SequencesAreValid' /\ SignalsAreSingle'
  BY <1>1 DEF ReadyMeansThere, RequestsHaveSession, DeletionsAdvance, NamesAreLatest,
              SequencesAreValid, SignalsAreSingle, AppliedRenames, Registered
<1>5. DeletionIsFinal'
  BY <1>1, <1>2 DEF DeletionIsFinal, RowsOfSession
<1>6. FilesHaveCause'
  BY <1>1, <1>2 DEF FilesHaveCause
<1>7. WorkerFitsStage' /\ StartsUnlessDeletionStranded'
  BY <1>1, <1>2 DEF WorkerFitsStage, StartsUnlessDeletionStranded
<1> QED
  BY <1>3, <1>4, <1>5, <1>6, <1>7

LEMMA CommitImageKeeps ==
  ASSUME CatalogInv, NEW c \in Creates, CommitImage(c) PROVE CatalogInv'
<1> USE Kinds DEF CatalogInv
<1>1. /\ image' \in {[image EXCEPT ![c] = {"file", "row"}], [image EXCEPT ![c] = {}]}
      /\ busy' \in {busy, busy \cup {c}} /\ staging' = None
      /\ UNCHANGED <<row, next, session, files, events, stop, handler, creating, server,
                     stopping, starts, faults>>
  BY DEF CommitImage, bounds
<1>2. staging = c /\ server = "serving" /\ session[c] # None
  BY DEF CommitImage, WorkerFitsStage
<1>3. /\ image'[c] \in {{}, {"file", "row"}} /\ \A d \in Creates \ {c} : image'[d] = image[d]
      /\ row[c].state = "ready"
  BY <1>1, <1>2 DEF CatalogTypeOK, ReadyMeansThere
<1>4. CatalogTypeOK'
  BY <1>1 DEF CatalogTypeOK
<1>5. ReadyMeansThere' /\ RequestsHaveSession' /\ DeletionsAdvance' /\ NamesAreLatest'
      /\ SequencesAreValid' /\ SignalsAreSingle'
  BY <1>1 DEF ReadyMeansThere, RequestsHaveSession, DeletionsAdvance, NamesAreLatest,
              SequencesAreValid, SignalsAreSingle, AppliedRenames, Registered
<1>6. DeletionIsFinal'
  BY <1>1, <1>3 DEF DeletionIsFinal, RowsOfSession
<1>7. FilesHaveCause'
  <2>1. image'[c] # {"file"}
    BY <1>3
  <2> QED
    BY <1>1, <1>2, <1>3, <2>1 DEF FilesHaveCause
<1>8. WorkerFitsStage' /\ StartsUnlessDeletionStranded'
  BY <1>1, <1>2 DEF WorkerFitsStage, StartsUnlessDeletionStranded
<1> QED
  BY <1>4, <1>5, <1>6, <1>7, <1>8

--------------------------------------------------------------------------------
(* The steps of a start. *)

LEMMA CrashKeeps == ASSUME CatalogInv, Crash PROVE CatalogInv'
<1> USE DEF CatalogInv
<1>1. /\ server' = "down" /\ handler' = None /\ creating' = None /\ staging' = None
      /\ stopping' = FALSE
      /\ files' = [c \in Creates |-> IF files[c] = "written" THEN "temporary" ELSE files[c]]
      /\ UNCHANGED <<row, next, session, events, stop, busy, starts, faults, image>>
  BY DEF Crash, bounds
<1>2. files' \in [Creates -> {"none", "temporary", "written", "identity"}]
      /\ \A c \in Creates : files[c] = "identity" => files'[c] = "identity"
  BY <1>1 DEF CatalogTypeOK
<1>3. CatalogTypeOK' /\ ReadyMeansThere'
  BY <1>1, <1>2 DEF CatalogTypeOK, ReadyMeansThere
<1>4. RequestsHaveSession' /\ DeletionsAdvance' /\ NamesAreLatest'
      /\ SequencesAreValid' /\ SignalsAreSingle' /\ DeletionIsFinal'
  BY <1>1 DEF RequestsHaveSession, DeletionsAdvance, NamesAreLatest, DeletionIsFinal,
              SequencesAreValid, SignalsAreSingle, AppliedRenames, Registered
<1>5. FilesHaveCause' /\ WorkerFitsStage' /\ StartsUnlessDeletionStranded'
  BY <1>1 DEF FilesHaveCause, WorkerFitsStage, StartsUnlessDeletionStranded, Cleared
<1> QED
  BY <1>3, <1>4, <1>5

\* The facts a start validates are valid but for a stranded deletion, and what it
\* rebuilds is what is there.
LEMMA RepairKeeps == ASSUME CatalogInv, Repair PROVE CatalogInv'
<1> USE Kinds DEF CatalogInv
<1>1. /\ starts' = starts + 1 /\ server = "down" /\ creating = None /\ staging = None
      /\ UNCHANGED <<row, next, files, image, events, stop, busy, handler, creating, staging,
                     stopping, faults>>
  BY DEF Repair, disk, worker, WorkerFitsStage
<1>2. CASE DeleteFactsAreValid /\ SequencesAreValid /\ StopFactsAreValid
  <2>1. server' = "attachments" /\ session' = [c \in Creates |-> Rebuilt(c)]
    BY <1>2 DEF Repair
  <2>2. \A c \in Creates : /\ session'[c] \in SessionRows \cup {None}
                           /\ session'[c] # None <=> session[c] # None
                           /\ session'[c] # None => session'[c].name = session[c].name
    BY <2>1, RebuiltIsThere
  <2>3. CatalogTypeOK'
    BY <1>1, <2>1, <2>2 DEF CatalogTypeOK
  <2>4. ReadyMeansThere' /\ RequestsHaveSession' /\ DeletionsAdvance'
    BY <1>1, <2>2 DEF ReadyMeansThere, RequestsHaveSession, DeletionsAdvance
  <2>5. NamesAreLatest'
    BY <1>1, <2>2, NamesKept
  <2>6. SequencesAreValid' /\ SignalsAreSingle'
    BY <1>1 DEF SequencesAreValid, SignalsAreSingle, Registered
  <2>7. DeletionIsFinal'
    BY <1>1, <2>2 DEF DeletionIsFinal, RowsOfSession
  <2>8. FilesHaveCause' /\ WorkerFitsStage' /\ StartsUnlessDeletionStranded'
    BY <1>1, <2>1 DEF FilesHaveCause, WorkerFitsStage, StartsUnlessDeletionStranded, Cleared
  <2> QED
    BY <2>3, <2>4, <2>5, <2>6, <2>7, <2>8
<1>3. CASE ~(DeleteFactsAreValid /\ SequencesAreValid /\ StopFactsAreValid)
  <2>1. server' = "failed" /\ session' = session
    BY <1>3 DEF Repair
  <2>2. PICK q \in Deletes :
          ~LET c == SessionOf[q]
           IN /\ Registered(q) => ((row[q].state = "prepared") = (row[c].state = "ready"))
              /\ row[q].state = "prepared" => Latest(AppliedFlags(c)) \in Archives
    BY <1>3, StopFactsHold DEF DeleteFactsAreValid
  <2>3. row[q].state = "prepared"
    BY <2>2 DEF DeletionsAdvance, DeletionIsFinal, Registered
  <2>4. StrandedDeletion
    BY <2>2, <2>3 DEF StrandedDeletion, Registered
  <2>5. starts' \in Nat
    BY <1>1 DEF CatalogTypeOK
  <2>6. UNCHANGED <<tables, staging>>
    BY <1>1, <2>1 DEF tables
  <2> QED
    BY <1>1, <2>1, <2>4, <2>5, <2>6, QuietKeeps DEF CatalogTypeOK, Cleared
<1> QED
  BY <1>2, <1>3

\* An image that a row names has its file, so the start goes on.
LEMMA ReconcileKeeps == ASSUME CatalogInv, ReconcileImageAttachments PROVE CatalogInv'
<1> USE Kinds DEF CatalogInv
<1>1. \A c \in Creates : image[c] \in {{}, {"file"}, {"file", "row"}}
  BY DEF CatalogTypeOK
<1>2. \A c \in Creates : image[c] # {"row"}
  BY <1>1
<1>3. /\ server = "attachments" /\ server' = "creations" /\ creating = None /\ staging = None
      /\ image' = [c \in Creates |-> IF "row" \in image[c] THEN image[c] ELSE {}]
      /\ UNCHANGED <<row, next, session, files, busy, events, stop, handler, creating, staging,
                     stopping, starts, faults>>
  BY <1>2 DEF ReconcileImageAttachments, worker, bounds, WorkerFitsStage
<1>4. \A c \in Creates : image'[c] \in {image[c], {}} /\ image'[c] # {"file"}
  BY <1>1, <1>3
<1>5. CatalogTypeOK'
  BY <1>1, <1>3, <1>4 DEF CatalogTypeOK, Cleared
<1>6. ReadyMeansThere' /\ RequestsHaveSession' /\ DeletionsAdvance' /\ NamesAreLatest'
      /\ SequencesAreValid' /\ SignalsAreSingle'
  BY <1>3 DEF ReadyMeansThere, RequestsHaveSession, DeletionsAdvance, NamesAreLatest,
              SequencesAreValid, SignalsAreSingle, AppliedRenames, Registered
<1>7. DeletionIsFinal'
  BY <1>3, <1>4 DEF DeletionIsFinal, RowsOfSession
<1>8. FilesHaveCause' /\ WorkerFitsStage' /\ StartsUnlessDeletionStranded'
  BY <1>3, <1>4 DEF FilesHaveCause, WorkerFitsStage, StartsUnlessDeletionStranded
<1> QED
  BY <1>5, <1>6, <1>7, <1>8

LEMMA RecoverArchiveKeeps == ASSUME CatalogInv, RecoverArchive PROVE CatalogInv'
<1> USE Kinds DEF CatalogInv
<1> DEFINE prepared == {q \in Flags : row[q].state = "prepared"}
<1>1. /\ server = "archives" /\ creating = None /\ staging = None /\ busy = {}
      /\ UNCHANGED <<next, disk, busy, stop, handler, worker, stopping, bounds>>
  BY DEF RecoverArchive, WorkerFitsStage
<1>2. CASE prepared = {}
  <2>1. server' = "deletes" /\ UNCHANGED <<row, session, events>>
    BY <1>2 DEF RecoverArchive
  <2> QED
    BY <1>1, <2>1, QuietKeeps DEF CatalogTypeOK, Cleared, tables, disk, worker, bounds
<1>3. CASE prepared # {}
  <2>1. ApplyArchive(Oldest(prepared)) /\ UNCHANGED server
    BY <1>3 DEF RecoverArchive
  <2>2. Oldest(prepared) \in prepared
    BY <1>3, OldestIsOne
  <2> QED
    BY <1>1, <2>1, <2>2, ApplyKeeps
<1> QED
  BY <1>2, <1>3

\* A deletion that recovery cannot finish is stranded.
LEMMA RecoverDeleteKeeps == ASSUME CatalogInv, RecoverDelete PROVE CatalogInv'
<1> USE Kinds DEF CatalogInv
<1> DEFINE pending == {d \in Deletes : row[d].state \in {"prepared", "cleaned"}}
           q == Oldest(pending)
<1>1. /\ server = "deletes" /\ creating = None /\ staging = None /\ busy = {} /\ pending # {}
      /\ UNCHANGED <<next, files, busy, stop, handler, worker, stopping, bounds>>
  BY DEF RecoverDelete, WorkerFitsStage
<1>2. \/ /\ row[q].state = "prepared" /\ CanClean(q)
         /\ Cleaned(q) /\ UNCHANGED <<events, server>>
      \/ /\ row[q].state = "cleaned" /\ image[SessionOf[q]] = {}
         /\ Completed(q) /\ UNCHANGED <<session, image, server>>
      \/ /\ row[q].state = "prepared" /\ ~CanClean(q)
         /\ server' = "failed" /\ UNCHANGED <<row, session, image, events>>
  BY DEF RecoverDelete
<1>3. q \in pending
  BY <1>1, OldestIsOne
<1>4. q \in Deletes
  BY <1>3
<1> HIDE DEF pending, q
<1>5. CASE row[q].state = "prepared" /\ CanClean(q) /\ Cleaned(q) /\ UNCHANGED <<events, server>>
  BY <1>1, <1>4, <1>5, CleanedKeeps DEF CanClean, Cleared
<1>6. CASE row[q].state = "cleaned" /\ image[SessionOf[q]] = {} /\ Completed(q)
           /\ UNCHANGED <<session, image, server>>
  BY <1>1, <1>4, <1>6, CompletedKeeps DEF disk
<1>7. CASE row[q].state = "prepared" /\ ~CanClean(q) /\ server' = "failed"
           /\ UNCHANGED <<row, session, image, events>>
  <2>1. StrandedDeletion
    BY <1>1, <1>4, <1>7 DEF StrandedDeletion, CanClean, Idle, ReadyMeansThere
  <2> QED
    BY <1>1, <1>7, <2>1, QuietKeeps DEF CatalogTypeOK, Cleared, tables, worker, bounds
<1> QED
  BY <1>2, <1>5, <1>6, <1>7

--------------------------------------------------------------------------------
(* Every step, and the theorems. *)

\* The steps that leave the tables alone.
LEMMA OthersKeep ==
  ASSUME CatalogInv,
         \/ CreationFails \/ HandlerGivesUp \/ RecoverCreation \/ RecoverWork \/ Serve
         \/ \E c \in Creates : BeginWork(c) \/ EndWork(c)
         \/ \E q \in Flags : RefuseUnarchive(q)
         \/ \E q \in Deletes : RefuseClean(q)
  PROVE  CatalogInv'
<1> USE Kinds DEF CatalogInv, CatalogTypeOK, Cleared, worker, bounds, WorkerFitsStage
<1>1. CASE CreationFails
  BY <1>1, QuietKeeps DEF CreationFails
<1>2. CASE HandlerGivesUp
  BY <1>2, QuietKeeps DEF HandlerGivesUp, WorkerFree
<1>3. CASE RecoverCreation
  <2>1. Unfinished \in SUBSET Requests /\ Unfinished \in SUBSET Creates /\ Unfinished # {}
    BY <1>3 DEF Unfinished, RecoverCreation
  <2>2. creating' \in Creates
    BY <1>3, <2>1, OldestIsOne DEF RecoverCreation
  <2> QED
    BY <1>3, <2>2, QuietKeeps DEF RecoverCreation
<1>4. CASE RecoverWork
  BY <1>4, QuietKeeps DEF RecoverWork
<1>5. CASE Serve
  BY <1>5, QuietKeeps DEF Serve
<1>6. ASSUME NEW c \in Creates, BeginWork(c) \/ EndWork(c) PROVE CatalogInv'
  BY <1>6, QuietKeeps DEF BeginWork, EndWork, AcceptsWork, LockFree, WorkerFree
<1>7. ASSUME NEW q \in Flags, RefuseUnarchive(q) PROVE CatalogInv'
  BY <1>7, QuietKeeps DEF RefuseUnarchive, WorkerFree
<1>8. ASSUME NEW q \in Deletes, RefuseClean(q) PROVE CatalogInv'
  BY <1>8, QuietKeeps DEF RefuseClean, WorkerFree
<1> QED
  BY <1>1, <1>2, <1>3, <1>4, <1>5, <1>6, <1>7, <1>8

LEMMA CatalogInvNext == CatalogInv /\ [Next]_vars => CatalogInv'
<1> SUFFICES ASSUME CatalogInv, [Next]_vars PROVE CatalogInv'
  OBVIOUS
<1>1. CASE UNCHANGED vars
  BY <1>1, QuietKeeps
     DEF vars, worker, bounds, CatalogInv, CatalogTypeOK, WorkerFitsStage,
         StartsUnlessDeletionStranded
<1>2. ASSUME NEW c \in Creates,
             \/ CreateSession(c) \/ DispatchWorkspaceCreation(c)
             \/ ProvisionWorkspace(c) \/ FinalizeSessionCreation(c)
             \/ BeginWork(c) \/ EndWork(c) \/ StageImage(c) \/ CommitImage(c)
      PROVE  CatalogInv'
  BY <1>2, CreateKeeps, DispatchKeeps, ProvisionKeeps, FinalizeKeeps, StageKeeps,
     CommitImageKeeps, OthersKeep
<1>3. ASSUME NEW q \in Renames, RenameSession(q) PROVE CatalogInv'
  BY <1>3, RenameKeeps
<1>4. ASSUME NEW q \in Flags, PrepareSessionArchive(q) \/ RefuseUnarchive(q) PROVE CatalogInv'
  BY <1>4, PrepareArchiveKeeps, OthersKeep
<1>5. ASSUME NEW q \in Flags, CompleteSessionArchive(q) PROVE CatalogInv'
  BY <1>5, ApplyKeeps DEF CompleteSessionArchive, WorkerFree
<1>6. ASSUME NEW q \in Deletes,
             PrepareSessionDelete(q) \/ RefuseClean(q) \/ RemoveAttachmentFiles(q)
      PROVE  CatalogInv'
  BY <1>6, PrepareDeleteKeeps, OthersKeep, RemoveFilesKeeps
<1>7. ASSUME NEW q \in Deletes, CleanSessionDatabase(q) PROVE CatalogInv'
  BY <1>7, CleanedKeeps DEF CleanSessionDatabase, WorkerFree, CanClean, Cleared
<1>8. ASSUME NEW q \in Deletes, CompleteSessionDelete(q) PROVE CatalogInv'
  BY <1>8, CompletedKeeps DEF CompleteSessionDelete, WorkerFree
<1>9. ASSUME NEW p \in Stops, StopServer(p) PROVE CatalogInv'
  BY <1>9, StopKeeps
<1>10. CASE CreationFails \/ HandlerGivesUp \/ RecoverCreation \/ RecoverWork \/ Serve
  BY <1>10, OthersKeep
<1>11. CASE Crash \/ Repair \/ ReconcileImageAttachments \/ RecoverArchive \/ RecoverDelete
  BY <1>11, CrashKeeps, RepairKeeps, ReconcileKeeps, RecoverArchiveKeeps, RecoverDeleteKeeps
<1> QED
  BY <1>1, <1>2, <1>3, <1>4, <1>5, <1>6, <1>7, <1>8, <1>9, <1>10, <1>11 DEF Next

(* Every reachable state of the catalog has its type and satisfies the       *)
(* inductive invariant: session_creations, session_renames,                  *)
(* session_archive_operations, session_delete_operations and                 *)
(* server_stop_operations agree with the sessions, the workspaces and the    *)
(* files of the images whatever request or start is under way.               *)
THEOREM CatalogTheorem == Spec => []CatalogInv
<1>1. Init => CatalogInv
  BY CatalogInvInit
<1>2. CatalogInv /\ [Next]_vars => CatalogInv'
  BY CatalogInvNext
<1> QED
  BY <1>1, <1>2, PTL DEF Spec

(* Whatever step of a creation, a renaming, an archiving, a deletion or a    *)
(* stop the last process died in, projections::repair accepts the facts it   *)
(* left, reconcile_image_attachments finds every file and the recovery       *)
(* finishes every request, unless a deletion is stranded.                    *)
THEOREM StartTheorem == Spec => []StartsUnlessDeletionStranded
<1>1. CatalogInv => StartsUnlessDeletionStranded
  BY DEF CatalogInv
<1> QED
  BY <1>1, CatalogTheorem, PTL

(* The sessions and the names that projections::rebuild derives from the     *)
(* requests are those that finalize_session_creation, rename_session and     *)
(* clean_session_database wrote, and a session has its workspace.            *)
THEOREM RebuildTheorem == Spec => []SessionsAreRebuildable
<1>1. CatalogInv => SessionsAreRebuildable
  <2> SUFFICES ASSUME CatalogInv PROVE SessionsAreRebuildable
    OBVIOUS
  <2> QED
    BY RebuiltIsThere DEF SessionsAreRebuildable, CatalogInv, ReadyMeansThere
<1> QED
  BY <1>1, CatalogTheorem, PTL

(* Nothing that clean_session_database and complete_session_delete removed   *)
(* comes back: not the session, not a request about it, an image or an event *)
(* other than its deletion.                                                  *)
THEOREM DeletionTheorem == Spec => []DeletionIsFinal
<1>1. CatalogInv => DeletionIsFinal
  BY DEF CatalogInv
<1> QED
  BY <1>1, CatalogTheorem, PTL

(* AttachmentStaging and remove_attachment_file neither lose the file of an  *)
(* image that a row names nor leave one behind a start that no row, no       *)
(* input being accepted and no deletion accounts for.                        *)
THEOREM ImageTheorem == Spec => []ImagesArePaired
<1>1. CatalogInv => ImagesArePaired
  <2> SUFFICES ASSUME CatalogInv PROVE ImagesArePaired
    OBVIOUS
  <2>1. \A c \in Creates : image[c] \in {{}, {"file"}, {"file", "row"}}
    BY DEF CatalogInv, CatalogTypeOK
  <2> QED
    BY <2>1 DEF ImagesArePaired, CatalogInv, FilesHaveCause, Cleared
<1> QED
  BY <1>1, CatalogTheorem, PTL
================================================================================

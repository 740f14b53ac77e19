--------------------------- MODULE CompactionProofs ---------------------------
(***************************************************************************)
(* Theorems about Compaction, for any number of runs, entries, events and  *)
(* compactions and any thresholds: the records are valid in every state a  *)
(* crash can leave, no call of a compaction is refused, and a prefix is    *)
(* sent once.                                                              *)
(***************************************************************************)
EXTENDS Compaction, FiniteSetTheorems, SequenceTheorems, TLAPS

Entries == [kind : {"user", "answer", "call", "result"}, run : Nat]

RunRows == [source : Nat, state : {"active", "succeeded", "failed"}, manual : BOOLEAN,
            credential : Nat]

Checkpoints == [source : Nat, parent : Nat]

Open == {"Prepared", "Dispatched", "Ready"}

JobRows == [run : Nat, parent : Nat, source : Nat, through : Nat, policy : Nat, credential : Nat,
            state : Open \cup {"Failed", "Cancelled", "Uncertain", "Discarded", "Installed"},
            checkpoint : Nat, receiver : Nat]

OperationRows == [run : Nat, parent : Nat, source : Nat, high : Nat,
                  state : {"prepared", "dispatched", "failed", "uncertain", "complete"},
                  checkpoint : Nat, sent : BOOLEAN]

LoopType == [source : Nat, parent : Nat, begun : BOOLEAN, advanced : BOOLEAN, rejected : BOOLEAN]

CompactionTypeOK ==
    /\ entries \in Seq(Entries) /\ runs \in Seq(RunRows) /\ checkpoints \in Seq(Checkpoints)
    /\ jobs \in Seq(JobRows) /\ operations \in Seq(OperationRows)
    /\ credential \in Nat /\ policy \in Nat /\ events \in Nat
    /\ archive \in {"open", "prepared", "done"}
    /\ enabled \in BOOLEAN /\ stopping \in BOOLEAN /\ failed = FALSE
    /\ phase \in {"idle", "head", "cancelHead", "load", "cancelPlan", "prepare", "send", "reply",
                  "turn"}
    /\ loop \in LoopType
    /\ starters \subseteq 1 .. Len(runs)
    /\ task \in [stage : {"none", "prepare", "dispatch", "reply", "finish"}, run : Nat, job : Nat]
    /\ holder \in [who : {"none", "head", "plan", "archive", "shutdown"},
                   stage : {"free", "drain", "done"}]

\* A run begins with the message of its user, and no entry of another run is between its own.
TranscriptInOrder ==
    /\ \A r \in 1 .. Len(runs) :
         /\ runs[r].source \in 1 .. Len(entries)
         /\ entries[runs[r].source] = [kind |-> "user", run |-> r]
         /\ r < Len(runs) => runs[r].state # "active"
    /\ \A r, q \in 1 .. Len(runs) : r < q => runs[r].source < runs[q].source
    /\ \A i \in 1 .. Len(entries) :
         /\ entries[i].run \in 1 .. Len(runs)
         /\ entries[i].kind = "user" => i = runs[entries[i].run].source

\* Each checkpoint covers more than every earlier one.
ChainInOrder ==
    /\ \A c \in 1 .. Len(checkpoints) : checkpoints[c].parent = c - 1 /\ checkpoints[c].source # 0
    /\ \A c, d \in 1 .. Len(checkpoints) : c < d => checkpoints[c].source < checkpoints[d].source

\* What a job names is there.
JobIsBound(j) ==
    /\ jobs[j].run \in 1 .. Len(runs) /\ jobs[j].through <= Len(entries)
    /\ jobs[j].parent <= Len(checkpoints)
    /\ jobs[j].state = "Installed" =>
         jobs[j].checkpoint \in 1 .. Len(checkpoints) /\ jobs[j].receiver \in 1 .. Len(runs)

JobsAreValid ==
    /\ \A j \in 1 .. Len(jobs) : JobIsBound(j) /\ JobIsValid(j)
    /\ \A i, j \in 1 .. Len(jobs) : jobs[i].state \in Open /\ jobs[j].state \in Open => i = j

OperationIsBound(o) ==
    /\ operations[o].run \in 1 .. Len(runs) /\ operations[o].high <= Len(entries)
    /\ operations[o].source # 0
    /\ operations[o].state = "complete" => operations[o].checkpoint \in 1 .. Len(checkpoints)

OperationsAreValid ==
    \A o \in 1 .. Len(operations) : OperationIsBound(o) /\ OperationIsValid(o)

\* No two attempts that a user did not ask for are at one prefix, but for a job that was
\* given up before it was sent.
AttemptsDiffer ==
    /\ \A i, j \in 1 .. Len(jobs) : jobs[i].source = jobs[j].source => i = j
    /\ \A o, p \in 1 .. Len(operations) :
         /\ operations[o].source = operations[p].source
         /\ ~runs[operations[o].run].manual /\ ~runs[operations[p].run].manual
         => o = p
    /\ \A o \in 1 .. Len(operations), j \in 1 .. Len(jobs) :
         operations[o].source = jobs[j].source /\ ~runs[operations[o].run].manual =>
           jobs[j].state \in {"Failed", "Cancelled"}

\* The plan of the active run still holds, and so does the operation made of it.
PlanHolds ==
    /\ HasActive <=> phase # "idle"
    /\ phase \in {"cancelPlan", "prepare"} =>
         /\ CanCompact(Last) /\ SourceAllowed(Last, loop.source)
         /\ loop.parent = Len(checkpoints) /\ Covered(loop.parent) < loop.source
         /\ ~runs[Last].manual => ~PrefixBlocksForeground(loop.source)
    /\ phase = "prepare" => Dispatched = {}
    /\ phase \in {"send", "reply"} =>
         LET op == operations[Len(operations)] IN
         /\ operations # <<>> /\ op.run = Last /\ op.state \in {"prepared", "dispatched"}
         /\ op.parent = Len(checkpoints) /\ Covered(op.parent) < op.source

\* The background task works for a run that was accepted, on a job that it prepared.
TaskHasJob ==
    /\ task.stage # "none" => task.run \in 1 .. Len(runs)
    /\ task.stage \in {"dispatch", "reply"} => task.job \in 1 .. Len(jobs)
    /\ task.stage = "reply" => jobs[task.job].state = "Dispatched"
    /\ task.stage = "none" => task = NoTask
    /\ holder.who = "head" => phase = "cancelHead"
    /\ holder.who = "plan" => phase = "cancelPlan"

CompactionInv ==
    /\ CompactionTypeOK /\ TranscriptInOrder /\ ChainInOrder /\ JobsAreValid
    /\ OperationsAreValid /\ AttemptsDiffer /\ PlanHolds /\ TaskHasJob

--------------------------------------------------------------------------------
(* Operators of the model. *)

\* A nonempty set of naturals has a least element, and Min is it.
LEMMA MinIsLeast ==
  ASSUME NEW S \in SUBSET Nat, S # {}
  PROVE  Min(S) \in S /\ \A n \in S : Min(S) <= n
<1>1. \E m \in S : \A n \in S : ~(<<n, m>> \in OpToRel(<, Nat))
  BY WFMin, NatLessThanWellFounded
<1>2. PICK m \in S : \A n \in S : ~(<<n, m>> \in OpToRel(<, Nat))
  BY <1>1
<1>3. \A n \in S : m <= n
  <2> TAKE n \in S
  <2>1. ~(n < m)
    BY <1>2 DEF OpToRel
  <2> QED
    BY <2>1
<1> QED
  BY <1>3 DEF Min

\* The rows of the five tables are of their types.
RowsTyped ==
  /\ /\ Len(entries) \in Nat /\ DOMAIN entries = 1 .. Len(entries)
     /\ \A i \in 1 .. Len(entries) : entries[i] \in Entries
  /\ /\ Len(runs) \in Nat /\ DOMAIN runs = 1 .. Len(runs)
     /\ \A r \in 1 .. Len(runs) : runs[r] \in RunRows
  /\ /\ Len(checkpoints) \in Nat /\ DOMAIN checkpoints = 1 .. Len(checkpoints)
     /\ \A c \in 1 .. Len(checkpoints) : checkpoints[c] \in Checkpoints
  /\ /\ Len(jobs) \in Nat /\ DOMAIN jobs = 1 .. Len(jobs)
     /\ \A j \in 1 .. Len(jobs) : jobs[j] \in JobRows
  /\ /\ Len(operations) \in Nat /\ DOMAIN operations = 1 .. Len(operations)
     /\ \A o \in 1 .. Len(operations) : operations[o] \in OperationRows

LEMMA TableRows == CompactionTypeOK => RowsTyped
<1> SUFFICES ASSUME CompactionTypeOK PROVE RowsTyped
  OBVIOUS
<1>1. /\ entries \in Seq(Entries) /\ runs \in Seq(RunRows) /\ checkpoints \in Seq(Checkpoints)
      /\ jobs \in Seq(JobRows) /\ operations \in Seq(OperationRows)
  BY DEF CompactionTypeOK
<1> QED
  BY <1>1, LenProperties, ElementOfSeq DEF RowsTyped

LEMMA TableRowsNext == CompactionTypeOK' => RowsTyped'
BY TableRows, PTL

\* The latest checkpoint is the one written last, and it covers most.
LEMMA LatestIsLast ==
  ASSUME CompactionTypeOK, ChainInOrder
  PROVE  /\ LatestParent = Len(checkpoints)
         /\ \A c \in 1 .. Len(checkpoints) :
               Covered(c) \in Nat /\ Covered(c) <= Covered(Len(checkpoints))
         /\ Covered(Len(checkpoints)) \in Nat
<1>1. checkpoints \in Seq(Checkpoints)
  BY DEF CompactionTypeOK
<1>2. PICK n \in Nat : n = Len(checkpoints)
  BY <1>1
<1>3. DOMAIN checkpoints = 1 .. n /\ (checkpoints = <<>> <=> n = 0)
  BY <1>1, <1>2, EmptySeq, LenProperties
<1>4. \A c \in 1 .. n : checkpoints[c].source \in Nat
  BY <1>2, TableRows DEF RowsTyped, Checkpoints
<1>5. \A c, d \in 1 .. n : c < d => checkpoints[c].source < checkpoints[d].source
  BY <1>2 DEF ChainInOrder
<1>6. CASE n = 0
  BY <1>2, <1>3, <1>6 DEF LatestParent, Covered
<1>7. CASE n # 0
  <2>1. \A c \in 1 .. n : c # n => checkpoints[c].source < checkpoints[n].source
    BY <1>2, <1>5, <1>7
  <2>2. \A c \in 1 .. n : checkpoints[c].source <= checkpoints[n].source
    BY <1>4, <1>7, <2>1
  <2>3. \A c \in 1 .. n :
           (\A d \in 1 .. n : checkpoints[d].source <= checkpoints[c].source) => c = n
    BY <1>4, <1>7, <2>1
  <2>4. LatestParent = n
    BY <1>3, <1>7, <2>2, <2>3 DEF LatestParent
  <2> QED
    BY <1>2, <1>4, <1>7, <2>2, <2>4 DEF Covered
<1> QED
  BY <1>6, <1>7

\* A prefix that is selected covers more than before, and ends before a message of a user.
LEMMA PrefixSelected ==
  ASSUME CompactionTypeOK, NEW covered \in Nat, NEW protected \in 1 .. Len(entries),
         NEW accepted, SelectPrefix(covered, protected, Len(entries), accepted) # 0
  PROVE  LET source == SelectPrefix(covered, protected, Len(entries), accepted) IN
         /\ source \in Nat /\ covered < source /\ source < protected
         /\ source + 1 = protected \/ entries[source + 1].kind = "user"
<1> DEFINE high == Len(entries)
           users == {i \in (covered + 1)..(protected - 1) : entries[i].kind = "user"}
           kept == {i \in users : Cardinality({k \in users : k >= i}) <= 2}
           cuts == {b - 1 : b \in {b \in kept \cup {protected} :
                               /\ b - 1 > covered
                               /\ Budget(b - 1, high) \in accepted}}
<1>1. SelectPrefix(covered, protected, high, accepted) =
        IF protected <= covered + 1 \/ protected > high \/ cuts = {} THEN 0 ELSE Min(cuts)
  BY DEF SelectPrefix
<1>2. Len(entries) \in Nat
  BY DEF CompactionTypeOK
<1>3. \A c \in cuts : \E b \in kept \cup {protected} : c = b - 1 /\ b - 1 > covered
  OBVIOUS
<1>4. \A b \in kept \cup {protected} :
        b \in Nat /\ b <= protected /\ (b = protected \/ entries[b].kind = "user")
  BY <1>2
<1>5. cuts \in SUBSET Nat
  <2> SUFFICES ASSUME NEW c \in cuts PROVE c \in Nat
    OBVIOUS
  <2>1. PICK b \in kept \cup {protected} : c = b - 1 /\ b - 1 > covered
    BY <1>3
  <2>2. b \in Nat
    BY <1>4
  <2> HIDE DEF cuts, kept
  <2> QED
    BY <2>1, <2>2
<1> HIDE DEF cuts, kept, high
<1>6. SelectPrefix(covered, protected, high, accepted) = Min(cuts) /\ cuts # {}
  BY <1>1 DEF high
<1>7. Min(cuts) \in cuts
  BY <1>5, <1>6, MinIsLeast
<1>8. PICK b \in kept \cup {protected} : Min(cuts) = b - 1 /\ b - 1 > covered
  BY <1>3, <1>7
<1>9. b \in Nat /\ b <= protected /\ (b = protected \/ entries[b].kind = "user")
  BY <1>4
<1>10. PICK source \in Nat : source = Min(cuts)
  BY <1>5, <1>7
<1>11. b = source + 1
  BY <1>8, <1>9, <1>10
<1>12. covered < source /\ source < protected
  BY <1>8, <1>9, <1>10, <1>11
<1> QED
  BY <1>6, <1>9, <1>10, <1>11, <1>12 DEF high

\* A cut within the active run is after a completed batch of its calls.
LEMMA CutFound ==
  ASSUME CompactionTypeOK, NEW r, NEW covered \in Nat, WithinRunCut(r, covered) # 0
  PROVE  LET cut == WithinRunCut(r, covered) IN
         /\ cut \in Nat /\ covered < cut /\ cut < through
         /\ entries[cut] = [kind |-> "result", run |-> r] /\ CompleteCut(r, cut)
<1> DEFINE cuts == {i \in 1..(through - 1) :
                      /\ entries[i] = [kind |-> "result", run |-> r]
                      /\ i > covered
                      /\ CompleteCut(r, i)
                      /\ through - i >= 2
                      /\ Fits(Budget(i, through) + 1)
                      /\ ~PrefixBlocksForeground(i)}
<1>1. WithinRunCut(r, covered) = IF cuts = {} THEN 0 ELSE Min(cuts)
  BY DEF WithinRunCut
<1>2. through \in Nat
  BY TableRows DEF RowsTyped, through
<1>3. cuts \in SUBSET Nat
  BY <1>2
<1>4. \A i \in cuts : /\ i \in 1 .. (through - 1) /\ i > covered
                      /\ entries[i] = [kind |-> "result", run |-> r] /\ CompleteCut(r, i)
  OBVIOUS
<1> HIDE DEF cuts
<1>5. WithinRunCut(r, covered) \in cuts
  BY <1>1, <1>3, MinIsLeast
<1>6. PICK cut \in cuts : cut = WithinRunCut(r, covered)
  BY <1>5
<1>7. cut \in 1 .. (through - 1) /\ cut > covered
  BY <1>4
<1>8. entries[cut] = [kind |-> "result", run |-> r] /\ CompleteCut(r, cut)
  BY <1>4
<1>9. cut \in Nat /\ covered < cut /\ cut < through
  BY <1>2, <1>7
<1> QED
  BY <1>6, <1>8, <1>9

\* The active run is the last one.
LEMMA ActiveIsLast ==
  ASSUME CompactionTypeOK, HasActive
  PROVE  Last \in 1 .. Len(runs) /\ Last = Len(runs) /\ runs[Last].state = "active"
BY TableRows DEF RowsTyped, HasActive, Last

\* What a run plans to compact may be compacted.
PlanIsAllowed(source) ==
  /\ CanCompact(Last) /\ SourceAllowed(Last, source)
  /\ Covered(Len(checkpoints)) < source
  /\ ~runs[Last].manual => ~PrefixBlocksForeground(source)

LEMMA PlanIsSound ==
  ASSUME CompactionTypeOK, TranscriptInOrder, ChainInOrder, HasActive,
         PlanSource(Last, LatestParent) # 0
  PROVE  LET source == PlanSource(Last, LatestParent) IN
         source \in Nat /\ PlanIsAllowed(source)
<1> DEFINE covered == Covered(LatestParent)
           accepted == {n \in 0..MaxEntries + 1 : Fits(n)}
           whole == SelectPrefix(covered, runs[Last].source, through, accepted)
           cut == IF whole # 0 THEN whole ELSE WithinRunCut(Last, covered)
<1>1. /\ PlanSource(Last, LatestParent) = cut
      /\ CanCompact(Last) /\ cut # 0
      /\ runs[Last].manual \/ ~PrefixBlocksForeground(cut)
  BY DEF PlanSource
<1>2. covered = Covered(Len(checkpoints)) /\ covered \in Nat
  BY LatestIsLast
<1>3. Last \in 1 .. Len(runs) /\ runs[Last].source \in 1 .. Len(entries)
  BY ActiveIsLast DEF TranscriptInOrder
<1>4. runs[Last].source \in Nat
  BY <1>3, TableRows DEF RowsTyped
<1> HIDE DEF covered, accepted
<1>5. ASSUME whole # 0
      PROVE  whole \in Nat /\ covered < whole /\ whole < runs[Last].source
  BY <1>2, <1>3, <1>5, PrefixSelected DEF through
<1>6. ASSUME WithinRunCut(Last, covered) # 0
      PROVE  LET c == WithinRunCut(Last, covered) IN
             /\ c \in Nat /\ covered < c /\ c < through
             /\ entries[c] = [kind |-> "result", run |-> Last] /\ CompleteCut(Last, c)
  BY <1>2, <1>6, CutFound
<1> HIDE DEF whole
<1>7. CASE whole # 0
  <2>1. cut = whole
    BY <1>7
  <2> QED
    BY <1>1, <1>2, <1>5, <1>7, <2>1 DEF PlanIsAllowed, SourceAllowed
<1>8. CASE whole = 0
  <2>1. cut = WithinRunCut(Last, covered)
    BY <1>8
  <2> QED
    BY <1>1, <1>2, <1>6, <1>8, <2>1 DEF PlanIsAllowed, SourceAllowed
<1> QED
  BY <1>7, <1>8

--------------------------------------------------------------------------------
(* The frames of a step. *)

\* The transcript grows by entries of runs that have not ended.
EntriesGrow ==
  /\ Len(entries) <= Len(entries')
  /\ \A i \in 1 .. Len(entries) : entries'[i] = entries[i]
  /\ \A i \in Len(entries) + 1 .. Len(entries') :
       entries'[i].run \in 1 .. Len(runs) => runs[entries'[i].run].state = "active"

\* A run keeps its origin, and stays ended.
RunsGrow ==
  /\ Len(runs) <= Len(runs')
  /\ \A r \in 1 .. Len(runs) :
       /\ runs'[r].source = runs[r].source /\ runs'[r].manual = runs[r].manual
       /\ runs'[r].credential = runs[r].credential
       /\ runs[r].state # "active" => runs'[r].state # "active"

ChainGrows ==
  /\ Len(checkpoints) <= Len(checkpoints')
  /\ \A c \in 1 .. Len(checkpoints) : checkpoints'[c] = checkpoints[c]

\* The checkpoint that a job names is the one it was installed as.
InstallationHolds(j) ==
  /\ jobs[j].checkpoint \in 1 .. Len(checkpoints) /\ jobs[j].receiver \in 1 .. Len(runs)
  /\ checkpoints[jobs[j].checkpoint] = [source |-> jobs[j].source, parent |-> jobs[j].parent]
  /\ jobs[j].source < runs[jobs[j].receiver].source
  /\ jobs[j].credential = runs[jobs[j].receiver].credential

\* A job keeps its binding; one that is closed stays closed, one that was given up unsent
\* stays so.
JobMoves(j) ==
  /\ jobs'[j].run = jobs[j].run /\ jobs'[j].parent = jobs[j].parent
  /\ jobs'[j].source = jobs[j].source /\ jobs'[j].through = jobs[j].through
  /\ jobs'[j].policy = jobs[j].policy /\ jobs'[j].credential = jobs[j].credential
  /\ jobs'[j].state \in Open => jobs[j].state \in Open
  /\ jobs[j].state \in {"Failed", "Cancelled"} => jobs'[j].state \in {"Failed", "Cancelled"}
  /\ jobs'[j].state = "Installed" => jobs'[j] = jobs[j] \/ InstallationHolds(j)'

JobsMove ==
  Len(jobs') = Len(jobs) /\ \A j \in 1 .. Len(jobs) : JobMoves(j)

\* The checkpoint that an operation names is the one it wrote.
CompletionHolds(o) ==
  /\ operations[o].checkpoint \in 1 .. Len(checkpoints)
  /\ checkpoints[operations[o].checkpoint] =
       [source |-> operations[o].source, parent |-> operations[o].parent]

\* An operation keeps its binding, and stays complete.
OperationMoves(o) ==
  /\ operations'[o].run = operations[o].run /\ operations'[o].parent = operations[o].parent
  /\ operations'[o].source = operations[o].source /\ operations'[o].high = operations[o].high
  /\ operations[o].state = "complete" => operations'[o].state = "complete"
  /\ operations'[o].state = "complete" =>
       operations'[o] = operations[o] \/ CompletionHolds(o)'

OperationsMove ==
  Len(operations') = Len(operations) /\ \A o \in 1 .. Len(operations) : OperationMoves(o)

\* Rows that are left alone satisfy the frames.
LEMMA StillRows ==
  ASSUME CompactionTypeOK
  PROVE  /\ UNCHANGED entries => EntriesGrow
         /\ UNCHANGED runs => RunsGrow
         /\ UNCHANGED checkpoints => ChainGrows
         /\ UNCHANGED jobs => JobsMove
         /\ UNCHANGED operations => OperationsMove
<1> USE TableRows DEF RowsTyped
<1>1. UNCHANGED entries => EntriesGrow
  BY DEF EntriesGrow
<1>2. UNCHANGED runs => RunsGrow
  BY DEF RunsGrow
<1>3. UNCHANGED checkpoints => ChainGrows
  BY DEF ChainGrows
<1>4. UNCHANGED jobs => JobsMove
  BY DEF JobsMove, JobMoves
<1>5. UNCHANGED operations => OperationsMove
  BY DEF OperationsMove, OperationMoves
<1> QED
  BY <1>1, <1>2, <1>3, <1>4, <1>5

--------------------------------------------------------------------------------
(* What the frames keep. *)

LEMMA TranscriptKept ==
  ASSUME CompactionTypeOK, TranscriptInOrder, UNCHANGED entries, RunsGrow,
         Len(runs') = Len(runs)
  PROVE  TranscriptInOrder'
<1>1. Len(runs) \in Nat /\ Len(entries) \in Nat
  BY TableRows DEF RowsTyped
<1>2. \A r \in 1 .. Len(runs) : runs'[r].source = runs[r].source
  BY DEF RunsGrow
<1>3. \A r \in 1 .. Len(runs) : r < Len(runs) => runs'[r].state # "active"
  BY DEF RunsGrow, TranscriptInOrder
<1> QED
  BY <1>1, <1>2, <1>3 DEF TranscriptInOrder

\* A checkpoint is appended that covers more than the latest.
LEMMA ChainExtended ==
  ASSUME CompactionTypeOK, ChainInOrder, NEW source \in Nat,
         Covered(Len(checkpoints)) < source,
         checkpoints' = Append(checkpoints, [source |-> source, parent |-> Len(checkpoints)])
  PROVE  ChainInOrder' /\ ChainGrows
<1>1. checkpoints \in Seq(Checkpoints)
  BY DEF CompactionTypeOK
<1>2. PICK n \in Nat : n = Len(checkpoints)
  BY <1>1
<1>3. PICK row \in Checkpoints : row = [source |-> source, parent |-> n]
  BY <1>2 DEF Checkpoints
<1>4. Len(checkpoints') = n + 1 /\ checkpoints'[n + 1] = row
      /\ \A c \in 1 .. n : checkpoints'[c] = checkpoints[c]
  BY <1>1, <1>2, <1>3
<1>5. \A c \in 1 .. n : Covered(c) = checkpoints[c].source /\ checkpoints[c].source \in Nat
  BY <1>2, TableRows DEF RowsTyped, Checkpoints, Covered
<1>6. \A c \in 1 .. n : checkpoints[c].source < source
  BY <1>2, <1>5, LatestIsLast
<1>7. source # 0
  BY <1>2, LatestIsLast
<1>8. \A c \in 1 .. n + 1 : checkpoints'[c].parent = c - 1 /\ checkpoints'[c].source # 0
  BY <1>2, <1>3, <1>4, <1>7 DEF ChainInOrder
<1>9. \A c, d \in 1 .. n + 1 : c < d => checkpoints'[c].source < checkpoints'[d].source
  <2> TAKE c, d \in 1 .. n + 1
  <2> HAVE c < d
  <2>1. c \in 1 .. n /\ checkpoints'[c].source = checkpoints[c].source
    BY <1>4
  <2>2. CASE d = n + 1
    BY <1>3, <1>4, <1>6, <2>1, <2>2
  <2>3. CASE d # n + 1
    <3>1. d \in 1 .. n
      BY <2>3
    <3> QED
      BY <1>2, <1>4, <2>1, <3>1 DEF ChainInOrder
  <2> QED
    BY <2>2, <2>3
<1>10. ChainInOrder'
  BY <1>4, <1>8, <1>9 DEF ChainInOrder
<1> QED
  BY <1>2, <1>4, <1>10 DEF ChainGrows

\* A job stays valid while the tables grow around it.
LEMMA JobKept ==
  ASSUME CompactionTypeOK, CompactionTypeOK', TranscriptInOrder', EntriesGrow, RunsGrow,
         ChainGrows, NEW j \in 1 .. Len(jobs), JobIsBound(j), JobIsValid(j), JobMoves(j)
  PROVE  JobIsBound(j)' /\ JobIsValid(j)'
<1>1. PICK job \in JobRows : job = jobs[j]
  BY TableRows DEF RowsTyped
<1>2. PICK new : new = jobs'[j]
  OBVIOUS
<1>3. /\ new.run = job.run /\ new.parent = job.parent /\ new.source = job.source
      /\ new.through = job.through /\ new.credential = job.credential
  BY <1>1, <1>2 DEF JobMoves
<1>4. /\ job.run \in Nat /\ job.parent \in Nat /\ job.source \in Nat /\ job.through \in Nat
      /\ job.credential \in Nat
  BY <1>1 DEF JobRows
<1>5. /\ Len(entries) \in Nat /\ Len(runs) \in Nat /\ Len(checkpoints) \in Nat
      /\ DOMAIN entries = 1 .. Len(entries)
  BY TableRows DEF RowsTyped
<1>6. /\ Len(entries') \in Nat /\ Len(runs') \in Nat /\ Len(checkpoints') \in Nat
      /\ DOMAIN entries' = 1 .. Len(entries')
  BY TableRowsNext DEF RowsTyped
<1>7. job.run \in 1 .. Len(runs) /\ job.through <= Len(entries) /\ job.parent <= Len(checkpoints)
  BY <1>1 DEF JobIsBound
<1>8. /\ runs'[job.run].source = runs[job.run].source
      /\ runs'[job.run].state # "active" /\ runs[job.run].state # "active"
  BY <1>1, <1>7 DEF RunsGrow, JobIsValid
<1>9. /\ job.source < runs[job.run].source /\ runs[job.run].source <= job.through
      /\ runs[job.run].source \in Nat
  BY <1>1, <1>7, TableRows DEF JobIsValid, RowsTyped, RunRows
<1>10. Covered(job.parent)' < job.source
  <2>1. Covered(job.parent) < job.source
    BY <1>1 DEF JobIsValid
  <2>2. Covered(job.parent)' = Covered(job.parent)
    BY <1>4, <1>5, <1>7 DEF Covered, ChainGrows
  <2> QED
    BY <2>1, <2>2
<1>11. entries'[job.source + 1].kind = "user"
  <2>1. job.source + 1 \in 1 .. Len(entries)
    <3>1. PICK origin \in Nat : origin = runs[job.run].source
      BY <1>9
    <3>2. job.source < origin /\ origin <= job.through /\ job.through <= Len(entries)
      BY <1>7, <1>9, <3>1
    <3>3. \A a, b, c, d \in Nat : a < b /\ b <= c /\ c <= d => a + 1 \in 1 .. d
      OBVIOUS
    <3> QED
      BY <1>4, <1>5, <3>1, <3>2, <3>3
  <2> QED
    BY <1>1, <2>1 DEF JobIsValid, EntriesGrow
<1>12. \A i \in 1 .. Len(entries') :
         /\ entries'[i].run = job.run => i <= job.through
         /\ entries'[i].kind = "user" => i \notin (runs[job.run].source + 1)..job.through
  <2> TAKE i \in 1 .. Len(entries')
  <2>1. CASE i <= Len(entries)
    <3>1. i \in 1 .. Len(entries) /\ entries'[i] = entries[i]
      BY <1>5, <2>1 DEF EntriesGrow
    <3> QED
      BY <1>1, <1>5, <3>1 DEF JobIsValid
  <2>2. CASE i > Len(entries)
    <3>1. entries'[i].run \in 1 .. Len(runs) => runs[entries'[i].run].state = "active"
      BY <1>5, <2>2 DEF EntriesGrow
    <3>2. entries'[i].run # job.run
      BY <1>7, <1>8, <3>1
    <3>3. i \notin (runs[job.run].source + 1)..job.through
      BY <1>4, <1>5, <1>7, <1>9, <2>2
    <3> QED
      BY <3>2, <3>3
  <2> QED
    BY <1>5, <2>1, <2>2
<1>13. new.state = "Installed" =>
         /\ new.checkpoint \in 1 .. Len(checkpoints') /\ new.receiver \in 1 .. Len(runs')
         /\ checkpoints'[new.checkpoint] = [source |-> job.source, parent |-> job.parent]
         /\ job.source < runs'[new.receiver].source
         /\ job.credential = runs'[new.receiver].credential
  <2> HAVE new.state = "Installed"
  <2>1. CASE new = job
    <3>1. /\ job.checkpoint \in 1 .. Len(checkpoints) /\ job.receiver \in 1 .. Len(runs)
          /\ checkpoints[job.checkpoint] = [source |-> job.source, parent |-> job.parent]
          /\ job.source < runs[job.receiver].source
          /\ job.credential = runs[job.receiver].credential
      BY <1>1, <2>1 DEF JobIsBound, JobIsValid
    <3>2. /\ job.checkpoint \in 1 .. Len(checkpoints')
          /\ checkpoints'[job.checkpoint] = checkpoints[job.checkpoint]
      BY <1>5, <1>6, <3>1 DEF ChainGrows
    <3>3. /\ job.receiver \in 1 .. Len(runs')
          /\ runs'[job.receiver].source = runs[job.receiver].source
          /\ runs'[job.receiver].credential = runs[job.receiver].credential
      <4>1. Len(runs) <= Len(runs')
        BY DEF RunsGrow
      <4>2. job.receiver \in 1 .. Len(runs')
        BY <1>5, <1>6, <3>1, <4>1
      <4> QED
        BY <3>1, <4>2 DEF RunsGrow
    <3> QED
      BY <2>1, <3>1, <3>2, <3>3
  <2>2. CASE InstallationHolds(j)'
    BY <1>2, <1>3, <2>2 DEF InstallationHolds
  <2> QED
    BY <1>1, <1>2, <2>1, <2>2 DEF JobMoves
<1>14. JobIsBound(j)'
  <2>1. /\ new.run \in 1 .. Len(runs') /\ new.through <= Len(entries')
        /\ new.parent <= Len(checkpoints')
    <3>1. /\ Len(runs) <= Len(runs') /\ Len(entries) <= Len(entries')
          /\ Len(checkpoints) <= Len(checkpoints')
      BY DEF RunsGrow, EntriesGrow, ChainGrows
    <3>2. job.run \in 1 .. Len(runs')
      BY <1>5, <1>6, <1>7, <3>1
    <3>3. job.through <= Len(entries')
      BY <1>4, <1>5, <1>6, <1>7, <3>1
    <3>4. job.parent <= Len(checkpoints')
      BY <1>4, <1>5, <1>6, <1>7, <3>1
    <3> QED
      BY <1>3, <3>2, <3>3, <3>4
  <2> QED
    BY <1>2, <1>13, <2>1 DEF JobIsBound
<1>15. JobIsValid(j)'
  BY <1>2, <1>3, <1>6, <1>8, <1>9, <1>10, <1>11, <1>12, <1>13 DEF JobIsValid
<1> QED
  BY <1>14, <1>15

LEMMA JobsKept ==
  ASSUME CompactionTypeOK, CompactionTypeOK', TranscriptInOrder', EntriesGrow, RunsGrow,
         ChainGrows, JobsAreValid, JobsMove
  PROVE  JobsAreValid'
<1>1. \A j \in 1 .. Len(jobs) : JobIsBound(j)' /\ JobIsValid(j)'
  BY JobKept DEF JobsAreValid, JobsMove
<1>2. \A i, j \in 1 .. Len(jobs) : jobs'[i].state \in Open /\ jobs'[j].state \in Open => i = j
  BY DEF JobsAreValid, JobsMove, JobMoves
<1> QED
  BY <1>1, <1>2 DEF JobsAreValid, JobsMove

\* So does an operation.
LEMMA OperationKept ==
  ASSUME CompactionTypeOK, CompactionTypeOK', EntriesGrow, RunsGrow, ChainGrows,
         OperationsMove, NEW o \in 1 .. Len(operations), OperationIsBound(o), OperationIsValid(o)
  PROVE  OperationIsBound(o)' /\ OperationIsValid(o)'
<1>1. PICK op \in OperationRows : op = operations[o]
  BY TableRows DEF RowsTyped
<1>2. PICK new : new = operations'[o]
  OBVIOUS
<1>3. /\ new.run = op.run /\ new.parent = op.parent /\ new.source = op.source
      /\ new.high = op.high
  BY <1>1, <1>2 DEF OperationsMove, OperationMoves
<1>4. op.run \in Nat /\ op.parent \in Nat /\ op.source \in Nat /\ op.high \in Nat
  BY <1>1 DEF OperationRows
<1>5. /\ Len(entries) \in Nat /\ Len(runs) \in Nat /\ Len(checkpoints) \in Nat
      /\ Len(operations) \in Nat
  BY TableRows DEF RowsTyped
<1>6. Len(entries') \in Nat /\ Len(runs') \in Nat /\ Len(checkpoints') \in Nat
  BY TableRowsNext DEF RowsTyped
<1>7. op.run \in 1 .. Len(runs) /\ op.high <= Len(entries) /\ op.source # 0
  BY <1>1 DEF OperationIsBound
<1>8. runs'[op.run].source = runs[op.run].source /\ op.run \in 1 .. Len(runs')
  BY <1>5, <1>6, <1>7 DEF RunsGrow
<1>9. \/ op.source < runs'[op.run].source
      \/ /\ op.source < op.high
         /\ entries'[op.source] = [kind |-> "result", run |-> op.run]
         /\ CompleteCut(op.run, op.source)'
  <2>1. CASE op.source < runs[op.run].source
    BY <1>8, <2>1
  <2>2. CASE /\ op.source < op.high
             /\ entries[op.source] = [kind |-> "result", run |-> op.run]
             /\ CompleteCut(op.run, op.source)
    <3>1. \A i \in 1 .. op.source : entries'[i] = entries[i]
      BY <1>4, <1>5, <1>7, <2>2 DEF EntriesGrow
    <3>2. entries'[op.source] = entries[op.source]
      BY <1>4, <1>7, <3>1
    <3>3. CompleteCut(op.run, op.source)'
      BY <2>2, <3>1 DEF CompleteCut
    <3> QED
      BY <2>2, <3>2, <3>3
  <2> QED
    BY <1>1, <2>1, <2>2 DEF OperationIsValid
<1> DEFINE earlier == {p \in 1..(o - 1) : operations[p].run = op.run}
<1>10. /\ Cardinality(earlier) < MaxCompactions
       /\ \A p \in earlier : operations[p].source < op.source /\ operations[p].state = "complete"
  BY <1>1 DEF OperationIsValid
<1>11. \A p \in 1 .. (o - 1) : p \in 1 .. Len(operations)
  BY <1>5
<1>12. {p \in 1..(o - 1) : operations'[p].run = new.run} = earlier
  BY <1>3, <1>11 DEF OperationsMove, OperationMoves
<1>13. \A p \in earlier : operations'[p].source < op.source /\ operations'[p].state = "complete"
  BY <1>10, <1>11 DEF OperationsMove, OperationMoves
<1> HIDE DEF earlier
<1>14. new.state = "complete" =>
         /\ new.checkpoint \in 1 .. Len(checkpoints')
         /\ checkpoints'[new.checkpoint] = [source |-> op.source, parent |-> op.parent]
  <2> HAVE new.state = "complete"
  <2>1. CASE new = op
    <3>1. /\ op.checkpoint \in 1 .. Len(checkpoints)
          /\ checkpoints[op.checkpoint] = [source |-> op.source, parent |-> op.parent]
      BY <1>1, <2>1 DEF OperationIsBound, OperationIsValid
    <3> QED
      BY <1>5, <1>6, <2>1, <3>1 DEF ChainGrows
  <2>2. CASE CompletionHolds(o)'
    BY <1>2, <1>3, <2>2 DEF CompletionHolds
  <2> QED
    BY <1>1, <1>2, <2>1, <2>2 DEF OperationsMove, OperationMoves
<1>15. OperationIsBound(o)'
  <2>1. new.high <= Len(entries')
    BY <1>3, <1>4, <1>5, <1>6, <1>7 DEF EntriesGrow
  <2> QED
    BY <1>2, <1>3, <1>7, <1>8, <1>14, <2>1 DEF OperationIsBound
<1>16. OperationIsValid(o)'
  <2>1. \/ new.source < runs'[new.run].source
        \/ /\ new.source < new.high
           /\ entries'[new.source] = [kind |-> "result", run |-> new.run]
           /\ CompleteCut(new.run, new.source)'
    BY <1>3, <1>9 DEF CompleteCut
  <2> QED
    BY <1>2, <1>3, <1>10, <1>12, <1>13, <1>14, <2>1 DEF OperationIsValid
<1> QED
  BY <1>15, <1>16

LEMMA OperationsKept ==
  ASSUME CompactionTypeOK, CompactionTypeOK', EntriesGrow, RunsGrow, ChainGrows,
         OperationsAreValid, OperationsMove
  PROVE  OperationsAreValid'
<1>1. \A o \in 1 .. Len(operations) : OperationIsBound(o)' /\ OperationIsValid(o)'
  BY OperationKept DEF OperationsAreValid
<1> QED
  BY <1>1 DEF OperationsAreValid, OperationsMove

LEMMA AttemptsKept ==
  ASSUME CompactionTypeOK, OperationsAreValid, AttemptsDiffer, RunsGrow, JobsMove, OperationsMove
  PROVE  AttemptsDiffer'
<1>1. \A o \in 1 .. Len(operations) :
        /\ operations'[o].source = operations[o].source
        /\ runs'[operations'[o].run].manual = runs[operations[o].run].manual
  BY DEF OperationsMove, OperationMoves, RunsGrow, OperationsAreValid, OperationIsBound
<1>2. \A j \in 1 .. Len(jobs) :
        /\ jobs'[j].source = jobs[j].source
        /\ jobs[j].state \in {"Failed", "Cancelled"} => jobs'[j].state \in {"Failed", "Cancelled"}
  BY DEF JobsMove, JobMoves
<1>3. Len(operations') = Len(operations) /\ Len(jobs') = Len(jobs)
  BY DEF JobsMove, OperationsMove
<1>4. \A i, j \in 1 .. Len(jobs') : jobs'[i].source = jobs'[j].source => i = j
  BY <1>2, <1>3 DEF AttemptsDiffer
<1>5. \A o, p \in 1 .. Len(operations') :
        /\ operations'[o].source = operations'[p].source
        /\ ~runs'[operations'[o].run].manual /\ ~runs'[operations'[p].run].manual
        => o = p
  BY <1>1, <1>3 DEF AttemptsDiffer
<1>6. \A o \in 1 .. Len(operations'), j \in 1 .. Len(jobs') :
        operations'[o].source = jobs'[j].source /\ ~runs'[operations'[o].run].manual =>
          jobs'[j].state \in {"Failed", "Cancelled"}
  BY <1>1, <1>2, <1>3 DEF AttemptsDiffer
<1> QED
  BY <1>4, <1>5, <1>6 DEF AttemptsDiffer

\* A job that moves blocks no prefix that was free.
LEMMA PrefixStaysFree ==
  ASSUME CompactionTypeOK, CompactionTypeOK', JobsMove, OperationsMove, NEW source,
         ~PrefixBlocksForeground(source)
  PROVE  ~PrefixBlocksForeground(source)'
<1>1. /\ DOMAIN jobs = 1 .. Len(jobs) /\ DOMAIN operations = 1 .. Len(operations)
  BY TableRows DEF RowsTyped
<1>2. /\ DOMAIN jobs' = 1 .. Len(jobs') /\ DOMAIN operations' = 1 .. Len(operations')
  BY TableRowsNext DEF RowsTyped
<1>3. \A j \in DOMAIN jobs : jobs[j].source = source => jobs[j].state \in {"Failed", "Cancelled"}
  BY DEF PrefixBlocksForeground
<1>4. \A j \in DOMAIN jobs' :
        jobs'[j].source = source => jobs'[j].state \in {"Failed", "Cancelled"}
  BY <1>1, <1>2, <1>3 DEF JobsMove, JobMoves
<1>5. \A o \in DOMAIN operations : operations[o].source # source
  BY DEF PrefixBlocksForeground
<1>6. \A o \in DOMAIN operations' : operations'[o].source # source
  BY <1>1, <1>2, <1>5 DEF OperationsMove, OperationMoves
<1> QED
  BY <1>4, <1>6 DEF PrefixBlocksForeground

\* The plan of a run is not touched by the settings, the background task or its cancellers.
LEMMA PlanKept ==
  ASSUME CompactionTypeOK, CompactionTypeOK', PlanHolds, JobsMove, Dispatched' \subseteq Dispatched,
         UNCHANGED <<entries, runs, checkpoints, operations, phase, loop>>
  PROVE  PlanHolds'
<1>1. OperationsMove
  BY StillRows
<1>2. Last' = Last /\ HasActive' = HasActive /\ through' = through
  BY DEF Last, HasActive, through
<1>3. phase \in {"cancelPlan", "prepare"} =>
        /\ CanCompact(Last)' /\ SourceAllowed(Last, loop.source)'
        /\ loop'.parent = Len(checkpoints') /\ Covered(loop.parent)' < loop'.source
  BY <1>2 DEF PlanHolds, CanCompact, SourceAllowed, CompleteCut, Covered
<1>4. phase \in {"cancelPlan", "prepare"} /\ ~runs[Last].manual =>
        ~PrefixBlocksForeground(loop.source)'
  <2> SUFFICES ASSUME phase \in {"cancelPlan", "prepare"}, ~runs[Last].manual
               PROVE  ~PrefixBlocksForeground(loop.source)'
    OBVIOUS
  <2>1. PICK source : source = loop.source
    OBVIOUS
  <2>2. ~PrefixBlocksForeground(source)
    BY <2>1 DEF PlanHolds
  <2>3. ~PrefixBlocksForeground(source)'
    BY <1>1, <2>2, PrefixStaysFree
  <2> QED
    BY <2>1, <2>3 DEF PrefixBlocksForeground
<1>5. phase = "prepare" => Dispatched' = {}
  BY DEF PlanHolds
<1>6. phase \in {"send", "reply"} =>
        /\ operations' # <<>> /\ operations'[Len(operations')].run = Last'
        /\ operations'[Len(operations')].state \in {"prepared", "dispatched"}
        /\ operations'[Len(operations')].parent = Len(checkpoints')
        /\ Covered(operations[Len(operations)].parent)' < operations'[Len(operations')].source
  BY <1>2 DEF PlanHolds, Covered
<1> QED
  BY <1>2, <1>3, <1>4, <1>5, <1>6 DEF PlanHolds

LEMMA ChainKept ==
  ASSUME ChainInOrder, UNCHANGED checkpoints
  PROVE  ChainInOrder'
BY DEF ChainInOrder

\* A step that changes no more than the states of jobs.
LEMMA JobsOnly ==
  ASSUME CompactionInv, CompactionTypeOK', JobsMove,
         UNCHANGED <<entries, runs, checkpoints, operations>>
  PROVE  /\ TranscriptInOrder' /\ ChainInOrder' /\ JobsAreValid'
         /\ OperationsAreValid' /\ AttemptsDiffer'
<1>1. EntriesGrow /\ RunsGrow /\ ChainGrows /\ OperationsMove
  BY StillRows DEF CompactionInv
<1>2. TranscriptInOrder' /\ ChainInOrder'
  BY <1>1, TranscriptKept, ChainKept DEF CompactionInv
<1>3. JobsAreValid' /\ OperationsAreValid' /\ AttemptsDiffer'
  BY <1>1, <1>2, JobsKept, OperationsKept, AttemptsKept DEF CompactionInv
<1> QED
  BY <1>2, <1>3

\* A step that leaves the tables alone.
LEMMA TablesStill ==
  ASSUME CompactionInv, CompactionTypeOK',
         UNCHANGED <<entries, runs, checkpoints, jobs, operations>>
  PROVE  /\ TranscriptInOrder' /\ ChainInOrder' /\ JobsAreValid'
         /\ OperationsAreValid' /\ AttemptsDiffer'
BY StillRows, JobsOnly DEF CompactionInv

\* The active run ends.
LEMMA RunEnds ==
  ASSUME CompactionTypeOK, TranscriptInOrder, HasActive, NEW state \in {"succeeded", "failed"},
         runs' = [runs EXCEPT ![Last].state = state]
  PROVE  /\ runs' \in Seq(RunRows) /\ Len(runs') = Len(runs) /\ RunsGrow /\ ~HasActive'
         /\ \A r \in 1 .. Len(runs) : runs'[r].state # "active"
<1>1. Last \in 1 .. Len(runs) /\ Last = Len(runs)
  BY ActiveIsLast
<1>2. PICK l : l = Last
  OBVIOUS
<1>3. l \in 1 .. Len(runs) /\ l = Len(runs) /\ l \in Nat
  BY <1>1, <1>2
<1>4. runs \in Seq(RunRows)
  BY DEF CompactionTypeOK
<1>5. PICK row \in RunRows : row = runs[l]
  BY <1>3, TableRows DEF RowsTyped
<1>6. PICK new : new = [row EXCEPT !.state = state]
  OBVIOUS
<1>7. /\ new \in RunRows /\ new.state = state /\ new.source = row.source
      /\ new.manual = row.manual /\ new.credential = row.credential
  BY <1>5, <1>6 DEF RunRows
<1>8. runs' = [runs EXCEPT ![l] = new]
  BY <1>2, <1>5, <1>6
<1>9. /\ runs' \in Seq(RunRows) /\ Len(runs') = Len(runs)
      /\ \A r \in 1 .. Len(runs) : runs'[r] = IF r = l THEN new ELSE runs[r]
  <2>1. LET s == [runs EXCEPT ![l] = new] IN
        /\ s \in Seq(RunRows) /\ Len(s) = Len(runs)
        /\ \A r \in 1 .. Len(runs) : s[r] = IF r = l THEN new ELSE runs[r]
    BY <1>3, <1>4, <1>7, ExceptSeq
  <2> QED
    BY <1>8, <2>1
<1>10. RunsGrow
  BY <1>3, <1>5, <1>7, <1>9 DEF RunsGrow
<1>11. \A r \in 1 .. Len(runs) : runs'[r].state # "active"
  <2> TAKE r \in 1 .. Len(runs)
  <2>1. CASE r = l
    BY <1>7, <1>9, <2>1
  <2>2. CASE r # l
    <3>1. r < Len(runs)
      BY <1>3, <2>2
    <3>2. runs[r].state # "active"
      BY <3>1 DEF TranscriptInOrder
    <3> QED
      BY <1>9, <2>2, <3>2
  <2> QED
    BY <2>1, <2>2
<1>12. ~HasActive'
  BY <1>3, <1>9, <1>11 DEF HasActive, Last
<1> QED
  BY <1>9, <1>10, <1>11, <1>12

--------------------------------------------------------------------------------
(* The session's runs. *)

LEMMA AcceptRunStep ==
  ASSUME CompactionInv, NEW manual \in BOOLEAN, AcceptRun(manual)
  PROVE  CompactionInv'
<1>0. /\ CompactionTypeOK /\ TranscriptInOrder /\ ChainInOrder /\ JobsAreValid
      /\ OperationsAreValid /\ AttemptsDiffer /\ PlanHolds /\ TaskHasJob
  BY DEF CompactionInv
<1>1. /\ entries \in Seq(Entries) /\ runs \in Seq(RunRows)
      /\ credential \in Nat /\ starters \subseteq 1 .. Len(runs)
  BY <1>0 DEF CompactionTypeOK
<1>2. PICK n \in Nat : n = Len(entries)
  BY <1>1
<1>3. PICK m \in Nat : m = Len(runs)
  BY <1>1
<1>4. PICK row \in RunRows : row = [source |-> n + 1, state |-> "active", manual |-> manual,
                                    credential |-> credential]
  <2>1. [source |-> n + 1, state |-> "active", manual |-> manual, credential |-> credential]
          \in RunRows
    BY <1>1, <1>2 DEF RunRows
  <2> QED
    BY <2>1
<1>5. PICK entry \in Entries : entry = [kind |-> "user", run |-> m + 1]
  <2>1. [kind |-> "user", run |-> m + 1] \in Entries
    BY <1>3 DEF Entries
  <2> QED
    BY <2>1
<1>6. runs' = Append(runs, row) /\ entries' = Append(entries, entry)
  BY <1>2, <1>3, <1>4, <1>5 DEF AcceptRun, through, Last
<1>7. /\ runs' \in Seq(RunRows) /\ Len(runs') = m + 1 /\ runs'[m + 1] = row
      /\ \A r \in 1 .. m : runs'[r] = runs[r]
  BY <1>1, <1>3, <1>6
<1>8. /\ entries' \in Seq(Entries) /\ Len(entries') = n + 1 /\ entries'[n + 1] = entry
      /\ \A i \in 1 .. n : entries'[i] = entries[i]
  BY <1>1, <1>2, <1>6
<1>9. /\ UNCHANGED <<checkpoints, jobs, operations, archive, settings, enabled, loop, starters,
                     task, holder, stopping, failed, events>>
      /\ phase' = "head" /\ ~HasActive
  BY DEF AcceptRun
<1>10. CompactionTypeOK'
  <2>1. starters' \subseteq 1 .. Len(runs')
    BY <1>1, <1>3, <1>7, <1>9
  <2> QED
    BY <1>0, <1>7, <1>8, <1>9, <2>1 DEF CompactionTypeOK, settings
<1>11. \A r \in 1 .. m : runs[r].state # "active"
  <2> TAKE r \in 1 .. m
  <2>1. CASE r = m
    BY <1>3, <1>9, <2>1 DEF HasActive, Last
  <2>2. CASE r # m
    <3>1. r \in 1 .. Len(runs) /\ r < Len(runs)
      BY <1>3, <2>2
    <3> QED
      BY <1>0, <3>1 DEF TranscriptInOrder
  <2> QED
    BY <2>1, <2>2
<1>12. EntriesGrow
  <2>1. \A i \in n + 1 .. n + 1 : entries'[i].run = m + 1
    BY <1>5, <1>8
  <2> QED
    BY <1>2, <1>3, <1>8, <2>1 DEF EntriesGrow
<1>13. RunsGrow
  BY <1>3, <1>7 DEF RunsGrow
<1>14. ChainGrows /\ JobsMove /\ OperationsMove
  BY <1>0, <1>9, StillRows
<1>15. TranscriptInOrder'
  <2>1. \A r \in 1 .. m + 1 :
          /\ runs'[r].source \in 1 .. n + 1
          /\ entries'[runs'[r].source] = [kind |-> "user", run |-> r]
          /\ r < m + 1 => runs'[r].state # "active"
    <3> TAKE r \in 1 .. m + 1
    <3>1. CASE r = m + 1
      BY <1>2, <1>3, <1>4, <1>5, <1>7, <1>8, <3>1
    <3>2. CASE r # m + 1
      <4>1. r \in 1 .. m /\ runs'[r] = runs[r]
        BY <1>7, <3>2
      <4>2. runs[r].source \in 1 .. n /\ entries[runs[r].source] = [kind |-> "user", run |-> r]
        BY <1>0, <1>2, <1>3, <4>1 DEF TranscriptInOrder
      <4> QED
        BY <1>8, <1>11, <4>1, <4>2
    <3> QED
      BY <3>1, <3>2
  <2>2. \A r, q \in 1 .. m + 1 : r < q => runs'[r].source < runs'[q].source
    <3> TAKE r, q \in 1 .. m + 1
    <3> HAVE r < q
    <3>0. r \in 1 .. m
      BY <1>3
    <3>1. runs'[r] = runs[r] /\ runs[r].source \in 1 .. n
      BY <1>0, <1>2, <1>3, <1>7, <3>0 DEF TranscriptInOrder
    <3>2. CASE q = m + 1
      BY <1>4, <1>7, <3>0, <3>1, <3>2
    <3>3. CASE q # m + 1
      <4>1. q \in 1 .. m /\ runs'[q] = runs[q]
        BY <1>7, <3>3
      <4> QED
        BY <1>0, <1>3, <3>0, <3>1, <4>1 DEF TranscriptInOrder
    <3> QED
      BY <3>2, <3>3
  <2>3. \A i \in 1 .. n + 1 :
          /\ entries'[i].run \in 1 .. m + 1
          /\ entries'[i].kind = "user" => i = runs'[entries'[i].run].source
    <3> TAKE i \in 1 .. n + 1
    <3>1. CASE i = n + 1
      BY <1>3, <1>4, <1>5, <1>7, <1>8, <3>1
    <3>2. CASE i # n + 1
      <4>1. i \in 1 .. n /\ entries'[i] = entries[i]
        BY <1>8, <3>2
      <4>2. entries[i].run \in 1 .. m /\ (entries[i].kind = "user" => i = runs[entries[i].run].source)
        BY <1>0, <1>2, <1>3, <4>1 DEF TranscriptInOrder
      <4> QED
        BY <1>7, <4>1, <4>2
    <3> QED
      BY <3>1, <3>2
  <2> QED
    BY <1>7, <1>8, <2>1, <2>2, <2>3 DEF TranscriptInOrder
<1>16. ChainInOrder' /\ JobsAreValid' /\ OperationsAreValid' /\ AttemptsDiffer'
  BY <1>0, <1>9, <1>10, <1>12, <1>13, <1>14, <1>15, ChainKept, JobsKept, OperationsKept,
     AttemptsKept
<1>17. HasActive' /\ phase' # "idle"
  BY <1>3, <1>4, <1>7, <1>9 DEF HasActive, Last
<1>18. PlanHolds'
  BY <1>9, <1>17 DEF PlanHolds
<1>19. TaskHasJob'
  <2>1. phase = "idle"
    BY <1>0, <1>9 DEF PlanHolds
  <2>2. task.run \in 1 .. m => task.run \in 1 .. m + 1
    BY <1>3
  <2> QED
    BY <1>0, <1>3, <1>7, <1>9, <2>1, <2>2 DEF TaskHasJob
<1> QED
  BY <1>10, <1>15, <1>16, <1>18, <1>19 DEF CompactionInv

\* What ends a run, whatever it leaves in the transcript and the journal.
LEMMA EndKeeps ==
  ASSUME CompactionInv, HasActive, phase \notin {"cancelHead", "cancelPlan"},
         NEW state \in {"succeeded", "failed"},
         runs' = [runs EXCEPT ![Last].state = state], phase' = "idle", loop' = NewLoop,
         starters' = starters \cup {Last},
         entries' \in Seq(Entries), operations' \in Seq(OperationRows),
         EntriesGrow, OperationsMove, TranscriptInOrder',
         UNCHANGED <<checkpoints, jobs, archive, settings, enabled, task, holder, stopping,
                     failed, events>>
  PROVE  CompactionInv'
<1>0. /\ CompactionTypeOK /\ TranscriptInOrder /\ ChainInOrder /\ JobsAreValid
      /\ OperationsAreValid /\ AttemptsDiffer /\ PlanHolds /\ TaskHasJob
  BY DEF CompactionInv
<1>1. /\ runs' \in Seq(RunRows) /\ Len(runs') = Len(runs) /\ RunsGrow /\ ~HasActive'
  BY <1>0, RunEnds
<1>2. CompactionTypeOK'
  <2>1. starters' \subseteq 1 .. Len(runs')
    BY <1>0, <1>1, ActiveIsLast DEF CompactionTypeOK
  <2>2. loop' \in LoopType
    BY DEF NewLoop, LoopType
  <2> QED
    BY <1>0, <1>1, <2>1, <2>2 DEF CompactionTypeOK, settings
<1>3. ChainGrows /\ JobsMove
  BY <1>0, StillRows
<1>4. ChainInOrder' /\ JobsAreValid' /\ OperationsAreValid' /\ AttemptsDiffer'
  BY <1>0, <1>1, <1>2, <1>3, ChainKept, JobsKept, OperationsKept, AttemptsKept
<1>5. PlanHolds'
  BY <1>1 DEF PlanHolds
<1>6. TaskHasJob'
  BY <1>0, <1>1 DEF TaskHasJob
<1> QED
  BY <1>2, <1>4, <1>5, <1>6 DEF CompactionInv

LEMMA StopRunStep ==
  ASSUME CompactionInv, StopRun
  PROVE  CompactionInv'
<1>1. /\ HasActive /\ phase = "head" /\ runs' = [runs EXCEPT ![Last].state = "failed"]
      /\ phase' = "idle" /\ loop' = NewLoop /\ starters' = starters \cup {Last}
      /\ UNCHANGED <<entries, checkpoints, jobs, operations, archive, settings, enabled, task,
                     holder, stopping, failed, events>>
  BY DEF StopRun, EndRun
<1>2. CompactionTypeOK /\ TranscriptInOrder
  BY DEF CompactionInv
<1>3. /\ RunsGrow /\ Len(runs') = Len(runs) /\ runs' \in Seq(RunRows)
  BY <1>1, <1>2, RunEnds
<1>4. EntriesGrow /\ OperationsMove
  BY <1>1, <1>2, StillRows
<1>5. entries' \in Seq(Entries) /\ operations' \in Seq(OperationRows)
  BY <1>1, <1>2 DEF CompactionTypeOK
<1>6. TranscriptInOrder'
  BY <1>1, <1>2, <1>3, TranscriptKept
<1> QED
  BY <1>1, <1>4, <1>5, <1>6, EndKeeps

\* One job moves.
LEMMA JobChanges ==
  ASSUME CompactionTypeOK, NEW j \in 1 .. Len(jobs), NEW new \in JobRows,
         jobs' = [jobs EXCEPT ![j] = new],
         new.run = jobs[j].run, new.parent = jobs[j].parent, new.source = jobs[j].source,
         new.through = jobs[j].through, new.policy = jobs[j].policy,
         new.credential = jobs[j].credential,
         new.state \in Open => jobs[j].state \in Open,
         jobs[j].state \in {"Failed", "Cancelled"} => new.state \in {"Failed", "Cancelled"},
         new.state = "Installed" => InstallationHolds(j)'
  PROVE  /\ jobs' \in Seq(JobRows) /\ Len(jobs') = Len(jobs) /\ jobs'[j] = new
         /\ \A i \in 1 .. Len(jobs) : i # j => jobs'[i] = jobs[i]
         /\ JobsMove
<1>1. jobs \in Seq(JobRows)
  BY DEF CompactionTypeOK
<1>2. LET s == [jobs EXCEPT ![j] = new] IN
      /\ s \in Seq(JobRows) /\ Len(s) = Len(jobs)
      /\ \A i \in 1 .. Len(jobs) : s[i] = IF i = j THEN new ELSE jobs[i]
  BY <1>1, ExceptSeq
<1>3. /\ jobs' \in Seq(JobRows) /\ Len(jobs') = Len(jobs) /\ jobs'[j] = new
      /\ \A i \in 1 .. Len(jobs) : i # j => jobs'[i] = jobs[i]
  BY <1>2
<1>4. \A i \in 1 .. Len(jobs) : JobMoves(i)
  <2> TAKE i \in 1 .. Len(jobs)
  <2>1. CASE i = j
    <3>1. jobs'[i] = new
      BY <1>3, <2>1
    <3> QED
      BY <2>1, <3>1 DEF JobMoves
  <2>2. CASE i # j
    BY <1>3, <2>2 DEF JobMoves
  <2> QED
    BY <2>1, <2>2
<1> QED
  BY <1>3, <1>4 DEF JobsMove

LEMMA InstallStep ==
  ASSUME CompactionInv, HasActive, phase = "head", NEW j \in 1 .. Len(jobs),
         jobs[j].state = "Ready", Compatible(j, Last),
         checkpoints' = Append(checkpoints, [source |-> jobs[j].source,
                                             parent |-> jobs[j].parent]),
         jobs' = [jobs EXCEPT ![j] = [@ EXCEPT !.state = "Installed",
                                               !.checkpoint = Len(checkpoints) + 1,
                                               !.receiver = Last]],
         phase' \in {"cancelHead", "load"},
         UNCHANGED <<entries, runs, operations, archive, settings, enabled, loop, starters,
                     task, holder, stopping, failed, events>>
  PROVE  CompactionInv'
<1>0. /\ CompactionTypeOK /\ TranscriptInOrder /\ ChainInOrder /\ JobsAreValid
      /\ OperationsAreValid /\ AttemptsDiffer /\ PlanHolds /\ TaskHasJob
  BY DEF CompactionInv
<1>1. PICK job \in JobRows : job = jobs[j]
  BY <1>0, TableRows DEF RowsTyped
<1>2. PICK r \in 1 .. Len(runs) : r = Last
  BY <1>0, ActiveIsLast
<1>3. PICK n \in Nat : n = Len(checkpoints)
  BY <1>0, TableRows DEF RowsTyped
<1>4. /\ job.parent = n /\ job.source \in Nat /\ Covered(n) < job.source
      /\ job.source < runs[r].source /\ job.credential = runs[r].credential
  BY <1>0, <1>1, <1>2, <1>3, LatestIsLast DEF Compatible, JobsAreValid, JobIsValid, JobRows
<1>5. checkpoints' = Append(checkpoints, [source |-> job.source, parent |-> n])
  BY <1>1, <1>4
<1>6. ChainInOrder' /\ ChainGrows
  BY <1>0, <1>3, <1>4, <1>5, ChainExtended
<1>7. PICK row \in Checkpoints : row = [source |-> job.source, parent |-> n]
  <2>1. [source |-> job.source, parent |-> n] \in Checkpoints
    BY <1>4 DEF Checkpoints
  <2> QED
    BY <2>1
<1>8. checkpoints \in Seq(Checkpoints)
  BY <1>0 DEF CompactionTypeOK
<1>9. /\ checkpoints' \in Seq(Checkpoints) /\ Len(checkpoints') = n + 1
      /\ checkpoints'[n + 1] = [source |-> job.source, parent |-> n]
  BY <1>3, <1>5, <1>7, <1>8
<1>10. PICK new : new = [job EXCEPT !.state = "Installed", !.checkpoint = n + 1, !.receiver = r]
  OBVIOUS
<1>11. jobs' = [jobs EXCEPT ![j] = new]
  BY <1>1, <1>2, <1>3, <1>10
<1>12. /\ new \in JobRows /\ new.state = "Installed" /\ new.checkpoint = n + 1
       /\ new.receiver = r /\ new.run = job.run /\ new.parent = job.parent
       /\ new.source = job.source /\ new.through = job.through /\ new.policy = job.policy
       /\ new.credential = job.credential
  <2>1. r \in Nat /\ n + 1 \in Nat
    BY <1>2, <1>3
  <2>2. new \in JobRows
    BY <1>1, <1>10, <2>1 DEF JobRows
  <2> QED
    BY <1>1, <1>10, <2>2 DEF JobRows
<1>13. jobs'[j] = new
  BY <1>0, <1>11, TableRows DEF RowsTyped
<1>14. InstallationHolds(j)'
  <2>1. n + 1 \in 1 .. Len(checkpoints') /\ r \in 1 .. Len(runs')
    BY <1>9
  <2>2. checkpoints'[n + 1] = [source |-> job.source, parent |-> job.parent]
    BY <1>4, <1>9
  <2> QED
    BY <1>4, <1>12, <1>13, <2>1, <2>2 DEF InstallationHolds
<1>15. /\ jobs' \in Seq(JobRows) /\ Len(jobs') = Len(jobs) /\ JobsMove
       /\ \A i \in 1 .. Len(jobs) : i # j => jobs'[i] = jobs[i]
  BY <1>0, <1>1, <1>11, <1>12, <1>14, JobChanges DEF Open
<1>16. CompactionTypeOK'
  <2>1. /\ UNCHANGED <<entries, runs, operations, archive, credential, policy, enabled, loop,
                       starters, task, holder, stopping, failed, events>>
        /\ phase' \in {"cancelHead", "load"}
    BY DEF settings
  <2> QED
    BY <1>0, <1>9, <1>15, <2>1 DEF CompactionTypeOK
<1>17. EntriesGrow /\ RunsGrow /\ OperationsMove /\ Len(runs') = Len(runs)
  BY <1>0, StillRows
<1>18. TranscriptInOrder'
  BY <1>0, <1>17, TranscriptKept
<1>19. JobsAreValid' /\ OperationsAreValid' /\ AttemptsDiffer'
  BY <1>0, <1>6, <1>15, <1>16, <1>17, <1>18, JobsKept, OperationsKept, AttemptsKept
<1>20. PlanHolds'
  BY DEF PlanHolds, HasActive, Last
<1>21. TaskHasJob'
  <2>1. holder.who \notin {"head", "plan"}
    BY <1>0 DEF TaskHasJob
  <2>2. task.stage = "reply" => jobs'[task.job].state = "Dispatched"
    BY <1>0, <1>15 DEF TaskHasJob
  <2> QED
    BY <1>0, <1>15, <2>1, <2>2 DEF TaskHasJob
<1> QED
  BY <1>6, <1>16, <1>18, <1>19, <1>20, <1>21 DEF CompactionInv

\* The loop goes on to cancel the background task or to load its context.
LEMMA BoundaryPlain ==
  ASSUME CompactionInv, HasActive, phase = "head", phase' \in {"cancelHead", "load"},
         jobs' \in Seq(JobRows), JobsMove,
         \A j \in 1 .. Len(jobs) : jobs[j].state = "Dispatched" => jobs'[j] = jobs[j],
         UNCHANGED <<entries, runs, checkpoints, operations, archive, settings, enabled, loop,
                     starters, task, holder, stopping, failed, events>>
  PROVE  CompactionInv'
<1>0. /\ CompactionTypeOK /\ TranscriptInOrder /\ ChainInOrder /\ JobsAreValid
      /\ OperationsAreValid /\ AttemptsDiffer /\ PlanHolds /\ TaskHasJob
  BY DEF CompactionInv
<1>1. CompactionTypeOK'
  BY <1>0 DEF CompactionTypeOK, settings
<1>2. /\ TranscriptInOrder' /\ ChainInOrder' /\ JobsAreValid'
      /\ OperationsAreValid' /\ AttemptsDiffer'
  BY <1>1, JobsOnly
<1>3. PlanHolds'
  BY DEF PlanHolds, HasActive, Last
<1>4. TaskHasJob'
  <2>1. holder.who \notin {"head", "plan"}
    BY <1>0 DEF TaskHasJob
  <2>2. task.stage = "reply" => jobs'[task.job].state = "Dispatched"
    BY <1>0 DEF TaskHasJob
  <2>3. Len(jobs') = Len(jobs)
    BY DEF JobsMove
  <2> QED
    BY <1>0, <2>1, <2>2, <2>3 DEF TaskHasJob
<1> QED
  BY <1>1, <1>2, <1>3, <1>4 DEF CompactionInv

LEMMA MaintenanceBoundaryStep ==
  ASSUME CompactionInv, MaintenanceBoundary
  PROVE  CompactionInv'
<1>0. CompactionTypeOK
  BY DEF CompactionInv
<1>1. /\ HasActive /\ phase = "head" /\ phase' \in {"cancelHead", "load"}
      /\ UNCHANGED <<entries, runs, operations, archive, settings, enabled, loop, starters,
                     task, holder, stopping, failed, events>>
  BY DEF MaintenanceBoundary
<1>2. CASE UNCHANGED <<jobs, checkpoints>>
  <2>1. JobsMove
    BY <1>0, <1>2, StillRows
  <2>2. jobs' \in Seq(JobRows)
    BY <1>0, <1>2 DEF CompactionTypeOK
  <2> QED
    BY <1>1, <1>2, <2>1, <2>2, BoundaryPlain
<1>3. ASSUME NEW j \in DOMAIN jobs, jobs[j].state = "Ready", Compatible(j, Last),
             checkpoints' = Append(checkpoints, [source |-> jobs[j].source,
                                                 parent |-> jobs[j].parent]),
             jobs' = [jobs EXCEPT ![j] = [@ EXCEPT !.state = "Installed",
                                                   !.checkpoint = Len(checkpoints) + 1,
                                                   !.receiver = Last]]
      PROVE  CompactionInv'
  <2>1. j \in 1 .. Len(jobs)
    BY <1>0, TableRows DEF RowsTyped
  <2> QED
    BY <1>1, <1>3, <2>1, InstallStep
<1>4. ASSUME NEW j \in DOMAIN jobs, jobs[j].state = "Ready", UNCHANGED checkpoints,
             jobs' = [jobs EXCEPT ![j].state = "Discarded"]
      PROVE  CompactionInv'
  <2>1. j \in 1 .. Len(jobs)
    BY <1>0, TableRows DEF RowsTyped
  <2>2. PICK job \in JobRows : job = jobs[j]
    BY <1>0, <2>1, TableRows DEF RowsTyped
  <2>3. PICK new : new = [job EXCEPT !.state = "Discarded"]
    OBVIOUS
  <2>4. /\ new \in JobRows /\ new.state = "Discarded"
        /\ new.run = job.run /\ new.parent = job.parent /\ new.source = job.source
        /\ new.through = job.through /\ new.policy = job.policy
        /\ new.credential = job.credential
    BY <2>2, <2>3 DEF JobRows
  <2>5. jobs' = [jobs EXCEPT ![j] = new]
    BY <1>4, <2>2, <2>3
  <2>6. /\ jobs' \in Seq(JobRows) /\ JobsMove
        /\ \A i \in 1 .. Len(jobs) : i # j => jobs'[i] = jobs[i]
    BY <1>0, <1>4, <2>1, <2>2, <2>4, <2>5, JobChanges DEF Open
  <2> QED
    BY <1>1, <1>4, <2>6, BoundaryPlain
<1> QED
  BY <1>2, <1>3, <1>4 DEF MaintenanceBoundary

\* The loop loads its context: with a plan, which holds from here on.
LEMMA PlanStep ==
  ASSUME CompactionInv, HasActive, phase = "load", PlanSource(Last, LatestParent) # 0,
         loop' = [loop EXCEPT !.source = PlanSource(Last, LatestParent),
                              !.parent = LatestParent],
         phase' = "cancelPlan",
         UNCHANGED <<entries, runs, checkpoints, jobs, operations, archive, settings, enabled,
                     starters, task, holder, stopping, failed, events>>
  PROVE  CompactionInv'
<1>0. /\ CompactionTypeOK /\ TranscriptInOrder /\ ChainInOrder /\ JobsAreValid
      /\ OperationsAreValid /\ AttemptsDiffer /\ PlanHolds /\ TaskHasJob
  BY DEF CompactionInv
<1>1. PICK source \in Nat : source = PlanSource(Last, LatestParent) /\ PlanIsAllowed(source)
  BY <1>0, PlanIsSound
<1>2. PICK parent \in Nat : parent = LatestParent /\ parent = Len(checkpoints)
  BY <1>0, LatestIsLast, TableRows DEF RowsTyped
<1>3. PICK old \in LoopType : old = loop
  BY <1>0 DEF CompactionTypeOK
<1>4. loop' = [old EXCEPT !.source = source, !.parent = parent]
  BY <1>1, <1>2, <1>3
<1>5. /\ loop' \in LoopType /\ loop'.source = source /\ loop'.parent = parent
      /\ loop'.advanced = loop.advanced
  BY <1>3, <1>4 DEF LoopType
<1>6. CompactionTypeOK'
  BY <1>0, <1>5 DEF CompactionTypeOK, settings
<1>7. /\ TranscriptInOrder' /\ ChainInOrder' /\ JobsAreValid'
      /\ OperationsAreValid' /\ AttemptsDiffer'
  BY <1>6, TablesStill
<1>8. Last' = Last /\ HasActive'
  BY DEF Last, HasActive
<1>9. /\ CanCompact(Last)' /\ SourceAllowed(Last, source)' /\ Covered(parent)' < source
  BY <1>1, <1>2, <1>5, <1>8
    DEF PlanIsAllowed, CanCompact, SourceAllowed, CompleteCut, Covered, through
<1>10. ~runs'[Last'].manual => ~PrefixBlocksForeground(source)'
  BY <1>1, <1>8 DEF PlanIsAllowed, PrefixBlocksForeground
<1>11. PlanHolds'
  <2>1. SourceAllowed(Last, loop.source)' /\ Covered(loop.parent)' < loop'.source
    BY <1>5, <1>9 DEF SourceAllowed, CompleteCut, Covered
  <2>2. ~runs'[Last'].manual => ~PrefixBlocksForeground(loop.source)'
    BY <1>5, <1>10 DEF PrefixBlocksForeground
  <2> QED
    BY <1>2, <1>5, <1>8, <1>9, <2>1, <2>2 DEF PlanHolds
<1>12. TaskHasJob'
  <2>1. holder.who \notin {"head", "plan"}
    BY <1>0 DEF TaskHasJob
  <2> QED
    BY <1>0, <2>1 DEF TaskHasJob
<1> QED
  BY <1>6, <1>7, <1>11, <1>12 DEF CompactionInv

LEMMA LoadRunContextStep ==
  ASSUME CompactionInv, LoadRunContext
  PROVE  CompactionInv'
<1>0. /\ CompactionTypeOK /\ TranscriptInOrder /\ ChainInOrder /\ JobsAreValid
      /\ OperationsAreValid /\ AttemptsDiffer /\ PlanHolds /\ TaskHasJob
  BY DEF CompactionInv
<1>1. /\ HasActive /\ phase = "load"
      /\ UNCHANGED <<entries, checkpoints, jobs, operations, archive, settings, enabled, task,
                     holder, stopping, failed, events>>
  BY DEF LoadRunContext
<1>2. CASE /\ PlanSource(Last, LatestParent) # 0
           /\ loop' = [loop EXCEPT !.source = PlanSource(Last, LatestParent),
                                   !.parent = LatestParent]
           /\ phase' = "cancelPlan"
           /\ UNCHANGED <<runs, starters>>
  BY <1>1, <1>2, PlanStep
<1>3. CASE phase' = "turn" /\ UNCHANGED <<runs, starters, loop>>
  <2>1. CompactionTypeOK'
    BY <1>0, <1>1, <1>3 DEF CompactionTypeOK, settings
  <2>2. /\ TranscriptInOrder' /\ ChainInOrder' /\ JobsAreValid'
        /\ OperationsAreValid' /\ AttemptsDiffer'
    BY <1>1, <1>3, <2>1, TablesStill
  <2>3. PlanHolds'
    BY <1>1, <1>3 DEF PlanHolds, HasActive, Last
  <2>4. TaskHasJob'
    BY <1>0, <1>1, <1>3 DEF TaskHasJob
  <2> QED
    BY <2>1, <2>2, <2>3, <2>4 DEF CompactionInv
<1>4. CASE EndRun("failed", <<>>)
  <2>1. /\ runs' = [runs EXCEPT ![Last].state = "failed"]
        /\ phase' = "idle" /\ loop' = NewLoop /\ starters' = starters \cup {Last}
    BY <1>4 DEF EndRun
  <2>2. /\ RunsGrow /\ Len(runs') = Len(runs)
    BY <1>0, <1>1, <2>1, RunEnds
  <2>3. EntriesGrow /\ OperationsMove
    BY <1>0, <1>1, StillRows
  <2>4. entries' \in Seq(Entries) /\ operations' \in Seq(OperationRows)
    BY <1>0, <1>1 DEF CompactionTypeOK
  <2>5. TranscriptInOrder'
    BY <1>0, <1>1, <2>2, TranscriptKept
  <2> QED
    BY <1>1, <2>1, <2>3, <2>4, <2>5, EndKeeps
<1> QED
  BY <1>2, <1>3, <1>4 DEF LoadRunContext

\* The active run appends entries of its own, none of them a message of a user.
LEMMA OwnEntries ==
  ASSUME CompactionTypeOK, TranscriptInOrder, HasActive, NEW added \in Seq(Entries),
         \A i \in 1 .. Len(added) : added[i].run = Last /\ added[i].kind # "user",
         entries' = entries \o added, RunsGrow, Len(runs') = Len(runs)
  PROVE  entries' \in Seq(Entries) /\ EntriesGrow /\ TranscriptInOrder'
<1>1. entries \in Seq(Entries)
  BY DEF CompactionTypeOK
<1>2. PICK n \in Nat : n = Len(entries)
  BY <1>1
<1>3. PICK k \in Nat : k = Len(added)
  OBVIOUS
<1>4. PICK m \in Nat : m = Len(runs)
  BY TableRows DEF RowsTyped
<1>5. /\ entries' \in Seq(Entries) /\ Len(entries') = n + k
      /\ \A i \in 1 .. n + k : entries'[i] = IF i <= n THEN entries[i] ELSE added[i - n]
  <2>1. /\ entries \o added \in Seq(Entries) /\ Len(entries \o added) = n + k
        /\ \A i \in 1 .. n + k :
             (entries \o added)[i] = IF i <= n THEN entries[i] ELSE added[i - n]
    BY <1>1, <1>2, <1>3, ConcatProperties
  <2> QED
    BY <2>1
<1>6. \A i \in 1 .. n : entries'[i] = entries[i]
  BY <1>5
<1>7. \A i \in n + 1 .. n + k : entries'[i].run = Last /\ entries'[i].kind # "user"
  <2> TAKE i \in n + 1 .. n + k
  <2>1. i - n \in 1 .. k /\ i \in 1 .. n + k /\ ~(i <= n)
    OBVIOUS
  <2> QED
    BY <1>3, <1>5, <2>1
<1>8. Last \in 1 .. m /\ runs[Last].state = "active"
  BY <1>4, ActiveIsLast
<1>9. EntriesGrow
  BY <1>2, <1>5, <1>6, <1>7, <1>8 DEF EntriesGrow
<1>10. TranscriptInOrder'
  <2>1. \A r \in 1 .. m : runs'[r].source = runs[r].source
    BY <1>4 DEF RunsGrow
  <2>2. \A r \in 1 .. m :
          /\ runs'[r].source \in 1 .. n + k
          /\ entries'[runs'[r].source] = [kind |-> "user", run |-> r]
    <3> TAKE r \in 1 .. m
    <3>1. runs[r].source \in 1 .. n /\ entries[runs[r].source] = [kind |-> "user", run |-> r]
      BY <1>2, <1>4 DEF TranscriptInOrder
    <3>2. PICK s \in 1 .. n : s = runs[r].source
      BY <3>1
    <3>3. runs'[r].source = s
      BY <2>1, <3>2
    <3>4. entries'[s] = entries[s]
      BY <1>6
    <3>5. s \in 1 .. n + k
      OBVIOUS
    <3> QED
      BY <3>1, <3>2, <3>3, <3>4, <3>5
  <2>3. \A r \in 1 .. m : r < m => runs'[r].state # "active"
    BY <1>4 DEF RunsGrow, TranscriptInOrder
  <2>4. \A r, q \in 1 .. m : r < q => runs'[r].source < runs'[q].source
    BY <1>4, <2>1 DEF TranscriptInOrder
  <2>5. \A i \in 1 .. n + k :
          /\ entries'[i].run \in 1 .. m
          /\ entries'[i].kind = "user" => i = runs'[entries'[i].run].source
    <3> TAKE i \in 1 .. n + k
    <3>1. CASE i <= n
      <4>1. i \in 1 .. n
        BY <3>1
      <4>2. /\ entries[i].run \in 1 .. m
            /\ entries[i].kind = "user" => i = runs[entries[i].run].source
        BY <1>2, <1>4, <4>1 DEF TranscriptInOrder
      <4> QED
        BY <1>6, <2>1, <4>1, <4>2
    <3>2. CASE i > n
      <4>1. i \in n + 1 .. n + k
        BY <3>2
      <4> QED
        BY <1>7, <1>8, <4>1
    <3>3. i <= n \/ i > n
      OBVIOUS
    <3> QED
      BY <3>1, <3>2, <3>3
  <2> QED
    BY <1>4, <1>5, <2>2, <2>3, <2>4, <2>5 DEF TranscriptInOrder
<1> QED
  BY <1>5, <1>9, <1>10

LEMMA ProviderTurnStep ==
  ASSUME CompactionInv, ProviderTurn
  PROVE  CompactionInv'
<1>0. /\ CompactionTypeOK /\ TranscriptInOrder /\ ChainInOrder /\ JobsAreValid
      /\ OperationsAreValid /\ AttemptsDiffer /\ PlanHolds /\ TaskHasJob
  BY DEF CompactionInv
<1>1. /\ HasActive /\ phase = "turn"
      /\ UNCHANGED <<checkpoints, jobs, operations, archive, settings, enabled, task,
                     holder, stopping, failed, events>>
  BY DEF ProviderTurn
<1>2. PICK l \in Nat : l = Last
  BY <1>0, <1>1, ActiveIsLast, TableRows DEF RowsTyped
<1>3. OperationsMove /\ operations' \in Seq(OperationRows)
  BY <1>0, <1>1, StillRows DEF CompactionTypeOK
<1>4. ASSUME entries' = Append(entries, [kind |-> "answer", run |-> Last]),
             EndRun("succeeded", <<>>)
      PROVE  CompactionInv'
  <2>1. /\ runs' = [runs EXCEPT ![Last].state = "succeeded"]
        /\ phase' = "idle" /\ loop' = NewLoop /\ starters' = starters \cup {Last}
    BY <1>4 DEF EndRun
  <2>2. RunsGrow /\ Len(runs') = Len(runs)
    BY <1>0, <1>1, <2>1, RunEnds
  <2>3. PICK entry \in Entries : entry = [kind |-> "answer", run |-> l]
    <3>1. [kind |-> "answer", run |-> l] \in Entries
      BY DEF Entries
    <3> QED
      BY <3>1
  <2>4. entries \in Seq(Entries) /\ entries' = Append(entries, entry)
    BY <1>0, <1>2, <1>4, <2>3 DEF CompactionTypeOK
  <2>5. PICK added \in Seq(Entries) : added = <<entry>> /\ Len(added) = 1 /\ added[1] = entry
    <3>1. <<entry>> \in Seq(Entries) /\ Len(<<entry>>) = 1 /\ <<entry>>[1] = entry
      OBVIOUS
    <3> QED
      BY <3>1
  <2>6. entries' = entries \o added
    BY <2>4, <2>5
  <2>7. \A i \in 1 .. Len(added) : added[i].run = Last /\ added[i].kind # "user"
    BY <1>2, <2>3, <2>5
  <2>8. entries' \in Seq(Entries) /\ EntriesGrow /\ TranscriptInOrder'
    BY <1>0, <1>1, <2>2, <2>6, <2>7, OwnEntries
  <2> QED
    BY <1>1, <1>3, <2>1, <2>8, EndKeeps
<1>5. ASSUME entries' = entries \o <<[kind |-> "call", run |-> Last],
                                     [kind |-> "result", run |-> Last]>>,
             loop' = [[loop EXCEPT !.begun = TRUE] EXCEPT !.advanced = TRUE],
             phase' = "head", UNCHANGED <<runs, starters>>
      PROVE  CompactionInv'
  <2>1. PICK call \in Entries : call = [kind |-> "call", run |-> l]
    <3>1. [kind |-> "call", run |-> l] \in Entries
      BY DEF Entries
    <3> QED
      BY <3>1
  <2>2. PICK result \in Entries : result = [kind |-> "result", run |-> l]
    <3>1. [kind |-> "result", run |-> l] \in Entries
      BY DEF Entries
    <3> QED
      BY <3>1
  <2>3. PICK added \in Seq(Entries) :
          added = <<call, result>> /\ Len(added) = 2 /\ added[1] = call /\ added[2] = result
    <3>1. /\ <<call, result>> \in Seq(Entries) /\ Len(<<call, result>>) = 2
          /\ <<call, result>>[1] = call /\ <<call, result>>[2] = result
      OBVIOUS
    <3> QED
      BY <3>1
  <2>4. entries' = entries \o added
    BY <1>2, <1>5, <2>1, <2>2, <2>3
  <2>5. \A i \in 1 .. Len(added) : added[i].run = Last /\ added[i].kind # "user"
    <3> TAKE i \in 1 .. Len(added)
    <3>1. i = 1 \/ i = 2
      BY <2>3
    <3> QED
      BY <1>2, <2>1, <2>2, <2>3, <3>1
  <2>6. RunsGrow /\ ChainGrows /\ JobsMove /\ Len(runs') = Len(runs)
    BY <1>0, <1>1, <1>5, StillRows
  <2>7. entries' \in Seq(Entries) /\ EntriesGrow /\ TranscriptInOrder'
    BY <1>0, <1>1, <2>4, <2>5, <2>6, OwnEntries
  <2>8. loop' \in LoopType
    BY <1>0, <1>5 DEF CompactionTypeOK, LoopType
  <2>9. CompactionTypeOK'
    BY <1>0, <1>1, <1>5, <2>7, <2>8 DEF CompactionTypeOK, settings
  <2>10. ChainInOrder' /\ JobsAreValid' /\ OperationsAreValid' /\ AttemptsDiffer'
    BY <1>0, <1>1, <1>3, <2>6, <2>7, <2>9, ChainKept, JobsKept, OperationsKept, AttemptsKept
  <2>11. PlanHolds'
    BY <1>1, <1>5 DEF PlanHolds, HasActive, Last
  <2>12. TaskHasJob'
    BY <1>0, <1>1, <1>5 DEF TaskHasJob
  <2> QED
    BY <2>7, <2>9, <2>10, <2>11, <2>12 DEF CompactionInv
<1>6. ASSUME loop' = [[loop EXCEPT !.begun = TRUE] EXCEPT !.rejected = TRUE],
             phase' = "head", UNCHANGED <<entries, runs, starters>>
      PROVE  CompactionInv'
  <2>1. loop' \in LoopType
    BY <1>0, <1>6 DEF CompactionTypeOK, LoopType
  <2>2. CompactionTypeOK'
    BY <1>0, <1>1, <1>6, <2>1 DEF CompactionTypeOK, settings
  <2>3. /\ TranscriptInOrder' /\ ChainInOrder' /\ JobsAreValid'
        /\ OperationsAreValid' /\ AttemptsDiffer'
    BY <1>1, <1>6, <2>2, TablesStill
  <2>4. PlanHolds'
    BY <1>1, <1>6 DEF PlanHolds, HasActive, Last
  <2>5. TaskHasJob'
    BY <1>0, <1>1, <1>6 DEF TaskHasJob
  <2> QED
    BY <2>2, <2>3, <2>4, <2>5 DEF CompactionInv
<1>7. ASSUME EndRun("failed", <<entries>>)
      PROVE  CompactionInv'
  <2>1. /\ runs' = [runs EXCEPT ![Last].state = "failed"] /\ UNCHANGED entries
        /\ phase' = "idle" /\ loop' = NewLoop /\ starters' = starters \cup {Last}
    BY <1>7 DEF EndRun
  <2>2. RunsGrow /\ Len(runs') = Len(runs)
    BY <1>0, <1>1, <2>1, RunEnds
  <2>3. EntriesGrow /\ entries' \in Seq(Entries)
    BY <1>0, <2>1, StillRows DEF CompactionTypeOK
  <2>4. TranscriptInOrder'
    BY <1>0, <2>1, <2>2, TranscriptKept
  <2> QED
    BY <1>1, <1>3, <2>1, <2>3, <2>4, EndKeeps
<1> QED
  BY <1>4, <1>5, <1>6, <1>7 DEF ProviderTurn

--------------------------------------------------------------------------------
(* Foreground compaction. *)

\* What a complete operation compacted is covered.
LEMMA CompleteIsCovered ==
  ASSUME CompactionTypeOK, ChainInOrder, OperationsAreValid, NEW o \in 1 .. Len(operations),
         operations[o].state = "complete"
  PROVE  operations[o].source <= Covered(Len(checkpoints))
<1>1. PICK op \in OperationRows : op = operations[o]
  BY TableRows DEF RowsTyped
<1>2. /\ op.checkpoint \in 1 .. Len(checkpoints)
      /\ checkpoints[op.checkpoint] = [source |-> op.source, parent |-> op.parent]
  BY <1>1 DEF OperationsAreValid, OperationIsBound, OperationIsValid
<1>3. Covered(op.checkpoint) = op.source
  BY <1>2 DEF Covered
<1>4. Covered(op.checkpoint) <= Covered(Len(checkpoints))
  BY <1>2, LatestIsLast
<1> QED
  BY <1>1, <1>3, <1>4

\* The operation that a plan becomes.
Prepared(source, parent) ==
  [run |-> Last, parent |-> parent, source |-> source, high |-> through, state |-> "prepared",
   checkpoint |-> 0, sent |-> FALSE]

LEMMA PreparedIsValid ==
  ASSUME CompactionTypeOK, CompactionTypeOK', TranscriptInOrder, ChainInOrder,
         OperationsAreValid, HasActive, NEW source \in Nat, NEW parent \in Nat, parent = Len(checkpoints),
         CanCompact(Last), SourceAllowed(Last, source), Covered(parent) < source,
         operations' = Append(operations, Prepared(source, parent)),
         UNCHANGED <<entries, runs, checkpoints>>
  PROVE  OperationsAreValid'
<1>1. PICK k \in Nat : k = Len(operations)
  BY TableRows DEF RowsTyped
<1>2. PICK r \in Nat : r = Last /\ r \in 1 .. Len(runs)
  BY ActiveIsLast, TableRows DEF RowsTyped
<1>3. PICK n \in Nat : n = Len(entries)
  BY TableRows DEF RowsTyped
<1>4. PICK op \in OperationRows :
        op = [run |-> r, parent |-> parent, source |-> source, high |-> n, state |-> "prepared",
              checkpoint |-> 0, sent |-> FALSE]
  <2>1. [run |-> r, parent |-> parent, source |-> source, high |-> n, state |-> "prepared",
         checkpoint |-> 0, sent |-> FALSE] \in OperationRows
    BY DEF OperationRows
  <2> QED
    BY <2>1
<1>5. operations \in Seq(OperationRows) /\ operations' = Append(operations, op)
  BY <1>2, <1>3, <1>4 DEF CompactionTypeOK, Prepared, through
<1>6. /\ Len(operations') = k + 1 /\ operations'[k + 1] = op
      /\ \A o \in 1 .. k : operations'[o] = operations[o]
  BY <1>1, <1>5
<1>7. source # 0
  BY LatestIsLast
<1> DEFINE own == {o \in DOMAIN operations : operations[o].run = r}
           earlier == {p \in 1..k : operations'[p].run = r}
<1>8. own = {} \/ (Cardinality(own) < MaxCompactions /\ \A o \in own : operations[o].state = "complete")
  BY <1>2 DEF CanCompact
<1>9. DOMAIN operations = 1 .. k
  BY <1>1, TableRows DEF RowsTyped
<1>10. earlier = own
  BY <1>6, <1>9
<1>11. Cardinality(earlier) < MaxCompactions
  <2>1. 0 < MaxCompactions
    BY ThresholdsAssumption
  <2>2. Cardinality({}) = 0
    BY FS_EmptySet
  <2> HIDE DEF own, earlier
  <2>3. CASE own = {}
    BY <1>10, <2>1, <2>2, <2>3
  <2>4. CASE Cardinality(own) < MaxCompactions
    BY <1>10, <2>4
  <2> QED
    BY <1>8, <2>3, <2>4
<1>12. \A p \in earlier : operations'[p].source < source /\ operations'[p].state = "complete"
  <2> TAKE p \in earlier
  <2>1. p \in 1 .. k /\ operations'[p] = operations[p] /\ operations[p].state = "complete"
    BY <1>6, <1>8, <1>10
  <2>2. PICK row \in OperationRows : row = operations[p]
    BY <1>1, <2>1, TableRows DEF RowsTyped
  <2>3. row.source <= Covered(parent)
    BY <1>1, <2>1, <2>2, CompleteIsCovered
  <2>4. row.source \in Nat /\ Covered(parent) \in Nat
    BY <2>2, LatestIsLast DEF OperationRows
  <2>5. row.source < source
    BY <2>3, <2>4
  <2> QED
    BY <2>1, <2>2, <2>5
<1>13. OperationIsBound(k + 1)'
  BY <1>2, <1>3, <1>4, <1>6, <1>7 DEF OperationIsBound
<1>14. \/ source < runs[r].source
       \/ /\ source < n
          /\ entries[source] = [kind |-> "result", run |-> r]
          /\ CompleteCut(r, source)
  BY <1>2, <1>3 DEF SourceAllowed, through
<1>15. OperationIsValid(k + 1)'
  <2>1. (k + 1) - 1 = k
    OBVIOUS
  <2>2. /\ op.run = r /\ op.source = source /\ op.high = n /\ op.state = "prepared"
    BY <1>4
  <2>3. {p \in 1..((k + 1) - 1) : operations'[p].run = op.run} = earlier
    BY <2>1, <2>2
  <2>4. \/ op.source < runs'[op.run].source
        \/ /\ op.source < op.high
           /\ entries'[op.source] = [kind |-> "result", run |-> op.run]
           /\ CompleteCut(op.run, op.source)'
    BY <1>14, <2>2 DEF CompleteCut
  <2> HIDE DEF earlier
  <2> QED
    BY <1>6, <1>11, <1>12, <2>2, <2>3, <2>4 DEF OperationIsValid
<1>16. \A o \in 1 .. k : OperationIsBound(o)' /\ OperationIsValid(o)'
  <2> TAKE o \in 1 .. k
  <2>1. OperationIsBound(o) /\ OperationIsValid(o)
    BY <1>1 DEF OperationsAreValid
  <2>2. operations'[o] = operations[o]
    BY <1>6
  <2>3. OperationIsBound(o)'
    BY <2>1, <2>2 DEF OperationIsBound
  <2>4. {p \in 1..(o - 1) : operations'[p].run = operations[o].run} =
        {p \in 1..(o - 1) : operations[p].run = operations[o].run}
    BY <1>6
  <2>5. \A p \in 1 .. (o - 1) : operations'[p] = operations[p]
    BY <1>6
  <2>6. OperationIsValid(o)'
    <3>1. \A r2, cut : CompleteCut(r2, cut)' <=> CompleteCut(r2, cut)
      BY DEF CompleteCut
    <3>2. PICK row : row = operations[o]
      OBVIOUS
    <3>3. PICK before : before = {p \in 1..(o - 1) : operations[p].run = row.run}
      OBVIOUS
    <3>4. /\ operations'[o] = row
          /\ before = {p \in 1..(o - 1) : operations'[p].run = row.run}
          /\ \A p \in before : operations'[p] = operations[p]
      BY <2>2, <2>4, <2>5, <3>2, <3>3
    <3>5. /\ \/ row.source < runs[row.run].source
             \/ /\ row.source < row.high
                /\ entries[row.source] = [kind |-> "result", run |-> row.run]
                /\ CompleteCut(row.run, row.source)
          /\ Cardinality(before) < MaxCompactions
          /\ \A p \in before :
                operations[p].source < row.source /\ operations[p].state = "complete"
          /\ row.state = "complete" =>
               checkpoints[row.checkpoint] = [source |-> row.source, parent |-> row.parent]
      BY <2>1, <3>2, <3>3 DEF OperationIsValid
    <3>6. \A p \in before :
            operations'[p].source < row.source /\ operations'[p].state = "complete"
      BY <3>4, <3>5
    <3>7. CompleteCut(row.run, row.source) => CompleteCut(row.run, row.source)'
      BY <3>1
    <3> QED
      BY <3>4, <3>5, <3>6, <3>7 DEF OperationIsValid
  <2> QED
    BY <2>3, <2>6
<1>17. \A o \in 1 .. k + 1 : OperationIsBound(o)' /\ OperationIsValid(o)'
  <2> TAKE o \in 1 .. k + 1
  <2>1. CASE o = k + 1
    BY <1>13, <1>15, <2>1
  <2>2. CASE o # k + 1
    <3>1. o \in 1 .. k
      BY <2>2
    <3> QED
      BY <1>16, <3>1
  <2> QED
    BY <2>1, <2>2
<1> QED
  BY <1>6, <1>17 DEF OperationsAreValid

\* The operation that is prepared is the only attempt of its prefix that a user did not ask for.
LEMMA PreparedDiffers ==
  ASSUME CompactionTypeOK, OperationsAreValid, AttemptsDiffer, HasActive, NEW source \in Nat,
         NEW parent \in Nat, ~runs[Last].manual => ~PrefixBlocksForeground(source),
         operations' = Append(operations, Prepared(source, parent)),
         UNCHANGED <<entries, runs, jobs>>
  PROVE  AttemptsDiffer'
<1>1. PICK k \in Nat : k = Len(operations) /\ DOMAIN operations = 1 .. k
  BY TableRows DEF RowsTyped
<1>2. DOMAIN jobs = 1 .. Len(jobs)
  BY TableRows DEF RowsTyped
<1>3. PICK op : op = Prepared(source, parent) /\ op.run = Last /\ op.source = source
  BY DEF Prepared
<1>4. operations \in Seq(OperationRows) /\ op \in OperationRows
  <2>1. Last \in Nat /\ through \in Nat
    BY TableRows DEF RowsTyped, Last, through
  <2> QED
    BY <1>3, <2>1 DEF CompactionTypeOK, Prepared, OperationRows
<1>5. /\ Len(operations') = k + 1 /\ operations'[k + 1] = op
      /\ \A o \in 1 .. k : operations'[o] = operations[o]
  BY <1>1, <1>3, <1>4
<1>6. ~runs[Last].manual =>
        /\ \A j \in 1 .. Len(jobs) :
             jobs[j].source = source => jobs[j].state \in {"Failed", "Cancelled"}
        /\ \A o \in 1 .. k : operations[o].source # source
  BY <1>1, <1>2 DEF PrefixBlocksForeground
<1>7. \A o, p \in 1 .. k + 1 :
        /\ operations'[o].source = operations'[p].source
        /\ ~runs[operations'[o].run].manual /\ ~runs[operations'[p].run].manual
        => o = p
  <2> TAKE o, p \in 1 .. k + 1
  <2>1. CASE o = k + 1 /\ p = k + 1
    BY <2>1
  <2>2. CASE o = k + 1 /\ p # k + 1
    <3>1. p \in 1 .. k
      BY <2>2
    <3> QED
      BY <1>3, <1>5, <1>6, <2>2, <3>1
  <2>3. CASE o # k + 1 /\ p = k + 1
    <3>1. o \in 1 .. k
      BY <2>3
    <3> QED
      BY <1>3, <1>5, <1>6, <2>3, <3>1
  <2>4. CASE o # k + 1 /\ p # k + 1
    <3>1. o \in 1 .. k /\ p \in 1 .. k
      BY <2>4
    <3> QED
      BY <1>1, <1>5, <3>1 DEF AttemptsDiffer
  <2> QED
    BY <2>1, <2>2, <2>3, <2>4
<1>8. \A o \in 1 .. k + 1, j \in 1 .. Len(jobs) :
        operations'[o].source = jobs[j].source /\ ~runs[operations'[o].run].manual =>
          jobs[j].state \in {"Failed", "Cancelled"}
  <2> TAKE o \in 1 .. k + 1, j \in 1 .. Len(jobs)
  <2>1. CASE o = k + 1
    BY <1>3, <1>5, <1>6, <2>1
  <2>2. CASE o # k + 1
    <3>1. o \in 1 .. k
      BY <2>2
    <3> QED
      BY <1>1, <1>5, <3>1 DEF AttemptsDiffer
  <2> QED
    BY <2>1, <2>2
<1> QED
  BY <1>5, <1>7, <1>8 DEF AttemptsDiffer

LEMMA PrepareAutoCompactionStep ==
  ASSUME CompactionInv, PrepareAutoCompaction
  PROVE  CompactionInv'
<1>0. /\ CompactionTypeOK /\ TranscriptInOrder /\ ChainInOrder /\ JobsAreValid
      /\ OperationsAreValid /\ AttemptsDiffer /\ PlanHolds /\ TaskHasJob
  BY DEF CompactionInv
<1>1. /\ HasActive /\ phase = "prepare"
      /\ UNCHANGED <<entries, runs, checkpoints, jobs, archive, settings, enabled, starters,
                     task, holder, stopping, events>>
  BY DEF PrepareAutoCompaction
<1>2. PICK plan \in LoopType : plan = loop
  BY <1>0 DEF CompactionTypeOK
<1>3. /\ CanCompact(Last) /\ SourceAllowed(Last, plan.source)
      /\ plan.parent = Len(checkpoints) /\ Covered(plan.parent) < plan.source
      /\ ~runs[Last].manual => ~PrefixBlocksForeground(plan.source)
      /\ Dispatched = {}
  BY <1>0, <1>1, <1>2 DEF PlanHolds
<1>4. LatestParent = plan.parent
  BY <1>0, <1>3, LatestIsLast
<1>5. /\ operations' = Append(operations, Prepared(plan.source, plan.parent))
      /\ loop' = [plan EXCEPT !.advanced = FALSE]
      /\ phase' = "send" /\ UNCHANGED failed
  BY <1>2, <1>3, <1>4 DEF PrepareAutoCompaction, Prepared
<1>6. plan.source \in Nat /\ plan.parent \in Nat /\ loop' \in LoopType
  BY <1>2, <1>5 DEF LoopType
<1>p. PICK op : op = Prepared(plan.source, plan.parent)
  OBVIOUS
<1>7. /\ op.run = Last /\ op.source = plan.source /\ op.parent = plan.parent
      /\ op.state = "prepared"
  BY <1>p DEF Prepared
<1>8. op \in OperationRows
  <2>1. Last \in Nat /\ through \in Nat
    BY <1>0, TableRows DEF RowsTyped, Last, through
  <2> QED
    BY <1>6, <1>p, <2>1 DEF Prepared, OperationRows
<1>9. /\ operations' \in Seq(OperationRows) /\ Len(operations') = Len(operations) + 1
      /\ operations'[Len(operations')] = op /\ operations' # <<>>
  <2>1. operations \in Seq(OperationRows) /\ operations' = Append(operations, op)
    BY <1>0, <1>5, <1>p DEF CompactionTypeOK
  <2> QED
    BY <1>8, <2>1
<1>10. CompactionTypeOK'
  BY <1>0, <1>1, <1>5, <1>6, <1>9 DEF CompactionTypeOK, settings
<1>11. OperationsAreValid'
  BY <1>0, <1>1, <1>3, <1>5, <1>6, <1>10, PreparedIsValid
<1>12. AttemptsDiffer'
  BY <1>0, <1>1, <1>3, <1>5, <1>6, PreparedDiffers
<1>13. EntriesGrow /\ RunsGrow /\ ChainGrows /\ JobsMove /\ Len(runs') = Len(runs)
  BY <1>0, <1>1, StillRows
<1>14. TranscriptInOrder' /\ ChainInOrder'
  BY <1>0, <1>1, <1>13, TranscriptKept, ChainKept
<1>15. JobsAreValid'
  BY <1>0, <1>10, <1>13, <1>14, JobsKept
<1>16. PlanHolds'
  <2>1. Last' = Last /\ HasActive'
    BY <1>1 DEF Last, HasActive
  <2>2. Covered(op.parent)' < op.source
    BY <1>1, <1>3, <1>7 DEF Covered
  <2> QED
    BY <1>1, <1>3, <1>5, <1>7, <1>9, <2>1, <2>2 DEF PlanHolds, Covered
<1>17. TaskHasJob'
  BY <1>0, <1>1, <1>5 DEF TaskHasJob
<1> QED
  BY <1>10, <1>11, <1>12, <1>14, <1>15, <1>16, <1>17 DEF CompactionInv

\* The operation in flight moves.
LEMMA OperationChanges ==
  ASSUME CompactionTypeOK, NEW new \in OperationRows, operations # <<>>,
         LET op == operations[Len(operations)] IN
           /\ new.run = op.run /\ new.parent = op.parent /\ new.source = op.source
           /\ new.high = op.high /\ op.state # "complete",
         operations' = [operations EXCEPT ![Len(operations)] = new],
         new.state = "complete" => CompletionHolds(Len(operations))'
  PROVE  /\ operations' \in Seq(OperationRows) /\ Len(operations') = Len(operations)
         /\ operations'[Len(operations)] = new /\ operations' # <<>> /\ OperationsMove
<1>1. operations \in Seq(OperationRows)
  BY DEF CompactionTypeOK
<1>2. PICK o \in 1 .. Len(operations) : o = Len(operations)
  BY <1>1, EmptySeq
<1>3. operations' = [operations EXCEPT ![o] = new]
  BY <1>2
<1>4. LET s == [operations EXCEPT ![o] = new] IN
      /\ s \in Seq(OperationRows) /\ Len(s) = Len(operations)
      /\ \A p \in 1 .. Len(operations) : s[p] = IF p = o THEN new ELSE operations[p]
  BY <1>1, ExceptSeq
<1>5. /\ operations' \in Seq(OperationRows) /\ Len(operations') = Len(operations)
      /\ operations'[o] = new
      /\ \A p \in 1 .. Len(operations) : p # o => operations'[p] = operations[p]
  BY <1>3, <1>4
<1>6. operations' # <<>>
  BY <1>2, <1>5
<1>7. OperationMoves(o)
  <2>1. new.state = "complete" => CompletionHolds(o)'
    BY <1>2, <1>5 DEF CompletionHolds
  <2> QED
    BY <1>2, <1>5, <2>1 DEF OperationMoves
<1>8. \A p \in 1 .. Len(operations) : OperationMoves(p)
  <2> TAKE p \in 1 .. Len(operations)
  <2>1. CASE p = o
    BY <1>7, <2>1
  <2>2. CASE p # o
    BY <1>5, <2>2 DEF OperationMoves
  <2> QED
    BY <2>1, <2>2
<1> QED
  BY <1>2, <1>5, <1>6, <1>8 DEF OperationsMove

\* The operation in flight is the active run's.
LEMMA InFlight ==
  ASSUME CompactionTypeOK, PlanHolds, phase \in {"send", "reply"}
  PROVE  /\ operations # <<>> /\ Len(operations) \in 1 .. Len(operations)
         /\ operations[Len(operations)] \in OperationRows
         /\ operations[Len(operations)].run = Last
         /\ operations[Len(operations)].state \in {"prepared", "dispatched"}
         /\ operations[Len(operations)].parent = Len(checkpoints)
         /\ Covered(Len(checkpoints)) < operations[Len(operations)].source
<1>1. operations # <<>> /\ operations \in Seq(OperationRows)
  BY DEF PlanHolds, CompactionTypeOK
<1>2. Len(operations) \in 1 .. Len(operations)
  BY <1>1, EmptySeq
<1>3. operations[Len(operations)] \in OperationRows
  BY <1>2, TableRows DEF RowsTyped
<1> QED
  BY <1>1, <1>2, <1>3 DEF PlanHolds

LEMMA MarkCompactionDispatchedStep ==
  ASSUME CompactionInv, MarkCompactionDispatched
  PROVE  CompactionInv'
<1>0. /\ CompactionTypeOK /\ TranscriptInOrder /\ ChainInOrder /\ JobsAreValid
      /\ OperationsAreValid /\ AttemptsDiffer /\ PlanHolds /\ TaskHasJob
  BY DEF CompactionInv
<1>1. /\ HasActive /\ phase = "send" /\ phase' = "reply"
      /\ UNCHANGED <<entries, runs, checkpoints, jobs, archive, settings, enabled, loop, starters,
                     task, holder, stopping, failed, events>>
  BY DEF MarkCompactionDispatched
<1>2. PICK op \in OperationRows : op = operations[Len(operations)]
  BY <1>0, <1>1, InFlight
<1>3. PICK new : new = [op EXCEPT !.state = "dispatched", !.sent = TRUE]
  OBVIOUS
<1>4. /\ new \in OperationRows /\ new.run = op.run /\ new.parent = op.parent
      /\ new.source = op.source /\ new.high = op.high /\ new.state = "dispatched"
  BY <1>2, <1>3 DEF OperationRows
<1>5. PICK o \in 1 .. Len(operations) : o = Len(operations)
  BY <1>0, <1>1, InFlight
<1>6. operations \in Seq(OperationRows) /\ o \in DOMAIN operations
  BY <1>0, TableRows DEF RowsTyped, CompactionTypeOK
<1>7. operations' = [operations EXCEPT ![o] = new]
  <2>1. operations' = [operations EXCEPT ![o].state = "dispatched", ![o].sent = TRUE]
    BY <1>5 DEF MarkCompactionDispatched
  <2>2. op = operations[o]
    BY <1>2, <1>5
  <2> QED
    BY <1>3, <1>6, <2>1, <2>2
<1>8. /\ operations' \in Seq(OperationRows) /\ Len(operations') = Len(operations)
      /\ operations'[Len(operations)] = new /\ operations' # <<>> /\ OperationsMove
  BY <1>0, <1>1, <1>2, <1>4, <1>5, <1>7, InFlight, OperationChanges
<1>9. CompactionTypeOK'
  BY <1>0, <1>1, <1>8 DEF CompactionTypeOK, settings
<1>10. EntriesGrow /\ RunsGrow /\ ChainGrows /\ JobsMove /\ Len(runs') = Len(runs)
  BY <1>0, <1>1, StillRows
<1>11. TranscriptInOrder' /\ ChainInOrder'
  BY <1>0, <1>1, <1>10, TranscriptKept, ChainKept
<1>12. JobsAreValid' /\ OperationsAreValid' /\ AttemptsDiffer'
  BY <1>0, <1>8, <1>9, <1>10, <1>11, JobsKept, OperationsKept, AttemptsKept
<1>13. PlanHolds'
  <2>1. Last' = Last /\ HasActive'
    BY <1>1 DEF Last, HasActive
  <2>2. /\ new.run = Last' /\ new.parent = Len(checkpoints')
        /\ Covered(new.parent)' < new.source
    BY <1>0, <1>1, <1>2, <1>4, <2>1, InFlight DEF Covered
  <2> QED
    BY <1>1, <1>4, <1>8, <2>1, <2>2 DEF PlanHolds, Covered
<1>14. TaskHasJob'
  BY <1>0, <1>1 DEF TaskHasJob
<1> QED
  BY <1>9, <1>11, <1>12, <1>13, <1>14 DEF CompactionInv

LEMMA CompleteCompactionStep ==
  ASSUME CompactionInv, CompleteCompaction
  PROVE  CompactionInv'
<1>0. /\ CompactionTypeOK /\ TranscriptInOrder /\ ChainInOrder /\ JobsAreValid
      /\ OperationsAreValid /\ AttemptsDiffer /\ PlanHolds /\ TaskHasJob
  BY DEF CompactionInv
<1>1. /\ HasActive /\ phase = "reply" /\ phase' = "head"
      /\ loop' = [NewLoop EXCEPT !.begun = loop.begun]
      /\ UNCHANGED <<entries, runs, jobs, archive, settings, enabled, starters, task, holder,
                     stopping, failed, events>>
  BY DEF CompleteCompaction
<1>2. PICK op \in OperationRows : op = operations[Len(operations)]
  BY <1>0, <1>1, InFlight
<1>3. PICK n \in Nat : n = Len(checkpoints)
  BY <1>0, TableRows DEF RowsTyped
<1>4. /\ op.source \in Nat /\ op.parent = n /\ Covered(n) < op.source /\ op.state # "complete"
  BY <1>0, <1>1, <1>2, <1>3, InFlight DEF OperationRows
<1>5. checkpoints' = Append(checkpoints, [source |-> op.source, parent |-> n])
  BY <1>2, <1>4 DEF CompleteCompaction
<1>6. ChainInOrder' /\ ChainGrows
  BY <1>0, <1>3, <1>4, <1>5, ChainExtended
<1>7. /\ checkpoints' \in Seq(Checkpoints) /\ Len(checkpoints') = n + 1
      /\ checkpoints'[n + 1] = [source |-> op.source, parent |-> n]
  <2>1. [source |-> op.source, parent |-> n] \in Checkpoints
    BY <1>4 DEF Checkpoints
  <2>2. checkpoints \in Seq(Checkpoints)
    BY <1>0 DEF CompactionTypeOK
  <2> QED
    BY <1>3, <1>5, <2>1, <2>2
<1>8. PICK new : new = [op EXCEPT !.state = "complete", !.checkpoint = n + 1]
  OBVIOUS
<1>9. /\ new \in OperationRows /\ new.run = op.run /\ new.parent = op.parent
      /\ new.source = op.source /\ new.high = op.high /\ new.checkpoint = n + 1
  <2>1. n + 1 \in Nat
    OBVIOUS
  <2>2. new \in OperationRows
    BY <1>8, <2>1 DEF OperationRows
  <2> QED
    BY <1>8, <2>2 DEF OperationRows
<1>10. PICK o \in 1 .. Len(operations) : o = Len(operations)
  BY <1>0, <1>1, InFlight
<1>11. operations \in Seq(OperationRows) /\ o \in DOMAIN operations
  BY <1>0, TableRows DEF RowsTyped, CompactionTypeOK
<1>12. operations' = [operations EXCEPT ![o] = new]
  <2>1. operations' = [operations EXCEPT ![o].state = "complete", ![o].checkpoint = n + 1]
    BY <1>3, <1>10 DEF CompleteCompaction
  <2>2. op = operations[o]
    BY <1>2, <1>10
  <2> QED
    BY <1>8, <1>11, <2>1, <2>2
<1>13. CompletionHolds(o)'
  <2>1. operations'[o] = new
    BY <1>11, <1>12
  <2>2. n + 1 \in 1 .. Len(checkpoints')
    BY <1>3, <1>7
  <2> QED
    BY <1>4, <1>7, <1>9, <2>1, <2>2 DEF CompletionHolds
<1>14. /\ operations' \in Seq(OperationRows) /\ Len(operations') = Len(operations)
       /\ OperationsMove
  <2>1. CompletionHolds(Len(operations))'
    BY <1>10, <1>12, <1>13, <1>11, ExceptSeq DEF CompletionHolds
  <2> QED
    BY <1>0, <1>1, <1>2, <1>4, <1>9, <1>10, <1>12, <2>1, InFlight, OperationChanges
<1>15. loop' \in LoopType
  BY <1>0, <1>1 DEF CompactionTypeOK, LoopType, NewLoop
<1>16. CompactionTypeOK'
  BY <1>0, <1>1, <1>7, <1>14, <1>15 DEF CompactionTypeOK, settings
<1>17. EntriesGrow /\ RunsGrow /\ JobsMove /\ Len(runs') = Len(runs)
  BY <1>0, <1>1, StillRows
<1>18. TranscriptInOrder'
  BY <1>0, <1>1, <1>17, TranscriptKept
<1>19. JobsAreValid' /\ OperationsAreValid' /\ AttemptsDiffer'
  BY <1>0, <1>6, <1>14, <1>16, <1>17, <1>18, JobsKept, OperationsKept, AttemptsKept
<1>20. PlanHolds'
  BY <1>1 DEF PlanHolds, HasActive, Last
<1>21. TaskHasJob'
  BY <1>0, <1>1 DEF TaskHasJob
<1> QED
  BY <1>6, <1>16, <1>18, <1>19, <1>20, <1>21 DEF CompactionInv

LEMMA FailCompactionStep ==
  ASSUME CompactionInv, FailCompaction
  PROVE  CompactionInv'
<1>0. /\ CompactionTypeOK /\ TranscriptInOrder /\ ChainInOrder /\ JobsAreValid
      /\ OperationsAreValid /\ AttemptsDiffer /\ PlanHolds /\ TaskHasJob
  BY DEF CompactionInv
<1>1. /\ HasActive /\ phase \in {"send", "reply"} /\ phase' = "idle" /\ loop' = NewLoop
      /\ runs' = [runs EXCEPT ![Last].state = "failed"] /\ starters' = starters \cup {Last}
      /\ UNCHANGED <<entries, checkpoints, jobs, archive, settings, enabled, task, holder,
                     stopping, failed, events>>
  BY DEF FailCompaction, EndRun
<1>2. PICK state \in {"failed", "uncertain"} :
        operations' = [operations EXCEPT ![Len(operations)].state = state]
  BY DEF FailCompaction
<1>3. PICK op \in OperationRows : op = operations[Len(operations)] /\ op.state # "complete"
  BY <1>0, <1>1, InFlight
<1>4. PICK new : new = [op EXCEPT !.state = state]
  OBVIOUS
<1>5. /\ new \in OperationRows /\ new.run = op.run /\ new.parent = op.parent
      /\ new.source = op.source /\ new.high = op.high /\ new.state = state
  BY <1>3, <1>4 DEF OperationRows
<1>6. operations' = [operations EXCEPT ![Len(operations)] = new]
  BY <1>2, <1>3, <1>4
<1>7. operations' \in Seq(OperationRows) /\ OperationsMove
  BY <1>0, <1>1, <1>3, <1>5, <1>6, InFlight, OperationChanges
<1>8. RunsGrow /\ Len(runs') = Len(runs)
  BY <1>0, <1>1, RunEnds
<1>9. EntriesGrow /\ entries' \in Seq(Entries)
  BY <1>0, <1>1, StillRows DEF CompactionTypeOK
<1>10. TranscriptInOrder'
  BY <1>0, <1>1, <1>8, TranscriptKept
<1> QED
  BY <1>1, <1>7, <1>9, <1>10, EndKeeps

--------------------------------------------------------------------------------
(* The background task. *)

\* What a step of the background task or of a canceller keeps that gives no job away.
LEMMA QuietKeeps ==
  ASSUME CompactionInv, CompactionTypeOK', JobsMove, Dispatched' \subseteq Dispatched,
         TaskHasJob', UNCHANGED <<entries, runs, checkpoints, operations, phase, loop>>
  PROVE  CompactionInv'
<1>1. CompactionTypeOK /\ PlanHolds
  BY DEF CompactionInv
<1>2. PlanHolds'
  BY <1>1, PlanKept
<1>3. /\ TranscriptInOrder' /\ ChainInOrder' /\ JobsAreValid'
      /\ OperationsAreValid' /\ AttemptsDiffer'
  BY JobsOnly
<1> QED
  BY <1>2, <1>3 DEF CompactionInv

\* The same, when no job moves.
LEMMA StillKeeps ==
  ASSUME CompactionInv, CompactionTypeOK', TaskHasJob',
         UNCHANGED <<entries, runs, checkpoints, jobs, operations, phase, loop>>
  PROVE  CompactionInv'
<1>1. JobsMove
  BY StillRows DEF CompactionInv
<1>2. Dispatched' = Dispatched
  BY DEF Dispatched
<1> QED
  BY <1>1, <1>2, QuietKeeps

\* How the states of jobs change together.
StateMoves(from, to) ==
  /\ to \in Open => from \in Open
  /\ from \in {"Failed", "Cancelled"} => to \in {"Failed", "Cancelled"}
  /\ to = "Installed" => from = "Installed"

JobStates == Open \cup {"Failed", "Cancelled", "Uncertain", "Discarded", "Installed"}

LEMMA StatesChange ==
  ASSUME CompactionTypeOK, jobs' = [j \in DOMAIN jobs |-> jobs'[j]],
         \A j \in 1 .. Len(jobs) : \E state \in JobStates :
           jobs'[j] = [jobs[j] EXCEPT !.state = state] /\ StateMoves(jobs[j].state, state)
  PROVE  jobs' \in Seq(JobRows) /\ Len(jobs') = Len(jobs) /\ JobsMove
<1>1. PICK k \in Nat : k = Len(jobs) /\ DOMAIN jobs = 1 .. k
  BY TableRows DEF RowsTyped
<1>2. \A j \in 1 .. k : jobs'[j] \in JobRows /\ JobMoves(j)
  <2> TAKE j \in 1 .. k
  <2>1. PICK job \in JobRows : job = jobs[j]
    BY <1>1, TableRows DEF RowsTyped
  <2>2. PICK state \in JobStates :
          jobs'[j] = [job EXCEPT !.state = state] /\ StateMoves(job.state, state)
    BY <1>1, <2>1
  <2>3. PICK new : new = [job EXCEPT !.state = state]
    OBVIOUS
  <2>4. new \in JobRows
    BY <2>1, <2>3 DEF JobRows, JobStates, Open
  <2>5. /\ new.run = job.run /\ new.parent = job.parent /\ new.source = job.source
        /\ new.through = job.through /\ new.policy = job.policy
        /\ new.credential = job.credential /\ new.state = state
    BY <2>1, <2>3 DEF JobRows
  <2>6. job.state = state => new = job
    BY <2>1, <2>3 DEF JobRows
  <2>7. JobMoves(j)
    BY <2>1, <2>2, <2>3, <2>5, <2>6 DEF JobMoves, StateMoves
  <2> QED
    BY <2>2, <2>3, <2>4, <2>7
<1>3. jobs' \in [1 .. k -> JobRows]
  BY <1>1, <1>2
<1>4. jobs' \in Seq(JobRows) /\ Len(jobs') = k
  BY <1>3
<1> QED
  BY <1>1, <1>2, <1>4 DEF JobsMove

\* The open job is settled: nothing prepared or dispatched is left.
LEMMA MaintenanceFinished ==
  ASSUME CompactionTypeOK, NEW broken \in BOOLEAN, NEW discard \in BOOLEAN,
         FinishMaintenance(broken, discard)
  PROVE  jobs' \in Seq(JobRows) /\ Len(jobs') = Len(jobs) /\ JobsMove /\ Dispatched' = {}
<1>1. PICK k \in Nat : k = Len(jobs) /\ DOMAIN jobs = 1 .. k
  BY TableRows DEF RowsTyped
<1>2. \A j \in 1 .. k :
        jobs'[j] = IF j \in OpenJobs
                   THEN [jobs[j] EXCEPT !.state = Finished(j, broken, discard)] ELSE jobs[j]
  BY <1>1 DEF FinishMaintenance
<1>3. jobs' = [j \in DOMAIN jobs |-> jobs'[j]]
  BY <1>1, <1>2 DEF FinishMaintenance
<1>4. ASSUME NEW j \in 1 .. k
      PROVE  \E state \in JobStates :
               /\ jobs'[j] = [jobs[j] EXCEPT !.state = state]
               /\ StateMoves(jobs[j].state, state) /\ state # "Dispatched"
  <2>1. PICK job \in JobRows : job = jobs[j]
    BY <1>1, TableRows DEF RowsTyped
  <2>2. j \in OpenJobs <=> job.state \in Open
    BY <1>1, <2>1 DEF OpenJobs, Open
  <2>3. CASE job.state = "Prepared"
    <3>1. jobs'[j] = [jobs[j] EXCEPT !.state = IF broken THEN "Failed" ELSE "Cancelled"]
      BY <1>2, <2>1, <2>2, <2>3 DEF Finished, Open
    <3> QED
      BY <2>1, <2>3, <3>1 DEF StateMoves, JobStates, Open
  <2>4. CASE job.state = "Dispatched"
    <3>1. jobs'[j] = [jobs[j] EXCEPT !.state = "Uncertain"]
      BY <1>2, <2>1, <2>2, <2>4 DEF Finished, Open
    <3> QED
      BY <2>1, <2>4, <3>1 DEF StateMoves, JobStates, Open
  <2>5. CASE job.state = "Ready"
    <3>1. jobs'[j] = [jobs[j] EXCEPT !.state = IF discard THEN "Discarded" ELSE "Ready"]
      BY <1>2, <2>1, <2>2, <2>5 DEF Finished, Open
    <3> QED
      BY <2>1, <2>5, <3>1 DEF StateMoves, JobStates, Open
  <2>6. CASE job.state \notin Open
    <3>1. jobs'[j] = job
      BY <1>2, <2>1, <2>2, <2>6
    <3>2. job = [job EXCEPT !.state = job.state] /\ job.state \in JobStates
      BY DEF JobRows, JobStates
    <3> QED
      BY <2>1, <2>6, <3>1, <3>2 DEF StateMoves, Open
  <2> QED
    BY <2>3, <2>4, <2>5, <2>6 DEF Open
<1>5. /\ jobs' \in Seq(JobRows) /\ Len(jobs') = Len(jobs) /\ JobsMove
  BY <1>1, <1>3, <1>4, StatesChange
<1>6. DOMAIN jobs' = 1 .. k
  BY <1>1, <1>5, LenProperties
<1>7. \A j \in 1 .. k : jobs'[j].state # "Dispatched"
  <2> TAKE j \in 1 .. k
  <2>1. PICK job \in JobRows : job = jobs[j]
    BY <1>1, TableRows DEF RowsTyped
  <2>2. PICK state : jobs'[j] = [job EXCEPT !.state = state] /\ state # "Dispatched"
    BY <1>4, <2>1
  <2> QED
    BY <2>1, <2>2 DEF JobRows
<1> QED
  BY <1>5, <1>6, <1>7 DEF Dispatched

LEMMA MaybeStartStep ==
  ASSUME CompactionInv, NEW r, MaybeStart(r)
  PROVE  CompactionInv'
<1>0. CompactionTypeOK /\ TaskHasJob
  BY DEF CompactionInv
<1>1. /\ r \in starters /\ starters' = starters \ {r}
      /\ \/ task' = task
         \/ task' = [stage |-> "prepare", run |-> r, job |-> 0]
      /\ UNCHANGED <<entries, runs, checkpoints, jobs, operations, archive, settings, enabled,
                     phase, loop, holder, stopping, failed, events>>
  BY DEF MaybeStart, ledger
<1>2. r \in 1 .. Len(runs) /\ r \in Nat
  BY <1>0, <1>1, TableRows DEF RowsTyped, CompactionTypeOK
<1>3. CompactionTypeOK'
  BY <1>0, <1>1, <1>2 DEF CompactionTypeOK, settings
<1>4. TaskHasJob'
  <2>1. CASE task' = task
    BY <1>0, <1>1, <2>1 DEF TaskHasJob
  <2>2. CASE task' = [stage |-> "prepare", run |-> r, job |-> 0]
    BY <1>0, <1>1, <1>2, <2>2 DEF TaskHasJob
  <2> QED
    BY <1>1, <2>1, <2>2
<1> QED
  BY <1>1, <1>3, <1>4, StillKeeps

\* A prefix that the background task selects ends before a message of a user.
LEMMA MaintenanceSourceFits ==
  ASSUME CompactionTypeOK, TranscriptInOrder, ChainInOrder, NEW r \in 1 .. Len(runs),
         MaintenanceSource(r) # 0
  PROVE  LET source == MaintenanceSource(r) IN
         /\ source \in Nat /\ Covered(Len(checkpoints)) < source /\ source < runs[r].source
         /\ entries[source + 1].kind = "user" /\ ~PrefixWasAttempted(source)
         /\ runs[r].state = "succeeded" /\ MaintenanceIdle(r) /\ OpenJobs = {}
<1> DEFINE covered == Covered(LatestParent)
           accepted == {n \in 0..MaxEntries + 1 : ReadyBudget(n)}
           found == SelectPrefix(covered, runs[r].source, through, accepted)
<1>1. /\ MaintenanceSource(r) = found /\ found # 0
      /\ runs[r].state = "succeeded" /\ MaintenanceIdle(r) /\ OpenJobs = {}
      /\ ~PrefixWasAttempted(found)
  BY DEF MaintenanceSource
<1>2. covered = Covered(Len(checkpoints)) /\ covered \in Nat
  BY LatestIsLast
<1>3. /\ runs[r].source \in 1 .. Len(entries)
      /\ entries[runs[r].source] = [kind |-> "user", run |-> r]
  BY DEF TranscriptInOrder
<1> HIDE DEF covered, accepted
<1>4. /\ found \in Nat /\ covered < found /\ found < runs[r].source
      /\ found + 1 = runs[r].source \/ entries[found + 1].kind = "user"
  BY <1>1, <1>2, <1>3, PrefixSelected DEF through
<1> HIDE DEF found
<1>5. entries[found + 1].kind = "user"
  BY <1>3, <1>4
<1> QED
  BY <1>1, <1>2, <1>4, <1>5

\* A job is written after the last run, for a prefix that nobody attempted.
LEMMA JobPreparedStep ==
  ASSUME CompactionInv, task.stage = "prepare", MaintenanceSource(task.run) # 0,
         jobs' = Append(jobs, [run |-> task.run, parent |-> LatestParent,
                               source |-> MaintenanceSource(task.run), through |-> through,
                               policy |-> policy, credential |-> credential,
                               state |-> "Prepared", checkpoint |-> 0, receiver |-> 0]),
         task' = [task EXCEPT !.stage = "dispatch", !.job = Len(jobs) + 1],
         UNCHANGED <<entries, runs, checkpoints, operations, archive, settings, enabled, phase,
                     loop, starters, holder, stopping, failed, events>>
  PROVE  CompactionInv'
<1>0. /\ CompactionTypeOK /\ TranscriptInOrder /\ ChainInOrder /\ JobsAreValid
      /\ OperationsAreValid /\ AttemptsDiffer /\ PlanHolds /\ TaskHasJob
  BY DEF CompactionInv
<1>1. PICK r \in 1 .. Len(runs) : r = task.run
  BY <1>0 DEF TaskHasJob
<1>2. PICK source \in Nat :
        /\ source = MaintenanceSource(r) /\ Covered(Len(checkpoints)) < source
        /\ source < runs[r].source /\ entries[source + 1].kind = "user"
        /\ ~PrefixWasAttempted(source)
        /\ runs[r].state = "succeeded" /\ MaintenanceIdle(r) /\ OpenJobs = {}
  BY <1>0, <1>1, MaintenanceSourceFits
<1>3. PICK n \in Nat : n = Len(checkpoints) /\ n = LatestParent
  BY <1>0, LatestIsLast, TableRows DEF RowsTyped
<1>4. PICK k \in Nat : k = Len(jobs) /\ DOMAIN jobs = 1 .. k
  BY <1>0, TableRows DEF RowsTyped
<1>5. PICK high \in Nat : high = Len(entries) /\ high = through /\ DOMAIN entries = 1 .. high
  BY <1>0, TableRows DEF RowsTyped, through
<1>6. PICK job \in JobRows :
        job = [run |-> r, parent |-> n, source |-> source, through |-> high,
               policy |-> policy, credential |-> credential, state |-> "Prepared",
               checkpoint |-> 0, receiver |-> 0]
  <2>1. r \in Nat /\ policy \in Nat /\ credential \in Nat
    BY <1>0, TableRows DEF CompactionTypeOK, RowsTyped
  <2>2. [run |-> r, parent |-> n, source |-> source, through |-> high,
         policy |-> policy, credential |-> credential, state |-> "Prepared",
         checkpoint |-> 0, receiver |-> 0] \in JobRows
    BY <2>1 DEF JobRows, Open
  <2> QED
    BY <2>2
<1>7. /\ jobs' \in Seq(JobRows) /\ Len(jobs') = k + 1 /\ jobs'[k + 1] = job
      /\ \A j \in 1 .. k : jobs'[j] = jobs[j]
  <2>1. jobs \in Seq(JobRows) /\ jobs' = Append(jobs, job)
    BY <1>0, <1>1, <1>2, <1>3, <1>5, <1>6 DEF CompactionTypeOK
  <2> QED
    BY <1>4, <2>1
<1>8. /\ job.run = r /\ job.parent = n /\ job.source = source /\ job.through = high
      /\ job.state = "Prepared"
  BY <1>6
<1>9. /\ task'.stage = "dispatch" /\ task'.run = r /\ task'.job = k + 1
      /\ task' \in [stage : {"none", "prepare", "dispatch", "reply", "finish"}, run : Nat,
                    job : Nat]
  <2>1. task \in [stage : {"none", "prepare", "dispatch", "reply", "finish"}, run : Nat,
                  job : Nat]
    BY <1>0 DEF CompactionTypeOK
  <2>2. task' = [task EXCEPT !.stage = "dispatch", !.job = k + 1] /\ k + 1 \in Nat
    BY <1>4
  <2> QED
    BY <1>1, <2>1, <2>2
<1>10. CompactionTypeOK'
  BY <1>0, <1>7, <1>9 DEF CompactionTypeOK, settings
<1>11. EntriesGrow /\ RunsGrow /\ ChainGrows /\ OperationsMove /\ Len(runs') = Len(runs)
  BY <1>0, StillRows
<1>12. TranscriptInOrder' /\ ChainInOrder' /\ OperationsAreValid'
  BY <1>0, <1>10, <1>11, TranscriptKept, ChainKept, OperationsKept
<1>13. JobIsBound(k + 1)'
  BY <1>3, <1>5, <1>7, <1>8 DEF JobIsBound
<1>14. JobIsValid(k + 1)'
  <2>1. r = Len(runs)
    BY <1>2 DEF MaintenanceIdle, Last
  <2>2. \A q \in 1 .. Len(runs) : runs[q].source <= runs[r].source /\ runs[q].source \in 1 .. high
    <3> TAKE q \in 1 .. Len(runs)
    <3>1. runs[q].source \in 1 .. high /\ runs[r].source \in 1 .. high
      BY <1>0, <1>5 DEF TranscriptInOrder
    <3>2. q < r => runs[q].source < runs[r].source
      BY <1>0 DEF TranscriptInOrder
    <3>3. q < r \/ q = r
      BY <1>0, <2>1, TableRows DEF RowsTyped
    <3> QED
      BY <3>1, <3>2, <3>3
  <2>3. \A i \in 1 .. high : entries[i].kind = "user" => i \notin (runs[r].source + 1) .. high
    <3> TAKE i \in 1 .. high
    <3> HAVE entries[i].kind = "user"
    <3>1. PICK q \in 1 .. Len(runs) : i = runs[q].source
      BY <1>0, <1>5 DEF TranscriptInOrder
    <3> QED
      BY <2>2, <3>1
  <2>4. runs[r].source <= high /\ runs[r].state # "active"
    BY <1>2, <2>2
  <2>5. Covered(n)' < source
    BY <1>2, <1>3 DEF Covered
  <2>6. \A i \in 1 .. high : entries[i].run = r => i <= high
    BY <1>5
  <2> QED
    BY <1>2, <1>5, <1>7, <1>8, <2>3, <2>4, <2>5, <2>6 DEF JobIsValid, Covered
<1>15. \A j \in 1 .. k : (JobIsBound(j) /\ JobIsValid(j))' /\ jobs'[j].state \notin Open
  <2> TAKE j \in 1 .. k
  <2>1. JobIsBound(j) /\ JobIsValid(j)
    BY <1>0, <1>4 DEF JobsAreValid
  <2>2. jobs'[j] = jobs[j] /\ jobs[j].state \notin Open
    BY <1>2, <1>4, <1>7 DEF OpenJobs, Open
  <2>3. JobMoves(j)
    BY <2>2 DEF JobMoves
  <2>4. JobIsBound(j)' /\ JobIsValid(j)'
    BY <1>0, <1>4, <1>10, <1>11, <1>12, <2>1, <2>3, JobKept
  <2> QED
    BY <2>2, <2>4
<1>16. \A j \in 1 .. k + 1 : j \in 1 .. k \/ j = k + 1
  OBVIOUS
<1>17. JobsAreValid'
  <2>1. \A j \in 1 .. k + 1 : (JobIsBound(j) /\ JobIsValid(j))'
    BY <1>13, <1>14, <1>15, <1>16
  <2>2. \A i, j \in 1 .. k + 1 : jobs'[i].state \in Open /\ jobs'[j].state \in Open => i = j
    BY <1>15, <1>16
  <2> QED
    BY <1>7, <2>1, <2>2 DEF JobsAreValid
<1>18. AttemptsDiffer'
  <2>1. \A j \in 1 .. k : jobs[j].source # source
    BY <1>2, <1>4 DEF PrefixWasAttempted
  <2>2. \A o \in 1 .. Len(operations) : operations[o].source # source
    BY <1>0, <1>2, TableRows DEF PrefixWasAttempted, RowsTyped
  <2>3. \A i, j \in 1 .. k + 1 : jobs'[i].source = jobs'[j].source => i = j
    <3> TAKE i, j \in 1 .. k + 1
    <3> HAVE jobs'[i].source = jobs'[j].source
    <3>1. CASE i = k + 1 \/ j = k + 1
      BY <1>7, <1>8, <1>16, <2>1, <3>1
    <3>2. CASE i \in 1 .. k /\ j \in 1 .. k
      BY <1>0, <1>4, <1>7, <3>2 DEF AttemptsDiffer
    <3> QED
      BY <1>16, <3>1, <3>2
  <2>4. \A o \in 1 .. Len(operations), j \in 1 .. k + 1 :
          operations[o].source = jobs'[j].source /\ ~runs[operations[o].run].manual =>
            jobs'[j].state \in {"Failed", "Cancelled"}
    <3> TAKE o \in 1 .. Len(operations), j \in 1 .. k + 1
    <3>1. CASE j = k + 1
      BY <1>7, <1>8, <2>2, <3>1
    <3>2. CASE j \in 1 .. k
      BY <1>0, <1>4, <1>7, <3>2 DEF AttemptsDiffer
    <3> QED
      BY <1>16, <3>1, <3>2
  <2> QED
    BY <1>0, <1>7, <2>3, <2>4 DEF AttemptsDiffer
<1>19. PlanHolds'
  <2>1. phase = "idle" /\ ~HasActive
    BY <1>0, <1>2 DEF PlanHolds, MaintenanceIdle
  <2> QED
    BY <2>1 DEF PlanHolds, HasActive, Last
<1>20. TaskHasJob'
  <2>1. k + 1 \in 1 .. Len(jobs')
    BY <1>7
  <2> QED
    BY <1>0, <1>9, <2>1 DEF TaskHasJob
<1> QED
  BY <1>10, <1>12, <1>17, <1>18, <1>19, <1>20 DEF CompactionInv

TaskType ==
  [stage : {"none", "prepare", "dispatch", "reply", "finish"}, run : Nat, job : Nat]

\* The task goes to another stage; with a job only for what was dispatched.
LEMMA TaskAdvances ==
  ASSUME CompactionTypeOK, TaskHasJob, task.stage # "none", NEW stage \in {"reply", "finish"},
         task' = [task EXCEPT !.stage = stage], Len(jobs') = Len(jobs),
         stage = "reply" => task.stage = "dispatch" /\ jobs'[task.job].state = "Dispatched",
         UNCHANGED <<runs, holder, phase>>
  PROVE  task' \in TaskType /\ TaskHasJob'
<1>1. PICK old \in TaskType : old = task
  BY DEF CompactionTypeOK, TaskType
<1>2. task' \in TaskType /\ task'.stage = stage /\ task'.run = old.run /\ task'.job = old.job
  BY <1>1 DEF TaskType
<1> QED
  BY <1>1, <1>2 DEF TaskHasJob

LEMMA PrepareMaintenanceStep ==
  ASSUME CompactionInv, PrepareMaintenance
  PROVE  CompactionInv'
<1>0. CompactionTypeOK /\ TaskHasJob
  BY DEF CompactionInv
<1>1. /\ task.stage = "prepare"
      /\ UNCHANGED <<entries, runs, checkpoints, operations, archive, settings, enabled, phase,
                     loop, starters, holder, stopping, failed, events>>
  BY DEF PrepareMaintenance
<1>2. CASE task' = [task EXCEPT !.stage = "finish"] /\ UNCHANGED jobs
  <2>1. task' \in TaskType /\ TaskHasJob'
    BY <1>0, <1>1, <1>2, TaskAdvances
  <2>2. CompactionTypeOK'
    BY <1>0, <1>1, <1>2, <2>1 DEF CompactionTypeOK, settings, TaskType
  <2> QED
    BY <1>1, <1>2, <2>1, <2>2, StillKeeps
<1> QED
  BY <1>1, <1>2, JobPreparedStep DEF PrepareMaintenance

LEMMA DispatchMaintenanceStep ==
  ASSUME CompactionInv, DispatchMaintenance
  PROVE  CompactionInv'
<1>0. /\ CompactionTypeOK /\ TranscriptInOrder /\ ChainInOrder /\ JobsAreValid
      /\ OperationsAreValid /\ AttemptsDiffer /\ PlanHolds /\ TaskHasJob
  BY DEF CompactionInv
<1>1. /\ task.stage = "dispatch"
      /\ UNCHANGED <<entries, runs, checkpoints, operations, archive, settings, enabled, phase,
                     loop, starters, holder, stopping, events>>
  BY DEF DispatchMaintenance
<1>2. PICK j \in 1 .. Len(jobs) : j = task.job
  BY <1>0, <1>1 DEF TaskHasJob
<1>3. PICK job \in JobRows : job = jobs[j]
  BY <1>0, TableRows DEF RowsTyped
<1>4. CASE job.state # "Prepared"
  <2>1. UNCHANGED <<jobs, failed>> /\ task' = [task EXCEPT !.stage = "finish"]
    BY <1>2, <1>3, <1>4 DEF DispatchMaintenance
  <2>2. task' \in TaskType /\ TaskHasJob'
    BY <1>0, <1>1, <2>1, TaskAdvances
  <2>3. CompactionTypeOK'
    BY <1>0, <1>1, <2>1, <2>2 DEF CompactionTypeOK, settings, TaskType
  <2> QED
    BY <1>1, <2>1, <2>2, <2>3, StillKeeps
<1>5. CASE job.state = "Prepared"
  <2>1. \/ /\ Transition(j, "Dispatched") /\ task' = [task EXCEPT !.stage = "reply"]
           /\ ~HasActive
        \/ Transition(j, "Cancelled") /\ task' = [task EXCEPT !.stage = "finish"]
    BY <1>2, <1>3, <1>5 DEF DispatchMaintenance, MaintenanceIdle
  <2>2. PICK target \in {"Dispatched", "Cancelled"} :
          /\ Transition(j, target)
          /\ task' = [task EXCEPT !.stage = IF target = "Dispatched" THEN "reply" ELSE "finish"]
          /\ target = "Dispatched" => ~HasActive
    BY <2>1
  <2>3. jobs' = [jobs EXCEPT ![j].state = target] /\ UNCHANGED failed
    BY <1>3, <1>5, <2>2 DEF Transition, Permits
  <2>4. PICK new : new = [job EXCEPT !.state = target]
    OBVIOUS
  <2>5. /\ new \in JobRows /\ new.state = target
        /\ new.run = job.run /\ new.parent = job.parent /\ new.source = job.source
        /\ new.through = job.through /\ new.policy = job.policy
        /\ new.credential = job.credential
    BY <1>3, <2>4 DEF JobRows, Open
  <2>6. jobs' = [jobs EXCEPT ![j] = new]
    BY <1>3, <2>3, <2>4
  <2>7. /\ jobs' \in Seq(JobRows) /\ Len(jobs') = Len(jobs) /\ jobs'[j] = new
        /\ \A i \in 1 .. Len(jobs) : i # j => jobs'[i] = jobs[i]
        /\ JobsMove
    BY <1>0, <1>3, <1>5, <2>5, <2>6, JobChanges DEF Open
  <2>8. task' \in TaskType /\ TaskHasJob'
    BY <1>0, <1>1, <1>2, <2>2, <2>5, <2>7, TaskAdvances
  <2>9. CompactionTypeOK'
    BY <1>0, <1>1, <2>3, <2>7, <2>8 DEF CompactionTypeOK, settings, TaskType
  <2>10. /\ TranscriptInOrder' /\ ChainInOrder' /\ JobsAreValid'
         /\ OperationsAreValid' /\ AttemptsDiffer'
    BY <1>1, <2>7, <2>9, JobsOnly
  <2>11. PlanHolds'
    <3>1. CASE target = "Dispatched"
      <4>1. phase = "idle" /\ ~HasActive
        BY <1>0, <2>2, <3>1 DEF PlanHolds
      <4> QED
        BY <1>1, <4>1 DEF PlanHolds, HasActive, Last
    <3>2. CASE target = "Cancelled"
      <4>1. DOMAIN jobs = 1 .. Len(jobs) /\ DOMAIN jobs' = 1 .. Len(jobs)
        BY <1>0, <2>7, <2>9, TableRows, TableRowsNext DEF RowsTyped
      <4>2. Dispatched' \subseteq Dispatched
        BY <2>5, <2>7, <3>2, <4>1 DEF Dispatched
      <4> QED
        BY <1>0, <1>1, <2>7, <2>9, <4>2, PlanKept
    <3> QED
      BY <3>1, <3>2
  <2> QED
    BY <2>8, <2>9, <2>10, <2>11 DEF CompactionInv
<1> QED
  BY <1>4, <1>5

LEMMA CompleteMaintenanceStep ==
  ASSUME CompactionInv, CompleteMaintenance
  PROVE  CompactionInv'
<1>0. CompactionTypeOK /\ TaskHasJob
  BY DEF CompactionInv
<1>1. /\ task.stage = "reply" /\ task' = [task EXCEPT !.stage = "finish"]
      /\ UNCHANGED <<entries, runs, checkpoints, operations, archive, settings, enabled, phase,
                     loop, starters, holder, stopping, events>>
  BY DEF CompleteMaintenance
<1>2. PICK j \in 1 .. Len(jobs) : j = task.job
  BY <1>0, <1>1 DEF TaskHasJob
<1>3. PICK job \in JobRows : job = jobs[j] /\ job.state = "Dispatched"
  BY <1>0, <1>1, <1>2, TableRows DEF RowsTyped, TaskHasJob
<1>4. PICK state \in {"Ready", "Uncertain"} : Transition(j, state)
  BY <1>2 DEF CompleteMaintenance
<1>5. jobs' = [jobs EXCEPT ![j].state = state] /\ UNCHANGED failed
  BY <1>3, <1>4 DEF Transition, Permits
<1>6. PICK new : new = [job EXCEPT !.state = state]
  OBVIOUS
<1>7. /\ new \in JobRows /\ new.state = state
      /\ new.run = job.run /\ new.parent = job.parent /\ new.source = job.source
      /\ new.through = job.through /\ new.policy = job.policy
      /\ new.credential = job.credential
  BY <1>3, <1>6 DEF JobRows, Open
<1>8. jobs' = [jobs EXCEPT ![j] = new]
  BY <1>3, <1>5, <1>6
<1>9. /\ jobs' \in Seq(JobRows) /\ Len(jobs') = Len(jobs) /\ jobs'[j] = new
      /\ \A i \in 1 .. Len(jobs) : i # j => jobs'[i] = jobs[i]
      /\ JobsMove
  BY <1>0, <1>3, <1>7, <1>8, JobChanges DEF Open
<1>10. task' \in TaskType /\ TaskHasJob'
  BY <1>0, <1>1, <1>9, TaskAdvances
<1>11. CompactionTypeOK'
  BY <1>0, <1>1, <1>5, <1>9, <1>10 DEF CompactionTypeOK, settings, TaskType
<1>12. Dispatched' \subseteq Dispatched
  <2>1. DOMAIN jobs = 1 .. Len(jobs) /\ DOMAIN jobs' = 1 .. Len(jobs)
    BY <1>0, <1>9, <1>11, TableRows, TableRowsNext DEF RowsTyped
  <2> QED
    BY <1>7, <1>9, <2>1 DEF Dispatched
<1> QED
  BY <1>1, <1>9, <1>10, <1>11, <1>12, QuietKeeps

LEMMA BuildFailsStep ==
  ASSUME CompactionInv, BuildFails
  PROVE  CompactionInv'
<1>0. CompactionTypeOK /\ TaskHasJob
  BY DEF CompactionInv
<1>1. /\ task.stage = "dispatch" /\ task' = [task EXCEPT !.stage = "finish"]
      /\ FinishMaintenance(TRUE, FALSE)
      /\ UNCHANGED <<entries, runs, checkpoints, operations, archive, settings, enabled, phase,
                     loop, starters, holder, stopping, failed, events>>
  BY DEF BuildFails
<1>2. jobs' \in Seq(JobRows) /\ Len(jobs') = Len(jobs) /\ JobsMove /\ Dispatched' = {}
  BY <1>0, <1>1, MaintenanceFinished
<1>3. task' \in TaskType /\ TaskHasJob'
  BY <1>0, <1>1, <1>2, TaskAdvances
<1>4. CompactionTypeOK'
  BY <1>0, <1>1, <1>2, <1>3 DEF CompactionTypeOK, settings, TaskType
<1> QED
  BY <1>1, <1>2, <1>3, <1>4, QuietKeeps

LEMMA TaskStopsStep ==
  ASSUME CompactionInv, TaskStops
  PROVE  CompactionInv'
<1>0. CompactionTypeOK /\ TaskHasJob
  BY DEF CompactionInv
<1>1. /\ task.stage # "none" /\ task' = [task EXCEPT !.stage = "finish"]
      /\ UNCHANGED <<entries, runs, checkpoints, jobs, operations, archive, settings, enabled,
                     phase, loop, starters, holder, stopping, failed, events>>
  BY DEF TaskStops, ledger
<1>2. task' \in TaskType /\ TaskHasJob'
  BY <1>0, <1>1, TaskAdvances
<1>3. CompactionTypeOK'
  BY <1>0, <1>1, <1>2 DEF CompactionTypeOK, settings, TaskType
<1> QED
  BY <1>1, <1>2, <1>3, StillKeeps

\* The task is gone.
LEMMA NoTaskIsFine ==
  ASSUME TaskHasJob, task' = NoTask, UNCHANGED <<holder, phase>>
  PROVE  task' \in TaskType /\ TaskHasJob'
BY DEF NoTask, TaskHasJob, TaskType

LEMMA TaskFinishesStep ==
  ASSUME CompactionInv, TaskFinishes
  PROVE  CompactionInv'
<1>0. CompactionTypeOK /\ TaskHasJob
  BY DEF CompactionInv
<1>1. /\ task' = NoTask /\ FinishMaintenance(FALSE, FALSE)
      /\ UNCHANGED <<entries, runs, checkpoints, operations, archive, settings, enabled, phase,
                     loop, starters, holder, stopping, failed, events>>
  BY DEF TaskFinishes
<1>2. jobs' \in Seq(JobRows) /\ JobsMove /\ Dispatched' = {}
  BY <1>0, <1>1, MaintenanceFinished
<1>3. task' \in TaskType /\ TaskHasJob'
  BY <1>0, <1>1, NoTaskIsFine
<1>4. CompactionTypeOK'
  BY <1>0, <1>1, <1>2, <1>3 DEF CompactionTypeOK, settings, TaskType
<1> QED
  BY <1>1, <1>2, <1>3, <1>4, QuietKeeps

--------------------------------------------------------------------------------
(* Cancelling it, the settings and a restart. *)

LEMMA BeginCancelStep ==
  ASSUME CompactionInv, NEW who \in {"head", "plan", "archive", "shutdown"}, BeginCancel(who)
  PROVE  CompactionInv'
<1>0. CompactionTypeOK /\ TaskHasJob
  BY DEF CompactionInv
<1>1. /\ Wants(who) /\ holder' = [who |-> who, stage |-> "drain"]
      /\ UNCHANGED <<entries, runs, checkpoints, jobs, operations, archive, settings, enabled,
                     phase, loop, starters, task, stopping, failed, events>>
  BY DEF BeginCancel, ledger
<1>2. (who = "head" => phase = "cancelHead") /\ (who = "plan" => phase = "cancelPlan")
  BY <1>1 DEF Wants
<1>3. CompactionTypeOK'
  BY <1>0, <1>1 DEF CompactionTypeOK, settings
<1>4. TaskHasJob'
  BY <1>0, <1>1, <1>2 DEF TaskHasJob
<1> QED
  BY <1>1, <1>3, <1>4, StillKeeps

LEMMA AbortTaskStep ==
  ASSUME CompactionInv, AbortTask
  PROVE  CompactionInv'
<1>0. CompactionTypeOK /\ TaskHasJob
  BY DEF CompactionInv
<1>1. /\ task' = NoTask
      /\ UNCHANGED <<entries, runs, checkpoints, jobs, operations, archive, settings, enabled,
                     phase, loop, starters, holder, stopping, failed, events>>
  BY DEF AbortTask, ledger
<1>2. task' \in TaskType /\ TaskHasJob'
  BY <1>0, <1>1, NoTaskIsFine
<1>3. CompactionTypeOK'
  BY <1>0, <1>1, <1>2 DEF CompactionTypeOK, settings, TaskType
<1> QED
  BY <1>1, <1>2, <1>3, StillKeeps

\* The canceller has drained the task, settles the job and goes on: a plan still holds.
LEMMA EndCancelStep ==
  ASSUME CompactionInv, EndCancel
  PROVE  CompactionInv'
<1>0. /\ CompactionTypeOK /\ TranscriptInOrder /\ ChainInOrder /\ JobsAreValid
      /\ OperationsAreValid /\ AttemptsDiffer /\ PlanHolds /\ TaskHasJob
  BY DEF CompactionInv
<1>1. /\ task = NoTask /\ FinishMaintenance(FALSE, TRUE)
      /\ holder' = IF holder.who = "shutdown" THEN [holder EXCEPT !.stage = "done"] ELSE NoHolder
      /\ archive' = IF holder.who = "archive" THEN "done" ELSE archive
      /\ UNCHANGED <<entries, runs, checkpoints, operations, settings, enabled, loop, starters,
                     task, stopping, failed, events>>
  BY DEF EndCancel, Drained
<1>2. /\ jobs' \in Seq(JobRows) /\ Len(jobs') = Len(jobs) /\ JobsMove /\ Dispatched' = {}
  BY <1>0, <1>1, MaintenanceFinished
<1>3. \/ holder.who = "head" /\ phase = "cancelHead" /\ phase' = "load"
      \/ holder.who = "plan" /\ phase = "cancelPlan" /\ phase' = "prepare"
      \/ holder.who \notin {"head", "plan"} /\ phase' = phase
  BY <1>0 DEF EndCancel, TaskHasJob
<1>4. /\ holder' \in [who : {"none", "head", "plan", "archive", "shutdown"},
                      stage : {"free", "drain", "done"}]
      /\ holder'.who \notin {"head", "plan"}
  BY <1>0, <1>1 DEF CompactionTypeOK, NoHolder
<1>5. CompactionTypeOK'
  <2>1. phase' \in {"idle", "head", "cancelHead", "load", "cancelPlan", "prepare", "send",
                    "reply", "turn"}
    BY <1>0, <1>3 DEF CompactionTypeOK
  <2>2. archive' \in {"open", "prepared", "done"}
    BY <1>0, <1>1 DEF CompactionTypeOK
  <2> QED
    BY <1>0, <1>1, <1>2, <1>4, <2>1, <2>2 DEF CompactionTypeOK, settings
<1>6. /\ TranscriptInOrder' /\ ChainInOrder' /\ JobsAreValid'
      /\ OperationsAreValid' /\ AttemptsDiffer'
  BY <1>1, <1>2, <1>5, JobsOnly
<1>7. TaskHasJob'
  BY <1>1, <1>4 DEF TaskHasJob, NoTask
<1>8. PlanHolds'
  <2>1. CASE holder.who = "head" /\ phase = "cancelHead" /\ phase' = "load"
    BY <1>0, <1>1, <2>1 DEF PlanHolds, HasActive, Last
  <2>2. CASE holder.who = "plan" /\ phase = "cancelPlan" /\ phase' = "prepare"
    <3>1. OperationsMove
      BY <1>0, <1>1, StillRows
    <3>2. Last' = Last /\ HasActive' /\ HasActive
      BY <1>0, <1>1, <2>2 DEF Last, HasActive, PlanHolds
    <3>3. PICK source : source = loop.source
      OBVIOUS
    <3>4. /\ CanCompact(Last) /\ SourceAllowed(Last, loop.source)
          /\ loop.parent = Len(checkpoints) /\ Covered(loop.parent) < loop.source
          /\ ~runs[Last].manual => ~PrefixBlocksForeground(source)
      BY <1>0, <2>2, <3>3 DEF PlanHolds
    <3>5. /\ CanCompact(Last)' /\ SourceAllowed(Last, loop.source)'
          /\ loop'.parent = Len(checkpoints') /\ Covered(loop.parent)' < loop'.source
      BY <1>1, <3>2, <3>4 DEF CanCompact, SourceAllowed, CompleteCut, Covered, through
    <3>6. ~PrefixBlocksForeground(source) => ~PrefixBlocksForeground(source)'
      BY <1>0, <1>2, <1>5, <3>1, PrefixStaysFree
    <3>7. ~runs'[Last'].manual => ~PrefixBlocksForeground(loop.source)'
      BY <1>1, <3>2, <3>3, <3>4, <3>6 DEF PrefixBlocksForeground
    <3> QED
      BY <1>2, <2>2, <3>2, <3>5, <3>7 DEF PlanHolds
  <2>3. CASE phase' = phase
    <3>1. Dispatched' \subseteq Dispatched
      BY <1>2
    <3> QED
      BY <1>0, <1>1, <1>2, <1>5, <2>3, <3>1, PlanKept
  <2> QED
    BY <1>3, <2>1, <2>2, <2>3
<1> QED
  BY <1>5, <1>6, <1>7, <1>8 DEF CompactionInv

\* The archive and the settings leave the tables and the task alone.
LEMMA SettingsStep ==
  ASSUME CompactionInv, PrepareArchive \/ Unarchive \/ ChangeSettings
  PROVE  CompactionInv'
<1>0. CompactionTypeOK /\ TaskHasJob
  BY DEF CompactionInv
<1>1. UNCHANGED <<entries, runs, checkpoints, jobs, operations, memory>>
  BY DEF PrepareArchive, Unarchive, ChangeSettings, ledger
<1>2. credential' \in Nat /\ policy' \in Nat
  <2>1. credential' \in {credential, credential + 1} /\ policy' \in {policy, policy + 1}
    BY DEF PrepareArchive, Unarchive, ChangeSettings, settings
  <2>2. credential \in Nat /\ policy \in Nat
    BY <1>0 DEF CompactionTypeOK
  <2> QED
    BY <2>1, <2>2
<1>3. archive' \in {"open", "prepared", "done"}
  BY <1>0 DEF PrepareArchive, Unarchive, ChangeSettings, CompactionTypeOK, ledger
<1>4. events' \in Nat
  BY <1>0 DEF PrepareArchive, Unarchive, ChangeSettings, CompactionTypeOK, CountEvent
<1>5. CompactionTypeOK'
  BY <1>0, <1>1, <1>2, <1>3, <1>4 DEF CompactionTypeOK, memory
<1>6. TaskHasJob'
  BY <1>0, <1>1 DEF TaskHasJob, memory
<1> QED
  BY <1>1, <1>5, <1>6, StillKeeps DEF memory

LEMMA BeginShutdownStep ==
  ASSUME CompactionInv, BeginShutdown
  PROVE  CompactionInv'
<1>0. CompactionTypeOK /\ TaskHasJob
  BY DEF CompactionInv
<1>1. /\ stopping' = TRUE /\ enabled' = FALSE /\ events' = events + 1
      /\ jobs' = [j \in DOMAIN jobs |-> [jobs[j] EXCEPT !.state = Disabled(@)]]
      /\ UNCHANGED <<entries, runs, checkpoints, operations, archive, settings, phase, loop,
                     starters, task, holder, failed>>
  BY DEF BeginShutdown, CountEvent
<1>2. PICK k \in Nat : k = Len(jobs) /\ DOMAIN jobs = 1 .. k
  BY <1>0, TableRows DEF RowsTyped
<1>3. \A j \in 1 .. k : jobs'[j] = [jobs[j] EXCEPT !.state = Disabled(jobs[j].state)]
  BY <1>1, <1>2
<1>4. jobs' = [j \in DOMAIN jobs |-> jobs'[j]]
  BY <1>1
<1>5. \A state \in JobStates :
        /\ Disabled(state) \in JobStates /\ StateMoves(state, Disabled(state))
        /\ Disabled(state) = "Dispatched" <=> state = "Dispatched"
  BY DEF Disabled, JobStates, StateMoves, Open
<1>6. ASSUME NEW j \in 1 .. k
      PROVE  /\ jobs[j].state \in JobStates
             /\ jobs'[j].state = Disabled(jobs[j].state)
             /\ \E state \in JobStates : /\ jobs'[j] = [jobs[j] EXCEPT !.state = state]
                                         /\ StateMoves(jobs[j].state, state)
  <2>1. PICK job \in JobRows : job = jobs[j] /\ job.state \in JobStates
    BY <1>0, <1>2, TableRows DEF RowsTyped, JobRows, JobStates
  <2>2. PICK state \in JobStates : state = Disabled(job.state) /\ StateMoves(job.state, state)
    BY <1>5, <2>1
  <2>3. jobs'[j] = [job EXCEPT !.state = state]
    BY <1>3, <2>1, <2>2
  <2>4. jobs'[j].state = state
    BY <2>1, <2>3 DEF JobRows
  <2> QED
    BY <2>1, <2>2, <2>3, <2>4
<1>7. jobs' \in Seq(JobRows) /\ Len(jobs') = Len(jobs) /\ JobsMove
  BY <1>0, <1>2, <1>4, <1>6, StatesChange
<1>8. CompactionTypeOK'
  <2>1. enabled' \in BOOLEAN /\ stopping' \in BOOLEAN
    BY <1>1
  <2>2. events' \in Nat
    BY <1>0, <1>1 DEF CompactionTypeOK
  <2> QED
    BY <1>0, <1>1, <1>7, <2>1, <2>2 DEF CompactionTypeOK, settings
<1>9. Dispatched' \subseteq Dispatched
  <2>1. DOMAIN jobs' = 1 .. k
    BY <1>1, <1>2
  <2> QED
    BY <1>2, <1>5, <1>6, <2>1 DEF Dispatched
<1>10. TaskHasJob'
  <2>1. task.stage = "reply" => jobs'[task.job].state = "Dispatched"
    BY <1>0, <1>2, <1>5, <1>6 DEF TaskHasJob
  <2> QED
    BY <1>0, <1>1, <1>7, <2>1 DEF TaskHasJob
<1> QED
  BY <1>1, <1>7, <1>8, <1>9, <1>10, QuietKeeps

\* A restart ends the run that was active.
LEMMA RestartRuns ==
  ASSUME CompactionTypeOK, TranscriptInOrder,
         runs' = [r \in DOMAIN runs |-> [runs[r] EXCEPT !.state =
                    IF @ = "active" THEN "failed" ELSE @]]
  PROVE  runs' \in Seq(RunRows) /\ Len(runs') = Len(runs) /\ RunsGrow /\ ~HasActive'
<1>1. PICK m \in Nat : m = Len(runs) /\ DOMAIN runs = 1 .. m
  BY TableRows DEF RowsTyped
<1>2. \A r \in 1 .. m :
        /\ runs'[r] \in RunRows /\ runs'[r].source = runs[r].source
        /\ runs'[r].manual = runs[r].manual /\ runs'[r].credential = runs[r].credential
        /\ runs'[r].state # "active"
  <2> TAKE r \in 1 .. m
  <2>1. PICK run \in RunRows : run = runs[r]
    BY <1>1, TableRows DEF RowsTyped
  <2>2. PICK state \in {"succeeded", "failed"} : state = IF run.state = "active" THEN "failed" ELSE run.state
    BY DEF RunRows
  <2>3. runs'[r] = [run EXCEPT !.state = state]
    BY <1>1, <2>1, <2>2
  <2> QED
    BY <2>1, <2>3 DEF RunRows
<1>3. runs' \in [1 .. m -> RunRows]
  BY <1>1, <1>2
<1>4. runs' \in Seq(RunRows) /\ Len(runs') = m
  BY <1>3
<1>5. RunsGrow
  BY <1>1, <1>2, <1>4 DEF RunsGrow
<1>6. ~HasActive'
  BY <1>2, <1>4 DEF HasActive, Last
<1> QED
  BY <1>1, <1>4, <1>5, <1>6

\* And settles the operation in flight.
LEMMA RestartOperations ==
  ASSUME CompactionTypeOK,
         operations' = [o \in DOMAIN operations |-> [operations[o] EXCEPT !.state = Settled(@)]]
  PROVE  operations' \in Seq(OperationRows) /\ OperationsMove
<1>1. PICK k \in Nat : k = Len(operations) /\ DOMAIN operations = 1 .. k
  BY TableRows DEF RowsTyped
<1>2. \A o \in 1 .. k : operations'[o] \in OperationRows /\ OperationMoves(o)
  <2> TAKE o \in 1 .. k
  <2>1. PICK op \in OperationRows : op = operations[o]
    BY <1>1, TableRows DEF RowsTyped
  <2>2. PICK state : state = Settled(op.state)
    OBVIOUS
  <2>3. /\ state \in {"failed", "uncertain", "complete"}
        /\ state = "complete" <=> op.state = "complete"
    BY <2>2 DEF Settled, OperationRows
  <2>4. operations'[o] = [op EXCEPT !.state = state]
    BY <1>1, <2>1, <2>2
  <2>5. /\ operations'[o] \in OperationRows /\ operations'[o].state = state
        /\ operations'[o].run = op.run /\ operations'[o].parent = op.parent
        /\ operations'[o].source = op.source /\ operations'[o].high = op.high
        /\ op.state = state => operations'[o] = op
    BY <2>3, <2>4 DEF OperationRows
  <2> QED
    BY <2>1, <2>3, <2>5 DEF OperationMoves
<1>3. operations' \in [1 .. k -> OperationRows]
  BY <1>1, <1>2
<1>4. operations' \in Seq(OperationRows) /\ Len(operations') = k
  BY <1>3
<1> QED
  BY <1>1, <1>2, <1>4 DEF OperationsMove

\* And every job that is open, but for a summary that still fits.
LEMMA RestartJobs ==
  ASSUME CompactionTypeOK, NEW on \in BOOLEAN,
         jobs' = [j \in DOMAIN jobs |-> Recovered(jobs[j], on)]
  PROVE  jobs' \in Seq(JobRows) /\ JobsMove
<1>1. PICK k \in Nat : k = Len(jobs) /\ DOMAIN jobs = 1 .. k
  BY TableRows DEF RowsTyped
<1>2. jobs' = [j \in DOMAIN jobs |-> jobs'[j]]
  OBVIOUS
<1>3. ASSUME NEW j \in 1 .. k
      PROVE  \E state \in JobStates : /\ jobs'[j] = [jobs[j] EXCEPT !.state = state]
                                      /\ StateMoves(jobs[j].state, state)
  <2>1. PICK job \in JobRows : job = jobs[j] /\ job.state \in JobStates
    BY <1>1, TableRows DEF RowsTyped, JobRows, JobStates
  <2> DEFINE kept == CASE job.state = "Prepared" -> "Cancelled"
                       [] job.state = "Dispatched" -> "Uncertain"
                       [] job.state = "Ready" ->
                            IF \/ archive # "open" \/ policy # job.policy
                               \/ credential # job.credential \/ LatestParent # job.parent
                            THEN "Discarded" ELSE "Ready"
                       [] OTHER -> job.state
             state == IF on THEN kept ELSE Disabled(kept)
  <2>2. jobs'[j] = [job EXCEPT !.state = state]
    BY <1>1, <2>1 DEF Recovered
  <2>3. kept \in JobStates /\ StateMoves(job.state, kept)
    BY <2>1 DEF JobStates, StateMoves, Open
  <2> HIDE DEF kept
  <2>4. state \in JobStates /\ StateMoves(job.state, state)
    BY <2>3 DEF Disabled, JobStates, StateMoves, Open
  <2> QED
    BY <2>1, <2>2, <2>4
<1> QED
  BY <1>1, <1>2, <1>3, StatesChange

LEMMA RestartStep ==
  ASSUME CompactionInv, NEW on \in BOOLEAN, Restart(on)
  PROVE  CompactionInv'
<1>0. /\ CompactionTypeOK /\ TranscriptInOrder /\ ChainInOrder /\ JobsAreValid
      /\ OperationsAreValid /\ AttemptsDiffer /\ PlanHolds /\ TaskHasJob
  BY DEF CompactionInv
<1>1. /\ enabled' = on /\ phase' = "idle" /\ loop' = NewLoop /\ starters' = {} /\ task' = NoTask
      /\ holder' = NoHolder /\ stopping' = FALSE /\ failed' = FALSE /\ events' = events + 1
      /\ archive' = IF archive = "prepared" THEN "done" ELSE archive
      /\ UNCHANGED <<entries, checkpoints, settings>>
  BY DEF Restart, CountEvent
<1>2. runs' \in Seq(RunRows) /\ Len(runs') = Len(runs) /\ RunsGrow /\ ~HasActive'
  BY <1>0, RestartRuns DEF Restart
<1>3. operations' \in Seq(OperationRows) /\ OperationsMove
  BY <1>0, RestartOperations DEF Restart
<1>4. jobs' \in Seq(JobRows) /\ JobsMove
  BY <1>0, RestartJobs DEF Restart
<1>5. CompactionTypeOK'
  <2>1. /\ loop' \in LoopType /\ task' \in TaskType
        /\ holder' \in [who : {"none", "head", "plan", "archive", "shutdown"},
                        stage : {"free", "drain", "done"}]
    BY <1>1 DEF NewLoop, LoopType, NoTask, TaskType, NoHolder
  <2>2. archive' \in {"open", "prepared", "done"} /\ events' \in Nat
    BY <1>0, <1>1 DEF CompactionTypeOK
  <2>3. enabled' \in BOOLEAN /\ stopping' \in BOOLEAN /\ failed' = FALSE
    BY <1>1
  <2> QED
    BY <1>0, <1>1, <1>2, <1>3, <1>4, <2>1, <2>2, <2>3 DEF CompactionTypeOK, settings, TaskType
<1>6. EntriesGrow /\ ChainGrows
  BY <1>0, <1>1, StillRows
<1>7. TranscriptInOrder' /\ ChainInOrder'
  BY <1>0, <1>1, <1>2, TranscriptKept, ChainKept
<1>8. JobsAreValid' /\ OperationsAreValid' /\ AttemptsDiffer'
  BY <1>0, <1>2, <1>3, <1>4, <1>5, <1>6, <1>7, JobsKept, OperationsKept, AttemptsKept
<1>9. PlanHolds'
  BY <1>1, <1>2 DEF PlanHolds
<1>10. TaskHasJob'
  BY <1>1 DEF TaskHasJob, NoTask, NoHolder
<1> QED
  BY <1>5, <1>7, <1>8, <1>9, <1>10 DEF CompactionInv

--------------------------------------------------------------------------------
(* The theorems. *)

LEMMA InvInit == Init => CompactionInv
<1> SUFFICES ASSUME Init PROVE CompactionInv
  OBVIOUS
<1>1. /\ entries = <<>> /\ runs = <<>> /\ checkpoints = <<>> /\ jobs = <<>> /\ operations = <<>>
      /\ credential = 0 /\ policy = 0 /\ archive = "open" /\ enabled = TRUE
      /\ phase = "idle" /\ loop = NewLoop /\ starters = {} /\ task = NoTask /\ holder = NoHolder
      /\ stopping = FALSE /\ failed = FALSE /\ events = 0
  BY DEF Init
<1>2. /\ Len(entries) = 0 /\ Len(runs) = 0 /\ Len(checkpoints) = 0 /\ Len(jobs) = 0
      /\ Len(operations) = 0
  BY <1>1, EmptySeq
<1>3. CompactionTypeOK
  <2>1. /\ entries \in Seq(Entries) /\ runs \in Seq(RunRows) /\ checkpoints \in Seq(Checkpoints)
        /\ jobs \in Seq(JobRows) /\ operations \in Seq(OperationRows)
    BY <1>1, EmptySeq
  <2>2. /\ loop \in LoopType /\ task \in TaskType
        /\ holder \in [who : {"none", "head", "plan", "archive", "shutdown"},
                       stage : {"free", "drain", "done"}]
    BY <1>1 DEF NewLoop, LoopType, NoTask, TaskType, NoHolder
  <2> QED
    BY <1>1, <2>1, <2>2 DEF CompactionTypeOK, TaskType
<1>4. TranscriptInOrder /\ ChainInOrder /\ JobsAreValid /\ OperationsAreValid /\ AttemptsDiffer
  BY <1>2 DEF TranscriptInOrder, ChainInOrder, JobsAreValid, OperationsAreValid, AttemptsDiffer
<1>5. PlanHolds /\ TaskHasJob
  BY <1>1, <1>2 DEF PlanHolds, TaskHasJob, HasActive, Last, NoTask, NoHolder
<1> QED
  BY <1>3, <1>4, <1>5 DEF CompactionInv

LEMMA StillInv ==
  ASSUME CompactionInv, UNCHANGED vars
  PROVE  CompactionInv'
<1>1. UNCHANGED <<entries, runs, checkpoints, jobs, operations, phase, loop, task, holder>>
  BY DEF vars, ledger, memory
<1>2. CompactionTypeOK'
  BY DEF CompactionInv, CompactionTypeOK, vars, ledger, settings, memory
<1>3. TaskHasJob'
  BY <1>1 DEF CompactionInv, TaskHasJob
<1> QED
  BY <1>1, <1>2, <1>3, StillKeeps

LEMMA InvNext == CompactionInv /\ [Next]_vars => CompactionInv'
<1> SUFFICES ASSUME CompactionInv, [Next]_vars PROVE CompactionInv'
  OBVIOUS
<1>1. CASE UNCHANGED vars
  BY <1>1, StillInv
<1>2. ASSUME NEW manual \in BOOLEAN, AcceptRun(manual) PROVE CompactionInv'
  BY <1>2, AcceptRunStep
<1>3. CASE StopRun \/ MaintenanceBoundary \/ LoadRunContext \/ ProviderTurn
  BY <1>3, StopRunStep, MaintenanceBoundaryStep, LoadRunContextStep, ProviderTurnStep
<1>4. CASE PrepareAutoCompaction \/ MarkCompactionDispatched \/ CompleteCompaction \/ FailCompaction
  BY <1>4, PrepareAutoCompactionStep, MarkCompactionDispatchedStep, CompleteCompactionStep,
     FailCompactionStep
<1>5. ASSUME NEW r \in 1 .. MaxRuns, MaybeStart(r) PROVE CompactionInv'
  BY <1>5, MaybeStartStep
<1>6. CASE PrepareMaintenance \/ DispatchMaintenance \/ CompleteMaintenance \/ BuildFails
  BY <1>6, PrepareMaintenanceStep, DispatchMaintenanceStep, CompleteMaintenanceStep,
     BuildFailsStep
<1>7. CASE TaskStops \/ TaskFinishes \/ AbortTask \/ EndCancel
  BY <1>7, TaskStopsStep, TaskFinishesStep, AbortTaskStep, EndCancelStep
<1>8. ASSUME NEW who \in {"head", "plan", "archive", "shutdown"}, BeginCancel(who)
      PROVE  CompactionInv'
  BY <1>8, BeginCancelStep
<1>9. CASE PrepareArchive \/ Unarchive \/ ChangeSettings \/ BeginShutdown
  BY <1>9, SettingsStep, BeginShutdownStep
<1>10. ASSUME NEW on \in BOOLEAN, Restart(on) PROVE CompactionInv'
  BY <1>10, RestartStep
<1> QED
  BY <1>1, <1>2, <1>3, <1>4, <1>5, <1>6, <1>7, <1>8, <1>9, <1>10 DEF Next

--------------------------------------------------------------------------------
(* Theorems. *)

\* Whatever the interleaving of the runs, the background task and its cancellers, and wherever
\* the server crashes, the state is one that the invariant describes.
THEOREM CompactionTheorem == Spec => []CompactionInv
BY InvInit, InvNext, PTL DEF Spec

\* The jobs that are open are at most one.
LEMMA OpenJobIsOne ==
  ASSUME CompactionInv
  PROVE  OneOpenJob
<1>1. DOMAIN jobs = 1 .. Len(jobs)
  BY TableRows DEF CompactionInv, RowsTyped
<1>2. \A i, j \in OpenJobs : i = j
  BY <1>1 DEF CompactionInv, JobsAreValid, OpenJobs, Open
<1>3. CASE OpenJobs = {}
  BY <1>3, FS_EmptySet DEF OneOpenJob
<1>4. CASE OpenJobs # {}
  <2>1. PICK j : j \in OpenJobs
    BY <1>4
  <2>2. OpenJobs = {j}
    BY <1>2, <2>1
  <2>3. Cardinality({j}) = 1
    BY FS_Singleton
  <2> QED
    BY <2>2, <2>3 DEF OneOpenJob
<1> QED
  BY <1>3, <1>4

\* Each checkpoint covers more than its parent.
LEMMA ChainIsValid ==
  ASSUME CompactionInv
  PROVE  CheckpointsAreAChain
<1>1. /\ DOMAIN checkpoints = 1 .. Len(checkpoints) /\ Len(checkpoints) \in Nat
      /\ \A c \in 1 .. Len(checkpoints) : checkpoints[c].source \in Nat
  BY TableRows DEF CompactionInv, RowsTyped, Checkpoints
<1>2. SUFFICES ASSUME NEW c \in 1 .. Len(checkpoints)
               PROVE  /\ checkpoints[c].parent = c - 1
                      /\ Covered(checkpoints[c].parent) < checkpoints[c].source
  BY <1>1 DEF CheckpointsAreAChain
<1>3. checkpoints[c].parent = c - 1 /\ checkpoints[c].source # 0 /\ checkpoints[c].source \in Nat
  BY <1>1, <1>2 DEF CompactionInv, ChainInOrder
<1>4. CASE c = 1
  BY <1>3, <1>4 DEF Covered
<1>5. CASE c # 1
  <2>1. c - 1 \in 1 .. Len(checkpoints) /\ c - 1 < c /\ c - 1 # 0
    BY <1>1, <1>2, <1>5
  <2>2. checkpoints[c - 1].source < checkpoints[c].source
    BY <1>2, <2>1 DEF CompactionInv, ChainInOrder
  <2> QED
    BY <1>3, <2>1, <2>2 DEF Covered
<1> QED
  BY <1>4, <1>5

\* The next start accepts the records in every state a crash can leave
\* (validate_maintenance_records, validate_operations, validate_compaction_facts).
THEOREM RecordsTheorem == Spec => []RecordsAreValid
<1>1. CompactionInv => RecordsAreValid
  <2> SUFFICES ASSUME CompactionInv PROVE RecordsAreValid
    OBVIOUS
  <2>1. DOMAIN jobs = 1 .. Len(jobs) /\ DOMAIN operations = 1 .. Len(operations)
    BY TableRows DEF CompactionInv, RowsTyped
  <2>2. \A j \in DOMAIN jobs : JobIsValid(j)
    BY <2>1 DEF CompactionInv, JobsAreValid
  <2>3. \A o \in DOMAIN operations : OperationIsValid(o)
    BY <2>1 DEF CompactionInv, OperationsAreValid
  <2> QED
    BY <2>2, <2>3, OpenJobIsOne, ChainIsValid DEF RecordsAreValid
<1> QED
  BY <1>1, CompactionTheorem, PTL

\* No persistence call of the background task, of a canceller or of a run's compaction is
\* refused, which MaintenanceSupervisor::fatal and RunSupervisor::start_run answer by stopping.
THEOREM NeverStopsTheorem == Spec => []CompactionNeverStopsServer
<1>1. CompactionInv => CompactionNeverStopsServer
  BY DEF CompactionInv, CompactionTypeOK, CompactionNeverStopsServer
<1> QED
  BY <1>1, CompactionTheorem, PTL

\* What has at most one member counts at most one.
LEMMA AtMostOne ==
  ASSUME NEW S, \A x, y \in S : x = y
  PROVE  \/ S = {} /\ Cardinality(S) = 0
         \/ S # {} /\ Cardinality(S) = 1
<1>1. CASE S = {}
  BY <1>1, FS_EmptySet
<1>2. CASE S # {}
  <2>1. PICK x : x \in S
    BY <1>2
  <2>2. S = {x}
    BY <2>1
  <2>3. Cardinality({x}) = 1
    BY FS_Singleton
  <2> QED
    BY <1>2, <2>2, <2>3
<1> QED
  BY <1>1, <1>2

\* A prefix is sent by one attempt that no user asked for, a job of the background task or an
\* operation of a run, through failures, restarts and their race (prefix_blocks_foreground,
\* the checks of prepare_maintenance).
THEOREM SentOnceTheorem == Spec => []PrefixIsSentOnce
<1> DEFINE SentJobs(source) ==
             {j \in {k \in DOMAIN jobs : jobs[k].state \notin {"Prepared", "Failed", "Cancelled"}} :
                jobs[j].source = source}
           SentOperations(source) ==
             {o \in {p \in DOMAIN operations :
                       operations[p].sent /\ ~runs[operations[p].run].manual} :
                operations[o].source = source}
<1>1. ASSUME CompactionInv, NEW source \in 1 .. through
      PROVE  Cardinality(SentJobs(source)) + Cardinality(SentOperations(source)) <= 1
  <2>1. DOMAIN jobs = 1 .. Len(jobs) /\ DOMAIN operations = 1 .. Len(operations)
    BY <1>1, TableRows DEF CompactionInv, RowsTyped
  <2>2. AttemptsDiffer
    BY <1>1 DEF CompactionInv
  <2>3. \A i, j \in SentJobs(source) : i = j
    BY <2>1, <2>2 DEF AttemptsDiffer
  <2>4. \A o, p \in SentOperations(source) : o = p
    BY <2>1, <2>2 DEF AttemptsDiffer
  <2>5. SentJobs(source) = {} \/ SentOperations(source) = {}
    BY <2>1, <2>2 DEF AttemptsDiffer
  <2> HIDE DEF SentJobs, SentOperations
  <2>6. \/ SentJobs(source) = {} /\ Cardinality(SentJobs(source)) = 0
        \/ SentJobs(source) # {} /\ Cardinality(SentJobs(source)) = 1
    BY <2>3, AtMostOne
  <2>7. \/ SentOperations(source) = {} /\ Cardinality(SentOperations(source)) = 0
        \/ SentOperations(source) # {} /\ Cardinality(SentOperations(source)) = 1
    BY <2>4, AtMostOne
  <2> QED
    BY <2>5, <2>6, <2>7
<1>2. CompactionInv => PrefixIsSentOnce
  BY <1>1 DEF PrefixIsSentOnce
<1> QED
  BY <1>2, CompactionTheorem, PTL
=============================================================================

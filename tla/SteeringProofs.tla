---------------------------- MODULE SteeringProofs ----------------------------
(***************************************************************************)
(* Theorems about Steering, for any number of runs, requests, copies of a  *)
(* request, archive requests and starts, and any capacity: the queue is    *)
(* rebuildable in every state a crash can leave, and a repeated request is *)
(* answered with the receipt of its mutation.                              *)
(***************************************************************************)
EXTENDS Steering, FiniteSetTheorems, SequenceTheorems, WellFoundedInduction, TLAPS

Changes == {"enqueue", "edit", "remove", "pause", "resume"}

RunRows == [kind : {"accepted", "cancelled", "ended"}, run : Runs]

ArchiveRows == [kind : {"archive"}, request : Archives, flag : BOOLEAN]

MutationRowType ==
  [kind : {"mutation"}, request : Requests, change : Changes, run : Runs \cup {NoRun},
   item : Requests \cup {"none"}, itemRevision : Nat, revision : Nat]

PauseRowType ==
  [kind : {"pause"}, reason : {"cancellation", "terminal", "archive", "recovery"},
   run : Runs, revision : Nat, source : Nat]

HistoryRows == RunRows \cup ArchiveRows \cup MutationRowType \cup PauseRowType

MutationType ==
  [change : Changes, expected : Nat, run : Runs \cup {NoRun},
   item : Requests \cup {"none"}, itemRevision : Nat]

PendingRows == [slot : 1 .. Capacity, enqueued : Nat, revision : Nat, text : Requests]

SteeringTypeOK ==
  /\ history \in Seq(HistoryRows)
  /\ queue \in [revision : Nat, target : Runs \cup {NoRun}, paused : BOOLEAN]
  /\ pending \in [DOMAIN pending -> PendingRows] /\ DOMAIN pending \subseteq Requests
  /\ mutation \in [Requests -> MutationType \cup {NoMutation}]
  /\ handler \in [Requests \X Copies -> {"none", "preparing", "answered", "lost"}]
  /\ answer \in [Requests \X Copies -> Int]

\* What the rows are about: an enqueue writes the item of its request, a text change
\* of an item follows its enqueue, a run is targeted by a change that names it, and
\* a pause knows its source.
RowsAreOwned ==
  /\ \A i \in MutationRows :
       LET row == history[i]
       IN /\ row.change = "enqueue" => row.item = row.request
          /\ row.change \in TargetChanges => row.run \in Runs
          /\ row.change \notin ItemChanges => row.item = "none"
          /\ row.item \in Requests => \E j \in MutationRows : j <= i /\ history[j].request = row.item
                                              /\ history[j].change = "enqueue"
  /\ \A i \in RowsOf("pause") : history[i].reason # "recovery" => history[i].source \in 1 .. i - 1

\* A request is applied at most once.
AppliedOnce ==
  \A i, j \in MutationRows : history[i].request = history[j].request => i = j

\* The queue is what the rows say, and its revision is that of the latest of them.
QueueIsCurrent ==
  /\ queue.target = TargetBefore(Now)
  /\ queue.paused = ~UnpausedBefore(Now)
  /\ SteeringRows = {} => queue.revision = 0
  /\ SteeringRows # {} => history[LatestBefore(SteeringRows, Now)].revision = queue.revision
  /\ \A i \in SteeringRows : history[i].revision \in 1 .. queue.revision
  /\ queue.revision > 0 => queue.target \in Runs

RowsWith(change) == {i \in MutationRows : history[i].change = change}

\* The pending messages are what the rows say, but for their slots.
PendingIsCurrent ==
  /\ DOMAIN pending = RebuiltItems
  /\ \A i \in DOMAIN pending :
       /\ pending[i].enqueued = EnqueuedAt(i)
       /\ pending[i].revision = history[LatestOfItem(i)].itemRevision
       /\ pending[i].text = history[LatestOfItem(i)].request
  /\ \A i, j \in DOMAIN pending : pending[i].slot = pending[j].slot => i = j
  /\ Cardinality(RowsWith("enqueue")) - Cardinality(RowsWith("remove")) = Cardinality(DOMAIN pending)

SteeringInv ==
  /\ SteeringTypeOK /\ RowsAreOwned /\ AppliedOnce
  /\ HistoryIsValid /\ QueueIsCurrent /\ PendingIsCurrent

--------------------------------------------------------------------------------
(* Operators of the model. *)

\* A nonempty set of bounded numbers has a greatest element, and Max is it.
LEMMA MaxIsGreatest ==
  ASSUME NEW N \in Nat, NEW S \in SUBSET (0 .. N), S # {}
  PROVE  Max(S) \in S /\ \A n \in S : n <= Max(S)
<1> DEFINE T == {N - n : n \in S}
<1>2. \A n \in S : N - n \in T
  OBVIOUS
<1>3. \A k \in T : \E n \in S : k = N - n
  OBVIOUS
<1>1. T \subseteq Nat /\ T # {}
  <2>1. \A n \in S : N - n \in Nat
    OBVIOUS
  <2> HIDE DEF T
  <2> QED
    BY <1>2, <1>3, <2>1
<1> HIDE DEF T
<1>4. PICK x \in T : \A y \in T : ~(<<y, x>> \in OpToRel(<, Nat))
  BY <1>1, WFMin, NatLessThanWellFounded
<1>5. PICK m \in S : x = N - m
  BY <1>3
<1>6. ASSUME NEW n \in S PROVE n <= m
  <2>1. N - n \in T /\ N - n \in Nat /\ x \in Nat
    BY <1>1, <1>2
  <2>2. ~(N - n < x)
    BY <1>4, <2>1 DEF OpToRel
  <2> QED
    BY <1>5, <2>1, <2>2
<1>7. \A n \in S : m >= n
  BY <1>6
<1>8. \E k \in S : \A n \in S : k >= n
  BY <1>7
<1> QED
  BY <1>8 DEF Max

LEMMA MinIsLeast ==
  ASSUME NEW S \in SUBSET Nat, S # {}
  PROVE  Min(S) \in S /\ \A n \in S : Min(S) <= n
<1>1. PICK m \in S : \A n \in S : ~(<<n, m>> \in OpToRel(<, Nat))
  BY WFMin, NatLessThanWellFounded
<1>2. \A n \in S : m <= n
  <2> TAKE n \in S
  <2>1. ~(n < m)
    BY <1>1 DEF OpToRel
  <2> QED
    BY <2>1
<1> QED
  BY <1>2 DEF Min

\* The latest of the numbers before n, or 0 if there is none.
LEMMA LatestIsLatest ==
  ASSUME NEW S \in SUBSET (Nat \ {0}), NEW n \in Nat
  PROVE  LET l == LatestBefore(S, n)
         IN  /\ l \in Nat
             /\ l # 0 => l \in S /\ l < n
             /\ \A i \in S : i < n => i <= l
<1> DEFINE T == {i \in S : i < n} \cup {0}
<1>1. \A k \in T : k \in 0 .. n
  OBVIOUS
<1>2. LatestBefore(S, n) = Max(T)
  BY DEF LatestBefore
<1>3. 0 \in T /\ \A i \in S : i < n => i \in T
  OBVIOUS
<1>4. \A k \in T : k = 0 \/ (k \in S /\ k < n)
  OBVIOUS
<1> HIDE DEF T
<1>5. T \in SUBSET (0 .. n) /\ T # {}
  BY <1>1, <1>3
<1>6. Max(T) \in T /\ \A k \in T : k <= Max(T)
  BY <1>5, MaxIsGreatest
<1> PICK l : l = LatestBefore(S, n)
  OBVIOUS
<1>7. l \in T /\ \A k \in T : k <= l
  BY <1>2, <1>6
<1>8. l \in Nat
  BY <1>1, <1>7
<1>9. l # 0 => l \in S /\ l < n
  BY <1>4, <1>7
<1>10. \A i \in S : i < n => i <= l
  BY <1>3, <1>7
<1> QED
  BY <1>8, <1>9, <1>10

\* It only depends on the numbers before n.
LEMMA LatestOfSame ==
  ASSUME NEW S, NEW T, NEW n \in Int, NEW m \in Int,
         {i \in S : i < n} = {i \in T : i < m}
  PROVE  LatestBefore(S, n) = LatestBefore(T, m)
BY DEF LatestBefore

\* It is k if k is one of them and none lies between k and n.
LEMMA LatestIs ==
  ASSUME NEW S \in SUBSET (Nat \ {0}), NEW n \in Nat, NEW k \in S, k < n,
         \A i \in S : i < n => i <= k
  PROVE  LatestBefore(S, n) = k
<1> PICK l : l = LatestBefore(S, n)
  OBVIOUS
<1>1. l \in Nat /\ (l # 0 => l \in S /\ l < n) /\ \A i \in S : i < n => i <= l
  BY LatestIsLatest
<1>2. k <= l /\ k \in Nat \ {0}
  BY <1>1
<1>3. l <= k
  BY <1>1, <1>2
<1> QED
  BY <1>1, <1>2, <1>3

LEMMA LatestIsNone ==
  ASSUME NEW S \in SUBSET (Nat \ {0}), NEW n \in Nat
  PROVE  LatestBefore(S, n) = 0 <=> \A i \in S : ~(i < n)
<1> PICK l : l = LatestBefore(S, n)
  OBVIOUS
<1>1. l \in Nat /\ (l # 0 => l \in S /\ l < n) /\ \A i \in S : i < n => i <= l
  BY LatestIsLatest
<1>2. ASSUME l = 0, NEW i \in S, i < n PROVE FALSE
  <2>1. i <= 0 /\ i \in Nat \ {0}
    BY <1>1, <1>2
  <2> QED
    BY <2>1
<1> QED
  BY <1>1, <1>2

--------------------------------------------------------------------------------
(* The rows. *)

LEMMA RowTypes ==
  ASSUME SteeringTypeOK
  PROVE  /\ Len(history) \in Nat /\ DOMAIN history = 1 .. Len(history)
         /\ \A i \in DOMAIN history : history[i] \in HistoryRows
         /\ \A i \in MutationRows : history[i] \in MutationRowType
         /\ \A i \in RowsOf("pause") : history[i] \in PauseRowType
         /\ \A i \in RowsOf("archive") : history[i] \in ArchiveRows
         /\ \A kind \in {"accepted", "cancelled", "ended"} :
              \A i \in RowsOf(kind) : history[i] \in RunRows
<1>1. history \in Seq(HistoryRows)
  BY DEF SteeringTypeOK
<1>2. Len(history) \in Nat /\ DOMAIN history = 1 .. Len(history)
  BY <1>1, LenProperties
<1>3. \A i \in DOMAIN history : history[i] \in HistoryRows
  BY <1>1, <1>2, ElementOfSeq
<1>4. \A x \in HistoryRows :
        /\ x.kind = "mutation" => x \in MutationRowType
        /\ x.kind = "pause" => x \in PauseRowType
        /\ x.kind = "archive" => x \in ArchiveRows
        /\ x.kind \in {"accepted", "cancelled", "ended"} => x \in RunRows
  BY DEF HistoryRows, RunRows, ArchiveRows, MutationRowType, PauseRowType
<1> QED
  BY <1>2, <1>3, <1>4 DEF RowsOf, MutationRows

\* The same of the next state.
RowsTyped ==
  /\ Len(history) \in Nat /\ DOMAIN history = 1 .. Len(history)
  /\ \A i \in MutationRows : history[i] \in MutationRowType
  /\ \A i \in RowsOf("pause") : history[i] \in PauseRowType

LEMMA RowTypesNext == SteeringTypeOK' => RowsTyped'
<1>1. SteeringTypeOK => RowsTyped
  BY RowTypes DEF RowsTyped
<1> QED
  BY <1>1, PTL

\* The sets of rows hold sequences.
LEMMA RowSets ==
  ASSUME SteeringTypeOK
  PROVE  /\ \A kind : RowsOf(kind) \in SUBSET (Nat \ {0})
         /\ MutationRows \in SUBSET (Nat \ {0})
         /\ SteeringRows \in SUBSET (Nat \ {0})
         /\ PausedRows \in SUBSET (Nat \ {0})
         /\ TargetRows \in SUBSET (Nat \ {0})
<1>1. DOMAIN history \subseteq Nat \ {0}
  BY RowTypes
<1> QED
  BY <1>1 DEF RowsOf, MutationRows, SteeringRows, PausedRows, TargetRows

SetsTyped ==
  /\ \A kind : RowsOf(kind) \in SUBSET (Nat \ {0})
  /\ MutationRows \in SUBSET (Nat \ {0})
  /\ SteeringRows \in SUBSET (Nat \ {0})
  /\ PausedRows \in SUBSET (Nat \ {0})
  /\ TargetRows \in SUBSET (Nat \ {0})

LEMMA RowSetsNext == SteeringTypeOK' => SetsTyped'
<1>1. SteeringTypeOK => SetsTyped
  BY RowSets DEF SetsTyped
<1> QED
  BY <1>1, PTL

\* A transaction only appends rows.
RowsAreAppended ==
  /\ Len(history) <= Len(history')
  /\ \A i \in DOMAIN history : history'[i] = history[i]

LEMMA OldRows ==
  ASSUME SteeringTypeOK, SteeringTypeOK', RowsAreAppended, NEW i \in DOMAIN history
  PROVE  /\ i \in DOMAIN history' /\ history'[i] = history[i]
         /\ \A kind : i \in RowsOf(kind)' <=> i \in RowsOf(kind)
         /\ i \in MutationRows' <=> i \in MutationRows
         /\ i \in SteeringRows' <=> i \in SteeringRows
         /\ i \in PausedRows' <=> i \in PausedRows
         /\ i \in TargetRows' <=> i \in TargetRows
<1>1. i \in DOMAIN history' /\ history'[i] = history[i]
  BY RowTypes, RowTypesNext DEF RowsAreAppended, RowsTyped
<1> QED
  BY <1>1 DEF RowsOf, MutationRows, SteeringRows, PausedRows, TargetRows

\* What the rows said of a sequence, they say after more were appended.
LEMMA OldLatest ==
  ASSUME SteeringTypeOK, SteeringTypeOK', RowsAreAppended, NEW n \in 1 .. Len(history) + 1
  PROVE  /\ \A kind : LatestBefore(RowsOf(kind), n)' = LatestBefore(RowsOf(kind), n)
         /\ LatestBefore(SteeringRows, n)' = LatestBefore(SteeringRows, n)
         /\ LatestBefore(PausedRows, n)' = LatestBefore(PausedRows, n)
         /\ LatestBefore(TargetRows, n)' = LatestBefore(TargetRows, n)
<1>1. Len(history) \in Nat /\ DOMAIN history = 1 .. Len(history) /\ n \in Int
  BY RowTypes
<1>2. \A i \in Nat \ {0} : i < n => i \in DOMAIN history
  BY <1>1
<1>3. ASSUME NEW kind PROVE LatestBefore(RowsOf(kind)', n) = LatestBefore(RowsOf(kind), n)
  <2>1. {i \in RowsOf(kind)' : i < n} = {i \in RowsOf(kind) : i < n}
    BY <1>2, RowSets, RowSetsNext, OldRows DEF SetsTyped
  <2> QED
    BY <1>1, <2>1, LatestOfSame
<1>4. {i \in SteeringRows' : i < n} = {i \in SteeringRows : i < n}
  BY <1>2, RowSets, RowSetsNext, OldRows DEF SetsTyped
<1>5. {i \in PausedRows' : i < n} = {i \in PausedRows : i < n}
  BY <1>2, RowSets, RowSetsNext, OldRows DEF SetsTyped
<1>6. {i \in TargetRows' : i < n} = {i \in TargetRows : i < n}
  BY <1>2, RowSets, RowSetsNext, OldRows DEF SetsTyped
<1> QED
  BY <1>1, <1>3, <1>4, <1>5, <1>6, LatestOfSame

LEMMA OldFacts ==
  ASSUME SteeringTypeOK, SteeringTypeOK', RowsAreAppended, NEW n \in 1 .. Len(history) + 1
  PROVE  /\ UnpausedBefore(n)' = UnpausedBefore(n)
         /\ TargetBefore(n)' = TargetBefore(n)
         /\ LatestArchiveBefore(n)' = LatestArchiveBefore(n)
         /\ \A kind, r : HasRow(kind, r, n)' = HasRow(kind, r, n)
<1>1. Len(history) \in Nat /\ DOMAIN history = 1 .. Len(history) /\ n \in Nat
  BY RowTypes
<1>2. \A i \in Nat \ {0} : i < n => i \in DOMAIN history
  BY <1>1
<1>3. \A i \in DOMAIN history : history'[i] = history[i]
  BY DEF RowsAreAppended
<1>4. PICK p : p = LatestBefore(PausedRows, n)
  OBVIOUS
<1>5. PICK t : t = LatestBefore(TargetRows, n)
  OBVIOUS
<1>6. PICK a : a = LatestBefore(RowsOf("archive"), n)
  OBVIOUS
<1>7. /\ p # 0 => p \in DOMAIN history
      /\ t # 0 => t \in DOMAIN history
      /\ a # 0 => a \in DOMAIN history
  <2>1. p # 0 => p \in PausedRows
    BY <1>1, <1>4, LatestIsLatest, RowSets
  <2>2. t # 0 => t \in TargetRows
    BY <1>1, <1>5, LatestIsLatest, RowSets
  <2>3. a # 0 => a \in RowsOf("archive")
    BY <1>1, <1>6, LatestIsLatest, RowSets
  <2> QED
    BY <2>1, <2>2, <2>3 DEF PausedRows, TargetRows, SteeringRows, MutationRows, RowsOf
<1>8. /\ p = LatestBefore(PausedRows, n)' /\ t = LatestBefore(TargetRows, n)'
      /\ a = LatestBefore(RowsOf("archive"), n)'
  BY <1>4, <1>5, <1>6, OldLatest
<1>9. UnpausedBefore(n)' = UnpausedBefore(n)
  BY <1>3, <1>4, <1>7, <1>8 DEF UnpausedBefore
<1>10. TargetBefore(n)' = TargetBefore(n)
  BY <1>3, <1>5, <1>7, <1>8 DEF TargetBefore
<1>11. LatestArchiveBefore(n)' = LatestArchiveBefore(n)
  BY <1>3, <1>6, <1>7, <1>8 DEF LatestArchiveBefore
<1>12. ASSUME NEW kind, NEW r PROVE HasRow(kind, r, n)' = HasRow(kind, r, n)
  <2>1. \A i \in Nat \ {0} : i < n => /\ i \in RowsOf(kind)' <=> i \in RowsOf(kind)
                                      /\ history'[i] = history[i]
    BY <1>2, OldRows
  <2>2. RowsOf(kind) \subseteq Nat \ {0} /\ RowsOf(kind)' \subseteq Nat \ {0}
    BY RowSets, RowSetsNext DEF SetsTyped
  <2> QED
    BY <2>1, <2>2 DEF HasRow
<1> QED
  BY <1>9, <1>10, <1>11, <1>12

LatestRowOf(x, n) == LatestBefore({j \in MutationRows : history[j].item = x}, n)

LEMMA OldLatestRow ==
  ASSUME SteeringTypeOK, SteeringTypeOK', RowsAreAppended, NEW n \in 1 .. Len(history) + 1, NEW x
  PROVE  LatestRowOf(x, n)' = LatestRowOf(x, n)
<1>1. Len(history) \in Nat /\ DOMAIN history = 1 .. Len(history) /\ n \in Int
  BY RowTypes
<1>2. \A i \in Nat \ {0} : i < n => i \in DOMAIN history
  BY <1>1
<1>3. \A i \in Nat \ {0} : i < n => /\ i \in MutationRows' <=> i \in MutationRows
                                   /\ history'[i] = history[i]
  BY <1>2, OldRows
<1>4. MutationRows \subseteq Nat \ {0} /\ MutationRows' \subseteq Nat \ {0}
  BY RowSets, RowSetsNext DEF SetsTyped
<1> DEFINE S == {j \in MutationRows : history[j].item = x}
           T == {j \in MutationRows' : history'[j].item = x}
<1>5. {i \in T : i < n} = {i \in S : i < n}
  BY <1>3, <1>4
<1> HIDE DEF S, T
<1>6. LatestBefore(T, n) = LatestBefore(S, n)
  BY <1>1, <1>5, LatestOfSame
<1> QED
  BY <1>6 DEF LatestRowOf, S, T

LEMMA LatestRowFacts ==
  ASSUME SteeringTypeOK, NEW n \in Nat, NEW x
  PROVE  LET p == LatestRowOf(x, n)
         IN  /\ p \in Nat
             /\ p # 0 => p \in MutationRows /\ p < n /\ history[p].item = x
             /\ \A j \in MutationRows : j < n /\ history[j].item = x => j <= p
<1> DEFINE S == {j \in MutationRows : history[j].item = x}
<1>1. S \in SUBSET (Nat \ {0})
  BY RowSets
<1>2. /\ \A j \in S : j \in MutationRows /\ history[j].item = x
      /\ \A j \in MutationRows : history[j].item = x => j \in S
  OBVIOUS
<1>3. LatestRowOf(x, n) = LatestBefore(S, n)
  BY DEF LatestRowOf
<1> HIDE DEF S
<1> PICK p : p = LatestBefore(S, n)
  OBVIOUS
<1>4. p \in Nat /\ (p # 0 => p \in S /\ p < n) /\ \A i \in S : i < n => i <= p
  BY <1>1, LatestIsLatest
<1> QED
  BY <1>2, <1>3, <1>4

\* A row that was valid stays valid.
LEMMA OldMutation ==
  ASSUME SteeringTypeOK, SteeringTypeOK', RowsAreAppended, NEW i \in MutationRows
  PROVE  /\ MutationIsValid(i)' <=> MutationIsValid(i)
         /\ ItemIsValid(i)' <=> ItemIsValid(i)
<1>1. i \in DOMAIN history /\ Len(history) \in Nat /\ DOMAIN history = 1 .. Len(history)
  BY RowTypes DEF MutationRows, RowsOf
<1>2. i \in 1 .. Len(history) + 1 /\ history'[i] = history[i]
  BY <1>1 DEF RowsAreAppended
<1>3. PICK row : row = history[i]
  OBVIOUS
<1>4. MutationIsValid(i)' <=> MutationIsValid(i)
  BY <1>2, OldFacts DEF MutationIsValid
<1>5. PICK p : p = LatestRowOf(row.item, i)
  OBVIOUS
<1>6. p = LatestRowOf(row.item, i)'
  BY <1>2, <1>5, OldLatestRow
<1>7. p # 0 => p \in MutationRows /\ p < i
  BY <1>1, <1>5, LatestRowFacts
<1>8. p # 0 => history'[p] = history[p]
  BY <1>7 DEF RowsAreAppended, MutationRows, RowsOf
<1>9. ItemIsValid(i) <=>
        (row.change \in ItemChanges =>
           /\ row.change = "enqueue" => p = 0
           /\ row.change # "enqueue" => p # 0 /\ history[p].change \in TextChanges
           /\ row.change = "edit" => row.itemRevision = history[p].itemRevision + 1
           /\ row.change = "remove" => row.itemRevision = history[p].itemRevision)
  BY <1>3, <1>5 DEF ItemIsValid, LatestRowOf
<1>10. ItemIsValid(i)' <=>
        (row.change \in ItemChanges =>
           /\ row.change = "enqueue" => p = 0
           /\ row.change # "enqueue" => p # 0 /\ history'[p].change \in TextChanges
           /\ row.change = "edit" => row.itemRevision = history'[p].itemRevision + 1
           /\ row.change = "remove" => row.itemRevision = history'[p].itemRevision)
  BY <1>2, <1>3, <1>6 DEF ItemIsValid, LatestRowOf
<1>11. row.change = "edit" \/ row.change = "remove" => row.change # "enqueue"
  OBVIOUS
<1>12. ItemIsValid(i)' <=> ItemIsValid(i)
  BY <1>8, <1>9, <1>10, <1>11 DEF ItemChanges
<1> QED
  BY <1>4, <1>12

LEMMA OldSource ==
  ASSUME SteeringTypeOK, SteeringTypeOK', RowsAreAppended, NEW i \in DOMAIN history,
         SourceIsHonoured(i)
  PROVE  SourceIsHonoured(i)'
<1>1. i \in 1 .. Len(history) + 1 /\ history'[i] = history[i]
  BY RowTypes DEF RowsAreAppended
<1>2. \A j \in RowsOf("pause") : j \in RowsOf("pause")' /\ history'[j] = history[j]
  BY OldRows DEF RowsOf
<1> QED
  BY <1>1, <1>2, OldFacts DEF SourceIsHonoured

LEMMA OldPause ==
  ASSUME SteeringTypeOK, SteeringTypeOK', RowsAreAppended, NEW i \in RowsOf("pause"),
         PauseIsValid(i), history[i].reason # "recovery" => history[i].source \in 1 .. i - 1
  PROVE  PauseIsValid(i)'
<1>1. i \in DOMAIN history /\ Len(history) \in Nat /\ DOMAIN history = 1 .. Len(history)
  BY RowTypes DEF RowsOf
<1>2. i \in 1 .. Len(history) + 1 /\ history'[i] = history[i]
  BY <1>1 DEF RowsAreAppended
<1>3. PICK row : row = history[i]
  OBVIOUS
<1>4. row.reason # "recovery" => row.source \in DOMAIN history
  BY <1>1, <1>3
<1>5. row.reason # "recovery" => history'[row.source] = history[row.source]
  BY <1>4 DEF RowsAreAppended
<1>6. UnpausedBefore(i)' = UnpausedBefore(i) /\ TargetBefore(i)' = TargetBefore(i)
  BY <1>2, OldFacts
<1> QED
  BY <1>2, <1>3, <1>5, <1>6 DEF PauseIsValid

LEMMA OldRevision ==
  ASSUME SteeringTypeOK, SteeringTypeOK', RowsAreAppended, NEW i \in SteeringRows,
         RevisionsAreConsecutive
  PROVE  LET p == LatestBefore(SteeringRows, i)'
         IN p # 0 => history'[i].revision = history'[p].revision + 1
<1>1. i \in DOMAIN history /\ Len(history) \in Nat /\ DOMAIN history = 1 .. Len(history)
  BY RowTypes DEF SteeringRows, MutationRows, RowsOf
<1>2. i \in 1 .. Len(history) + 1 /\ i \in Nat /\ history'[i] = history[i]
  BY <1>1 DEF RowsAreAppended
<1>3. PICK p : p = LatestBefore(SteeringRows, i)
  OBVIOUS
<1>4. p = LatestBefore(SteeringRows, i)'
  BY <1>2, <1>3, OldLatest
<1>5. p # 0 => p \in SteeringRows
  BY <1>2, <1>3, LatestIsLatest, RowSets
<1>6. p # 0 => history'[p] = history[p]
  BY <1>5 DEF RowsAreAppended, SteeringRows, MutationRows, RowsOf
<1> QED
  BY <1>2, <1>3, <1>4, <1>6 DEF RevisionsAreConsecutive

CountAt(change, n) == Cardinality({i \in MutationRows : i <= n /\ history[i].change = change})

LEMMA OldCount ==
  ASSUME SteeringTypeOK, SteeringTypeOK', RowsAreAppended, NEW n \in 0 .. Len(history), NEW change
  PROVE  CountAt(change, n)' = CountAt(change, n)
<1>1. Len(history) \in Nat /\ DOMAIN history = 1 .. Len(history) /\ n \in Int
  BY RowTypes
<1>2. \A i \in Nat \ {0} : i <= n => i \in DOMAIN history
  BY <1>1
<1>3. \A i \in Nat \ {0} : i <= n => /\ i \in MutationRows' <=> i \in MutationRows
                                    /\ history'[i] = history[i]
  BY <1>2, OldRows
<1>4. MutationRows \subseteq Nat \ {0} /\ MutationRows' \subseteq Nat \ {0}
  BY RowSets, RowSetsNext DEF SetsTyped
<1>5. {i \in MutationRows' : i <= n /\ history'[i].change = change}
        = {i \in MutationRows : i <= n /\ history[i].change = change}
  BY <1>3, <1>4
<1> QED
  BY <1>5 DEF CountAt

\* HistoryIsValid, row by row.
RowIsValid(i) ==
  /\ i \in MutationRows =>
       /\ MutationIsValid(i) /\ ItemIsValid(i)
       /\ CountAt("enqueue", i) - CountAt("remove", i) \in 0 .. Capacity
  /\ i \in RowsOf("cancelled") \cup RowsOf("ended") => SourceIsHonoured(i)
  /\ i \in RowsOf("archive") /\ history[i].flag => SourceIsHonoured(i)
  /\ i \in RowsOf("pause") => PauseIsValid(i)
  /\ i \in SteeringRows =>
       LET p == LatestBefore(SteeringRows, i)
       IN p # 0 => history[i].revision = history[p].revision + 1

LEMMA ValidRows == HistoryIsValid <=> \A i \in DOMAIN history : RowIsValid(i)
<1>1. CapacityWasKept <=>
        \A i \in MutationRows : CountAt("enqueue", i) - CountAt("remove", i) \in 0 .. Capacity
  BY DEF CapacityWasKept, CountAt
<1>2. /\ MutationRows \subseteq DOMAIN history /\ SteeringRows \subseteq DOMAIN history
      /\ \A kind : RowsOf(kind) \subseteq DOMAIN history
  BY DEF MutationRows, SteeringRows, RowsOf
<1>3. ASSUME HistoryIsValid, NEW i \in DOMAIN history PROVE RowIsValid(i)
  BY <1>1, <1>3 DEF HistoryIsValid, RowIsValid, RevisionsAreConsecutive
<1>4. ASSUME \A i \in DOMAIN history : RowIsValid(i) PROVE HistoryIsValid
  <2>1. \A i \in MutationRows : MutationIsValid(i) /\ ItemIsValid(i)
    BY <1>2, <1>4 DEF RowIsValid
  <2>2. \A i \in RowsOf("cancelled") \cup RowsOf("ended") : SourceIsHonoured(i)
    BY <1>2, <1>4 DEF RowIsValid
  <2>3. \A i \in RowsOf("archive") : history[i].flag => SourceIsHonoured(i)
    BY <1>2, <1>4 DEF RowIsValid
  <2>4. \A i \in RowsOf("pause") : PauseIsValid(i)
    BY <1>2, <1>4 DEF RowIsValid
  <2>5. RevisionsAreConsecutive
    BY <1>2, <1>4 DEF RowIsValid, RevisionsAreConsecutive
  <2>6. CapacityWasKept
    BY <1>1, <1>2, <1>4 DEF RowIsValid
  <2> QED
    BY <2>1, <2>2, <2>3, <2>4, <2>5, <2>6 DEF HistoryIsValid
<1> QED
  BY <1>3, <1>4

LEMMA ValidRowsNext == HistoryIsValid' <=> (\A i \in DOMAIN history : RowIsValid(i))'
BY ValidRows, PTL

LEMMA OldRowIsValid ==
  ASSUME SteeringTypeOK, SteeringTypeOK', RowsAreAppended, RowsAreOwned, HistoryIsValid,
         NEW i \in DOMAIN history
  PROVE  RowIsValid(i)'
<1>1. RowIsValid(i)
  BY ValidRows
<1>2. i \in 0 .. Len(history)
  BY RowTypes
<1>3. history'[i] = history[i]
  BY DEF RowsAreAppended
<1>4. ASSUME i \in MutationRows'
      PROVE  /\ MutationIsValid(i)' /\ ItemIsValid(i)'
             /\ CountAt("enqueue", i)' - CountAt("remove", i)' \in 0 .. Capacity
  <2>1. i \in MutationRows
    BY <1>4, OldRows
  <2>2. /\ MutationIsValid(i) /\ ItemIsValid(i)
        /\ CountAt("enqueue", i) - CountAt("remove", i) \in 0 .. Capacity
    BY <1>1, <2>1 DEF RowIsValid
  <2> QED
    BY <1>2, <2>1, <2>2, OldMutation, OldCount
<1>5. i \in RowsOf("cancelled")' \cup RowsOf("ended")' => SourceIsHonoured(i)'
  BY <1>1, OldRows, OldSource DEF RowIsValid
<1>6. i \in RowsOf("archive")' /\ history'[i].flag => SourceIsHonoured(i)'
  BY <1>1, <1>3, OldRows, OldSource DEF RowIsValid
<1>7. ASSUME i \in RowsOf("pause")' PROVE PauseIsValid(i)'
  <2>1. i \in RowsOf("pause")
    BY <1>7, OldRows
  <2>2. history[i].reason # "recovery" => history[i].source \in 1 .. i - 1
    BY <2>1 DEF RowsAreOwned
  <2> QED
    BY <1>1, <2>1, <2>2, OldPause DEF RowIsValid
<1>8. ASSUME i \in SteeringRows'
      PROVE  LET p == LatestBefore(SteeringRows, i)'
             IN p # 0 => history'[i].revision = history'[p].revision + 1
  <2>1. i \in SteeringRows
    BY <1>8, OldRows
  <2>2. RevisionsAreConsecutive
    BY DEF HistoryIsValid
  <2> QED
    BY <2>1, <2>2, OldRevision
<1> QED
  BY <1>4, <1>5, <1>6, <1>7, <1>8 DEF RowIsValid

\* A transaction whose rows are valid keeps the history valid.
LEMMA HistoryStaysValid ==
  ASSUME SteeringTypeOK, SteeringTypeOK', RowsAreAppended, RowsAreOwned, HistoryIsValid,
         \A i \in Len(history) + 1 .. Len(history') : RowIsValid(i)'
  PROVE  HistoryIsValid'
<1>1. /\ Len(history) \in Nat /\ DOMAIN history = 1 .. Len(history)
      /\ Len(history') \in Nat /\ DOMAIN history' = 1 .. Len(history')
  BY RowTypes, RowTypesNext DEF RowsTyped
<1>2. ASSUME NEW i \in DOMAIN history' PROVE RowIsValid(i)'
  <2>1. i \in DOMAIN history \/ i \in Len(history) + 1 .. Len(history')
    BY <1>1
  <2> QED
    BY <2>1, OldRowIsValid
<1> QED
  BY <1>2, ValidRowsNext

LEMMA HistoryUnchanged ==
  ASSUME UNCHANGED history
  PROVE  /\ RowsAreOwned' <=> RowsAreOwned
         /\ AppliedOnce' <=> AppliedOnce
         /\ HistoryIsValid' <=> HistoryIsValid
<1>1. /\ MutationRows' = MutationRows /\ SteeringRows' = SteeringRows
      /\ \A kind : RowsOf(kind)' = RowsOf(kind)
  BY DEF MutationRows, SteeringRows, RowsOf
<1>2. HistoryIsValid' <=> HistoryIsValid
  BY DEF HistoryIsValid, MutationIsValid, ItemIsValid, SourceIsHonoured, PauseIsValid,
     RevisionsAreConsecutive, CapacityWasKept, HasRow, LatestArchiveBefore, UnpausedBefore,
     TargetBefore, PausedRows, TargetRows, MutationRows, SteeringRows, RowsOf
<1> QED
  BY <1>1, <1>2 DEF RowsAreOwned, AppliedOnce

--------------------------------------------------------------------------------
(* Rows that are appended. *)

\* The queue before a sequence n.
QueueIsCurrentAt(n) ==
  /\ queue.target = TargetBefore(n)
  /\ queue.paused = ~UnpausedBefore(n)
  /\ SteeringRows = {} => queue.revision = 0
  /\ SteeringRows # {} => history[LatestBefore(SteeringRows, n)].revision = queue.revision
  /\ \A i \in SteeringRows : history[i].revision \in 1 .. queue.revision
  /\ queue.revision > 0 => queue.target \in Runs

LEMMA QueueAtNow ==
  ASSUME NEW n
  PROVE  n = Now => (QueueIsCurrent <=> QueueIsCurrentAt(n))
BY DEF QueueIsCurrent, QueueIsCurrentAt, Now

LEMMA QueueAtNowNext ==
  ASSUME NEW n
  PROVE  n = Now' => (QueueIsCurrent' <=> QueueIsCurrentAt(n)')
BY DEF QueueIsCurrent, QueueIsCurrentAt, Now

\* Rows that do not steer leave the queue and the latest steering row alone.
LEMMA QuietRows ==
  ASSUME SteeringTypeOK, SteeringTypeOK', RowsAreAppended,
         NEW n \in Len(history) + 1 .. Len(history') + 1,
         \A i \in Len(history) + 1 .. n - 1 : i \notin SteeringRows',
         NEW m, m = Len(history) + 1
  PROVE  /\ UnpausedBefore(n)' = UnpausedBefore(m)
         /\ TargetBefore(n)' = TargetBefore(m)
         /\ LatestBefore(SteeringRows, n)' = LatestBefore(SteeringRows, m)
<1>1. /\ Len(history) \in Nat /\ DOMAIN history = 1 .. Len(history)
      /\ Len(history') \in Nat /\ DOMAIN history' = 1 .. Len(history')
  BY RowTypes, RowTypesNext DEF RowsTyped
<1>2. n \in Int /\ m \in Int /\ m \in 1 .. Len(history) + 1
  BY <1>1
<1>3. \A S \in {SteeringRows', PausedRows', TargetRows'} :
         /\ S \subseteq SteeringRows' /\ S \subseteq Nat \ {0}
  BY RowSetsNext DEF SetsTyped, PausedRows, TargetRows
<1>4. \A i \in SteeringRows' : i < n <=> i < m
  <2> TAKE i \in SteeringRows'
  <2>1. i \in Nat \ {0} /\ i \notin Len(history) + 1 .. n - 1
    BY <1>3
  <2> QED
    BY <1>1, <1>2, <2>1
<1>5. /\ LatestBefore(SteeringRows', n) = LatestBefore(SteeringRows', m)
      /\ LatestBefore(PausedRows', n) = LatestBefore(PausedRows', m)
      /\ LatestBefore(TargetRows', n) = LatestBefore(TargetRows', m)
  <2>1. \A S \in {SteeringRows', PausedRows', TargetRows'} : {i \in S : i < n} = {i \in S : i < m}
    BY <1>3, <1>4
  <2> QED
    BY <1>2, <2>1, LatestOfSame
<1>6. UnpausedBefore(n)' = UnpausedBefore(m)' /\ TargetBefore(n)' = TargetBefore(m)'
  BY <1>5 DEF UnpausedBefore, TargetBefore
<1> QED
  BY <1>2, <1>5, <1>6, OldFacts, OldLatest

\* The queue after rows that do not steer.
LEMMA QueueStaysCurrent ==
  ASSUME SteeringTypeOK, SteeringTypeOK', RowsAreAppended, QueueIsCurrent, UNCHANGED queue,
         \A i \in Len(history) + 1 .. Len(history') : i \notin SteeringRows'
  PROVE  QueueIsCurrent'
<1>1. /\ Len(history) \in Nat /\ DOMAIN history = 1 .. Len(history)
      /\ Len(history') \in Nat /\ DOMAIN history' = 1 .. Len(history')
  BY RowTypes, RowTypesNext DEF RowsTyped
<1>2. PICK n : n = Len(history') + 1
  OBVIOUS
<1>3. PICK m : m = Len(history) + 1
  OBVIOUS
<1>4. /\ n \in Len(history) + 1 .. Len(history') + 1
      /\ \A i \in Len(history) + 1 .. n - 1 : i \notin SteeringRows'
  BY <1>1, <1>2 DEF RowsAreAppended
<1>5. QueueIsCurrentAt(m)
  BY <1>3, QueueAtNow DEF Now
<1>6. /\ UnpausedBefore(n)' = UnpausedBefore(m)
      /\ TargetBefore(n)' = TargetBefore(m)
      /\ LatestBefore(SteeringRows, n)' = LatestBefore(SteeringRows, m)
  BY <1>3, <1>4, QuietRows
<1>7. \A i : i \in SteeringRows' <=> i \in SteeringRows
  <2>1. \A i \in SteeringRows' : i \in DOMAIN history
    <3> TAKE i \in SteeringRows'
    <3>1. i \in DOMAIN history'
      BY DEF SteeringRows, MutationRows, RowsOf
    <3> QED
      BY <1>1, <3>1
  <2>2. \A i \in SteeringRows : i \in DOMAIN history
    BY DEF SteeringRows, MutationRows, RowsOf
  <2> QED
    BY <2>1, <2>2, OldRows
<1>8. \A i \in SteeringRows : history'[i] = history[i]
  BY DEF RowsAreAppended, SteeringRows, MutationRows, RowsOf
<1>9. PICK l : l = LatestBefore(SteeringRows, m)
  OBVIOUS
<1>10. SteeringRows # {} => l \in SteeringRows
  <2>1. m \in Nat /\ \A i \in SteeringRows : i < m
    BY <1>1, <1>3 DEF SteeringRows, MutationRows, RowsOf
  <2> QED
    BY <1>9, <2>1, LatestIsLatest, LatestIsNone, RowSets
<1>11. QueueIsCurrentAt(n)'
  BY <1>5, <1>6, <1>7, <1>8, <1>9, <1>10 DEF QueueIsCurrentAt
<1> QED
  BY <1>2, <1>11, QueueAtNowNext DEF Now

LEMMA LatestOfAll ==
  ASSUME NEW S \in SUBSET (Nat \ {0}), NEW n \in S, \A i \in S : i <= n
  PROVE  LatestBefore(S, n + 1) = n
<1>1. n \in Nat /\ n + 1 \in Nat /\ n < n + 1
  OBVIOUS
<1> QED
  BY <1>1, LatestIs

\* The queue before its latest row and the latest row before it.
LEMMA LatestSteering ==
  ASSUME SteeringTypeOK, QueueIsCurrent, NEW m, m = Len(history) + 1, queue.revision > 0
  PROVE  LET l == LatestBefore(SteeringRows, m)
         IN  l \in SteeringRows /\ l \in DOMAIN history /\ history[l].revision = queue.revision
<1>1. Len(history) \in Nat /\ DOMAIN history = 1 .. Len(history)
  BY RowTypes
<1>2. QueueIsCurrentAt(m)
  BY QueueAtNow DEF Now
<1>3. SteeringRows # {}
  BY <1>2 DEF QueueIsCurrentAt
<1>4. m \in Nat /\ \A i \in SteeringRows : i < m /\ i \in DOMAIN history
  BY <1>1 DEF SteeringRows, MutationRows, RowsOf
<1>5. LatestBefore(SteeringRows, m) \in SteeringRows
  BY <1>3, <1>4, LatestIsLatest, LatestIsNone, RowSets
<1> QED
  BY <1>2, <1>3, <1>4, <1>5 DEF QueueIsCurrentAt

LEMMA PauseAppended ==
  ASSUME SteeringTypeOK, SteeringTypeOK', RowsAreAppended, QueueIsCurrent,
         NEW reason, NEW source, NEW n, n = Len(history'), n > Len(history),
         history'[n] = [kind |-> "pause", reason |-> reason, run |-> queue.target,
                        revision |-> queue.revision + 1, source |-> source],
         \A i \in Len(history) + 1 .. n - 1 : i \notin SteeringRows',
         queue.revision > 0, ~queue.paused,
         queue' = [queue EXCEPT !.paused = TRUE, !.revision = @ + 1]
  PROVE  /\ QueueIsCurrent'
         /\ UnpausedBefore(n)' /\ TargetBefore(n)' = queue.target
         /\ LET p == LatestBefore(SteeringRows, n)'
            IN p # 0 => history'[n].revision = history'[p].revision + 1
<1>1. /\ Len(history) \in Nat /\ DOMAIN history = 1 .. Len(history)
      /\ Len(history') \in Nat /\ DOMAIN history' = 1 .. Len(history')
  BY RowTypes, RowTypesNext DEF RowsTyped
<1>2. PICK m : m = Len(history) + 1
  OBVIOUS
<1>3. n \in Len(history) + 1 .. Len(history') + 1
  BY <1>1
<1>4. /\ UnpausedBefore(n)' = UnpausedBefore(m)
      /\ TargetBefore(n)' = TargetBefore(m)
      /\ LatestBefore(SteeringRows, n)' = LatestBefore(SteeringRows, m)
  BY <1>2, <1>3, QuietRows
<1>5. QueueIsCurrentAt(m)
  BY <1>2, QueueAtNow DEF Now
<1>6. UnpausedBefore(n)' /\ TargetBefore(n)' = queue.target
  BY <1>4, <1>5 DEF QueueIsCurrentAt, SteeringTypeOK
<1>7. PICK l : l = LatestBefore(SteeringRows, m)
  OBVIOUS
<1>8. l \in DOMAIN history /\ history[l].revision = queue.revision
  BY <1>2, <1>7, LatestSteering
<1>9. history'[l] = history[l]
  BY <1>8 DEF RowsAreAppended
<1>10. history'[n].revision = history'[l].revision + 1
  BY <1>8, <1>9
<1>11. n \in DOMAIN history' /\ n \in Nat \ {0}
  BY <1>1
<1>12. n \in SteeringRows' /\ n \in PausedRows' /\ n \in TargetRows'
  BY <1>11 DEF SteeringRows, PausedRows, TargetRows, RowsOf
<1>13. \A i \in SteeringRows' : i \in DOMAIN history' /\ i <= n
  BY <1>1 DEF SteeringRows, MutationRows, RowsOf
<1>14. /\ LatestBefore(SteeringRows', n + 1) = n
       /\ LatestBefore(PausedRows', n + 1) = n
       /\ LatestBefore(TargetRows', n + 1) = n
  <2>1. \A S \in {SteeringRows', PausedRows', TargetRows'} :
           S \subseteq Nat \ {0} /\ n \in S /\ \A i \in S : i <= n
    BY <1>12, <1>13, RowSetsNext DEF SetsTyped, PausedRows, TargetRows
  <2> QED
    BY <2>1, LatestOfAll
<1>15. UnpausedBefore(n + 1)' = FALSE /\ TargetBefore(n + 1)' = queue.target
  BY <1>11, <1>14 DEF UnpausedBefore, TargetBefore
<1>16. \A i \in SteeringRows' : history'[i].revision \in 1 .. queue.revision + 1
  <2> TAKE i \in SteeringRows'
  <2>1. queue.revision \in Nat
    BY DEF SteeringTypeOK
  <2>2. CASE i = n
    BY <2>1, <2>2
  <2>3. CASE i # n
    <3>1. i \in DOMAIN history
      BY <1>1, <1>13, <2>3
    <3>2. i \in SteeringRows /\ history'[i] = history[i]
      BY <3>1, OldRows
    <3>3. history[i].revision \in 1 .. queue.revision
      BY <1>5, <3>2 DEF QueueIsCurrentAt
    <3> QED
      BY <2>1, <3>2, <3>3
  <2> QED
    BY <2>2, <2>3
<1>17. /\ queue'.paused = TRUE /\ queue'.target = queue.target
       /\ queue'.revision = queue.revision + 1
       /\ queue.revision \in Nat
  BY DEF SteeringTypeOK
<1>18. PICK k : k = n + 1
  OBVIOUS
<1>19. QueueIsCurrentAt(k)'
  <2>1. queue'.target = TargetBefore(k)' /\ queue'.paused = ~UnpausedBefore(k)'
    BY <1>15, <1>17, <1>18
  <2>2. SteeringRows' # {} /\ history'[LatestBefore(SteeringRows', k)].revision = queue'.revision
    BY <1>12, <1>14, <1>17, <1>18
  <2>3. queue'.target \in Runs
    BY <1>5, <1>17 DEF QueueIsCurrentAt
  <2> QED
    BY <1>16, <1>17, <2>1, <2>2, <2>3 DEF QueueIsCurrentAt
<1>20. QueueIsCurrent'
  BY <1>18, <1>19, QueueAtNowNext DEF Now
<1> QED
  BY <1>4, <1>6, <1>7, <1>10, <1>20

\* Pending messages after rows that are no mutations.
LEMMA PendingStaysCurrent ==
  ASSUME SteeringTypeOK, SteeringTypeOK', RowsAreAppended, PendingIsCurrent, UNCHANGED pending,
         \A i \in Len(history) + 1 .. Len(history') : i \notin MutationRows'
  PROVE  PendingIsCurrent'
<1>1. /\ Len(history) \in Nat /\ DOMAIN history = 1 .. Len(history)
      /\ Len(history') \in Nat /\ DOMAIN history' = 1 .. Len(history')
  BY RowTypes, RowTypesNext DEF RowsTyped
<1>2. \A i : i \in MutationRows' <=> i \in MutationRows
  <2>1. \A i \in MutationRows' : i \in DOMAIN history
    <3> TAKE i \in MutationRows'
    <3>1. i \in DOMAIN history'
      BY DEF MutationRows, RowsOf
    <3> QED
      BY <1>1, <3>1
  <2>2. \A i \in MutationRows : i \in DOMAIN history
    BY DEF MutationRows, RowsOf
  <2> QED
    BY <2>1, <2>2, OldRows
<1>3. /\ MutationRows' = MutationRows
      /\ \A i \in MutationRows : i \in DOMAIN history /\ history'[i] = history[i]
  BY <1>2 DEF RowsAreAppended, MutationRows, RowsOf
<1>4. Now \in Int /\ Now' \in Int /\ \A i \in MutationRows : i < Now /\ i < Now'
  BY <1>1, <1>3 DEF Now, RowsAreAppended
<1>5. ASSUME NEW i PROVE LatestOfItem(i)' = LatestOfItem(i) /\ EnqueuedAt(i)' = EnqueuedAt(i)
  <2> DEFINE S == {j \in MutationRows : history[j].item = i}
             T == {j \in MutationRows : history[j].item = i /\ history[j].change = "enqueue"}
  <2>1. S' = S /\ T' = T
    BY <1>3
  <2>2. {j \in S : j < Now} = {j \in S : j < Now'} /\ {j \in T : j < Now} = {j \in T : j < Now'}
    BY <1>4
  <2> HIDE DEF S, T
  <2>3. LatestBefore(S, Now) = LatestBefore(S, Now') /\ LatestBefore(T, Now) = LatestBefore(T, Now')
    BY <1>4, <2>2, LatestOfSame
  <2> QED
    BY <2>1, <2>3 DEF LatestOfItem, EnqueuedAt, S, T
<1>6. \A i \in Requests : LatestOfItem(i) # 0 => LatestOfItem(i) \in MutationRows
  <2> TAKE i \in Requests
  <2>1. LatestOfItem(i) = LatestRowOf(i, Now)
    BY DEF LatestOfItem, LatestRowOf
  <2>2. Now \in Nat
    BY <1>1 DEF Now
  <2> QED
    BY <2>1, <2>2, LatestRowFacts
<1>7. \A i \in Requests : LatestOfItem(i) # 0 => history'[LatestOfItem(i)] = history[LatestOfItem(i)]
  BY <1>3, <1>6
<1>8. RebuiltItems' = RebuiltItems
  BY <1>5, <1>7 DEF RebuiltItems
<1>9. \A i \in RebuiltItems : i \in Requests /\ LatestOfItem(i) # 0
  BY DEF RebuiltItems
<1>10. \A change : RowsWith(change)' = RowsWith(change)
  BY <1>3 DEF RowsWith
<1>11. DOMAIN pending' = RebuiltItems'
  BY <1>8 DEF PendingIsCurrent
<1>12. \A i \in DOMAIN pending' :
       /\ pending'[i].enqueued = EnqueuedAt(i)'
       /\ pending'[i].revision = history'[LatestOfItem(i)'].itemRevision
       /\ pending'[i].text = history'[LatestOfItem(i)'].request
  BY <1>5, <1>7, <1>8, <1>9, <1>11 DEF PendingIsCurrent
<1>13. \A i, j \in DOMAIN pending' : pending'[i].slot = pending'[j].slot => i = j
  BY DEF PendingIsCurrent
<1>14. Cardinality(RowsWith("enqueue")') - Cardinality(RowsWith("remove")')
         = Cardinality(DOMAIN pending')
  BY <1>10 DEF PendingIsCurrent
<1> QED
  BY <1>11, <1>12, <1>13, <1>14 DEF PendingIsCurrent

--------------------------------------------------------------------------------
(* Sources and pauses. *)

LEMMA AppendedRow ==
  ASSUME NEW R, NEW s \in Seq(R), NEW x \in R
  PROVE  LET t == Append(s, x)
         IN  /\ t \in Seq(R) /\ Len(t) = Len(s) + 1 /\ t[Len(s) + 1] = x
             /\ \A i \in 1 .. Len(s) : t[i] = s[i]
<1>1. Len(s) \in Nat
  BY LenProperties
<1> QED
  BY <1>1, AppendProperties

\* steering_lifecycle::pause by cases: no pause, a pause of its own, a source and its pause.
LEMMA AppendAndPauseCases ==
  ASSUME NEW s \in Seq(HistoryRows), NEW x \in HistoryRows, NEW p \in HistoryRows
  PROVE  /\ s \o <<>> = s
         /\ s \o <<x>> = Append(s, x)
         /\ s \o Append(<<>>, p) = Append(s, p)
         /\ s \o Append(<<x>>, p) = Append(Append(s, x), p)
<1>1. s \o <<>> = s
  BY ConcatEmptySeq
<1>2. \A y \in HistoryRows : s \o <<y>> = Append(s, y)
  BY AppendIsConcat
<1>3. Append(<<>>, p) = <<p>>
  OBVIOUS
<1>4. Append(<<x>>, p) = <<x>> \o <<p>>
  BY AppendIsConcat
<1>5. <<x>> \in Seq(HistoryRows) /\ <<p>> \in Seq(HistoryRows)
  OBVIOUS
<1>6. s \o (<<x>> \o <<p>>) = (s \o <<x>>) \o <<p>>
  BY <1>5, ConcatAssociative
<1>7. Append(s, x) \in Seq(HistoryRows)
  BY AppendedRow
<1>8. Append(s, x) \o <<p>> = Append(Append(s, x), p)
  BY <1>7, AppendIsConcat
<1> QED
  BY <1>1, <1>2, <1>3, <1>4, <1>6, <1>8

LEMMA OwnedStays ==
  ASSUME SteeringTypeOK, SteeringTypeOK', RowsAreAppended, RowsAreOwned, AppliedOnce,
         \A i \in Len(history) + 1 .. Len(history') :
            /\ i \notin MutationRows'
            /\ i \in RowsOf("pause")' /\ history'[i].reason # "recovery" =>
                 history'[i].source \in 1 .. i - 1
  PROVE  RowsAreOwned' /\ AppliedOnce'
<1>1. /\ Len(history) \in Nat /\ DOMAIN history = 1 .. Len(history)
      /\ Len(history') \in Nat /\ DOMAIN history' = 1 .. Len(history')
  BY RowTypes, RowTypesNext DEF RowsTyped
<1>2. \A i \in DOMAIN history' : i \in DOMAIN history \/ i \in Len(history) + 1 .. Len(history')
  BY <1>1
<1>3. \A i : i \in MutationRows' <=> i \in MutationRows
  BY <1>2, OldRows DEF MutationRows, RowsOf
<1>4. /\ MutationRows' = MutationRows
      /\ \A i \in MutationRows : history'[i] = history[i]
  BY <1>3 DEF RowsAreAppended, MutationRows, RowsOf
<1>5. ASSUME NEW i \in RowsOf("pause")', history'[i].reason # "recovery"
      PROVE  history'[i].source \in 1 .. i - 1
  <2>1. i \in DOMAIN history'
    BY DEF RowsOf
  <2>2. CASE i \in DOMAIN history
    <3>1. i \in RowsOf("pause") /\ history'[i] = history[i]
      BY <2>2, OldRows
    <3> QED
      BY <1>5, <3>1 DEF RowsAreOwned
  <2>3. CASE i \in Len(history) + 1 .. Len(history')
    BY <1>5, <2>3
  <2> QED
    BY <1>2, <2>1, <2>2, <2>3
<1> QED
  BY <1>4, <1>5 DEF RowsAreOwned, AppliedOnce

\* Rows that are neither mutations nor pauses.
SourceRows == RunRows \cup ArchiveRows

\* A source that finds the queue paused, or about another target, or unarchives.
LEMMA SourceAppended ==
  ASSUME SteeringInv, SteeringTypeOK', NEW src \in SourceRows, history' = Append(history, src),
         UNCHANGED <<queue, pending>>,
         \/ src.kind = "accepted"
         \/ src.kind \in {"cancelled", "ended"} /\ (queue.paused \/ queue.target # src.run)
         \/ src.kind = "archive" /\ (src.flag => queue.paused)
  PROVE  SteeringInv'
<1>0. /\ SteeringTypeOK /\ RowsAreOwned /\ AppliedOnce
      /\ HistoryIsValid /\ QueueIsCurrent /\ PendingIsCurrent
  BY DEF SteeringInv
<1>1. /\ Len(history) \in Nat /\ DOMAIN history = 1 .. Len(history)
      /\ Len(history') \in Nat /\ DOMAIN history' = 1 .. Len(history')
  BY <1>0, RowTypes, RowTypesNext DEF RowsTyped
<1>2. history \in Seq(HistoryRows) /\ src \in HistoryRows
  BY <1>0 DEF SteeringTypeOK, SourceRows, HistoryRows
<1>3. PICK n : n = Len(history) + 1
  OBVIOUS
<1>4. /\ Len(history') = n /\ history'[n] = src
      /\ \A i \in 1 .. Len(history) : history'[i] = history[i]
  BY <1>2, <1>3, AppendedRow
<1>5. RowsAreAppended
  BY <1>1, <1>3, <1>4 DEF RowsAreAppended
<1>6. src.kind \notin {"mutation", "pause"}
  BY DEF SourceRows, RunRows, ArchiveRows
<1>7. \A i \in Len(history) + 1 .. Len(history') : i = n
  BY <1>1, <1>3, <1>4
<1>8. n \notin MutationRows' /\ n \notin RowsOf("pause")' /\ n \notin SteeringRows'
  BY <1>4, <1>6 DEF MutationRows, SteeringRows, RowsOf
<1>9. RowsAreOwned' /\ AppliedOnce'
  BY <1>0, <1>5, <1>7, <1>8, OwnedStays
<1>10. QueueIsCurrent' /\ PendingIsCurrent'
  BY <1>0, <1>5, <1>7, <1>8, QueueStaysCurrent, PendingStaysCurrent
<1>11. n \in 1 .. Len(history) + 1
  BY <1>1, <1>3
<1>12. UnpausedBefore(n)' = ~queue.paused /\ TargetBefore(n)' = queue.target
  <2>1. UnpausedBefore(n)' = UnpausedBefore(n) /\ TargetBefore(n)' = TargetBefore(n)
    BY <1>0, <1>5, <1>11, OldFacts
  <2>2. QueueIsCurrentAt(n)
    BY <1>0, <1>3, QueueAtNow DEF Now
  <2>3. UnpausedBefore(n) \in BOOLEAN
    BY DEF UnpausedBefore
  <2> QED
    BY <2>1, <2>2, <2>3 DEF QueueIsCurrentAt
<1>13. n \in RowsOf("cancelled")' \cup RowsOf("ended")' => SourceIsHonoured(n)'
  <2> SUFFICES ASSUME src.kind \in {"cancelled", "ended"} PROVE SourceIsHonoured(n)'
    BY <1>4 DEF RowsOf
  <2> QED
    BY <1>4, <1>12 DEF SourceIsHonoured
<1>14. n \in RowsOf("archive")' /\ history'[n].flag => SourceIsHonoured(n)'
  <2> SUFFICES ASSUME src.kind = "archive", src.flag PROVE SourceIsHonoured(n)'
    BY <1>4 DEF RowsOf
  <2> QED
    BY <1>4, <1>12 DEF SourceIsHonoured
<1>15. RowIsValid(n)'
  BY <1>8, <1>13, <1>14 DEF RowIsValid
<1>16. HistoryIsValid'
  BY <1>0, <1>5, <1>7, <1>15, HistoryStaysValid
<1> QED
  BY <1>9, <1>10, <1>16 DEF SteeringInv

\* The pause that ends a transaction, with its source before it or by itself.
LEMMA PauseFollows ==
  ASSUME SteeringInv, SteeringTypeOK', RowsAreAppended, UNCHANGED pending,
         NEW reason, NEW source, NEW n, n = Len(history'), n > Len(history),
         history'[n] = [kind |-> "pause", reason |-> reason, run |-> queue.target,
                        revision |-> queue.revision + 1, source |-> source],
         queue.revision > 0, ~queue.paused,
         queue' = [queue EXCEPT !.paused = TRUE, !.revision = @ + 1],
         \/ n = Len(history) + 1 /\ reason = "recovery" /\ source = 0
         \/ /\ n = Len(history) + 2 /\ source = Len(history) + 1
            /\ history'[source] \in SourceRows
            /\ history'[source].kind \in {"cancelled", "ended", "archive"}
            /\ reason = Reasons[history'[source].kind]
            /\ history'[source].kind # "archive" => history'[source].run = queue.target
  PROVE  SteeringInv'
<1>0. /\ SteeringTypeOK /\ RowsAreOwned /\ AppliedOnce
      /\ HistoryIsValid /\ QueueIsCurrent /\ PendingIsCurrent
  BY DEF SteeringInv
<1>1. /\ Len(history) \in Nat /\ DOMAIN history = 1 .. Len(history)
      /\ Len(history') \in Nat /\ DOMAIN history' = 1 .. Len(history')
  BY <1>0, RowTypes, RowTypesNext DEF RowsTyped
<1>2. \A i \in Len(history) + 1 .. Len(history') : i = n \/ (i = source /\ reason # "recovery" /\ i = n - 1)
  BY <1>1 DEF Reasons
<1>3. CASE n = Len(history) + 1 /\ reason = "recovery" /\ source = 0
  <2>1. \A i \in Len(history) + 1 .. n - 1 : FALSE
    BY <1>1, <1>3
  <2>2. QueueIsCurrent' /\ UnpausedBefore(n)' /\ TargetBefore(n)' = queue.target
        /\ LET p == LatestBefore(SteeringRows, n)'
           IN p # 0 => history'[n].revision = history'[p].revision + 1
    BY <1>0, <2>1, PauseAppended
  <2>3. \A i \in Len(history) + 1 .. Len(history') : i = n
    BY <1>1, <1>3
  <2>4. /\ n \notin MutationRows' /\ n \notin RowsOf("cancelled")' /\ n \notin RowsOf("ended")'
        /\ n \notin RowsOf("archive")'
    BY DEF MutationRows, RowsOf
  <2>5. RowsAreOwned' /\ AppliedOnce'
    BY <1>0, <1>3, <2>3, <2>4, OwnedStays
  <2>6. PendingIsCurrent'
    BY <1>0, <2>3, <2>4, PendingStaysCurrent
  <2>7. PauseIsValid(n)'
    BY <1>1, <1>3, <2>2 DEF PauseIsValid
  <2>8. RowIsValid(n)'
    BY <2>2, <2>4, <2>7 DEF RowIsValid
  <2>9. HistoryIsValid'
    BY <1>0, <2>3, <2>8, HistoryStaysValid
  <2> QED
    BY <2>2, <2>5, <2>6, <2>9 DEF SteeringInv
<1>4. CASE /\ n = Len(history) + 2 /\ source = Len(history) + 1
           /\ history'[source] \in SourceRows
           /\ history'[source].kind \in {"cancelled", "ended", "archive"}
           /\ reason = Reasons[history'[source].kind]
           /\ history'[source].kind # "archive" => history'[source].run = queue.target
  <2>1. /\ source \notin MutationRows' /\ source \notin SteeringRows'
        /\ source \notin RowsOf("pause")'
    BY <1>4 DEF MutationRows, SteeringRows, RowsOf
  <2>2. \A i \in Len(history) + 1 .. n - 1 : i \notin SteeringRows'
    BY <1>1, <1>4, <2>1
  <2>3. QueueIsCurrent' /\ UnpausedBefore(n)' /\ TargetBefore(n)' = queue.target
        /\ LET p == LatestBefore(SteeringRows, n)'
           IN p # 0 => history'[n].revision = history'[p].revision + 1
    BY <1>0, <2>2, PauseAppended
  <2>4. \A i \in Len(history) + 1 .. Len(history') : i = n \/ i = source
    BY <1>2
  <2>5. /\ n \notin MutationRows' /\ n \notin RowsOf("cancelled")' /\ n \notin RowsOf("ended")'
        /\ n \notin RowsOf("archive")'
    BY DEF MutationRows, RowsOf
  <2>6. source \in 1 .. n - 1
    BY <1>1, <1>4
  <2>7. RowsAreOwned' /\ AppliedOnce'
    BY <1>0, <2>1, <2>4, <2>5, <2>6, OwnedStays
  <2>8. PendingIsCurrent'
    BY <1>0, <2>1, <2>4, <2>5, PendingStaysCurrent
  <2>9. PauseIsValid(n)'
    <3>1. history'[source].kind = "archive" <=> reason = "archive"
      BY <1>4 DEF Reasons
    <3>2. source < n
      BY <1>1, <1>4
    <3> QED
      BY <1>4, <2>3, <3>1, <3>2 DEF PauseIsValid
  <2>10. RowIsValid(n)'
    BY <2>3, <2>5, <2>9 DEF RowIsValid
  <2>11. n \in RowsOf("pause")'
    BY <1>1, <1>4 DEF RowsOf
  <2>12. SourceIsHonoured(source)'
    BY <1>4, <2>11 DEF SourceIsHonoured
  <2>13. RowIsValid(source)'
    BY <2>1, <2>12 DEF RowIsValid
  <2>14. HistoryIsValid'
    BY <1>0, <2>4, <2>10, <2>13, HistoryStaysValid
  <2> QED
    BY <2>3, <2>7, <2>8, <2>14 DEF SteeringInv
<1> QED
  BY <1>3, <1>4

\* Steps that leave the rows and the projections alone.
LEMMA TablesUnchanged ==
  ASSUME SteeringInv, SteeringTypeOK', UNCHANGED <<history, queue, pending>>
  PROVE  SteeringInv'
<1>1. /\ SteeringTypeOK /\ RowsAreOwned /\ AppliedOnce
      /\ HistoryIsValid /\ QueueIsCurrent /\ PendingIsCurrent
  BY DEF SteeringInv
<1>2. RowsAreOwned' /\ AppliedOnce' /\ HistoryIsValid'
  BY <1>1, HistoryUnchanged
<1>3. QueueIsCurrent'
  BY <1>1 DEF QueueIsCurrent, TargetBefore, UnpausedBefore, PausedRows, TargetRows, SteeringRows,
     MutationRows, RowsOf, Now
<1>4. PendingIsCurrent'
  BY <1>1, SMTT(30) DEF PendingIsCurrent, RebuiltItems, LatestOfItem, EnqueuedAt, RowsWith, MutationRows,
     RowsOf, Now
<1> QED
  BY <1>2, <1>3, <1>4 DEF SteeringInv

\* A queue that is not paused has a row, and a row has a target.
LEMMA UnpausedHasRow ==
  ASSUME SteeringTypeOK, QueueIsCurrent
  PROVE  /\ ~queue.paused => queue.revision > 0
         /\ queue.revision > 0 => queue.target \in Runs
         /\ queue.revision = 0 <=> SteeringRows = {}
<1>1. queue.revision \in Nat /\ queue.paused \in BOOLEAN
  BY DEF SteeringTypeOK
<1>2. queue.revision = 0 => SteeringRows = {}
  <2>1. \A i \in SteeringRows : history[i].revision \in 1 .. queue.revision
    BY DEF QueueIsCurrent
  <2> QED
    BY <2>1
<1>3. ASSUME SteeringRows = {} PROVE ~UnpausedBefore(Now)
  <2>1. PausedRows = {} /\ Now \in Nat
    BY <1>3, RowTypes DEF PausedRows, Now
  <2>2. LatestBefore(PausedRows, Now) = 0
    BY <2>1, LatestIsNone
  <2> QED
    BY <2>2 DEF UnpausedBefore
<1>4. ~queue.paused => queue.revision > 0
  <2>1. UnpausedBefore(Now) \in BOOLEAN /\ queue.paused = ~UnpausedBefore(Now)
    BY DEF UnpausedBefore, QueueIsCurrent
  <2>2. ~queue.paused => SteeringRows # {}
    BY <1>3, <2>1
  <2> QED
    BY <1>1, <1>2, <2>2
<1> QED
  BY <1>1, <1>2, <1>4 DEF QueueIsCurrent

\* A transaction that appends a source and pauses.
LEMMA AppendAndPauseStep ==
  ASSUME SteeringInv, UNCHANGED <<pending, clients>>,
         NEW rows, NEW reason, NEW about,
         AppendAndPause(rows, reason, about),
         \/ rows = <<>> /\ reason = "recovery" /\ about = Runs
         \/ \E src \in SourceRows :
              /\ rows = <<src>> /\ src.kind \in {"cancelled", "ended", "archive"}
              /\ reason = Reasons[src.kind]
              /\ about = IF src.kind # "archive" THEN {src.run}
                         ELSE IF src.flag THEN Runs ELSE {}
  PROVE  SteeringInv'
<1>0. SteeringTypeOK /\ QueueIsCurrent
  BY DEF SteeringInv
<1>1. /\ history \in Seq(HistoryRows) /\ Len(history) \in Nat /\ DOMAIN history = 1 .. Len(history)
      /\ queue \in [revision : Nat, target : Runs \cup {NoRun}, paused : BOOLEAN]
  BY <1>0, RowTypes DEF SteeringTypeOK
<1>2. ASSUME history' \in Seq(HistoryRows),
             queue' \in [revision : Nat, target : Runs \cup {NoRun}, paused : BOOLEAN]
      PROVE  SteeringTypeOK'
  BY <1>0, <1>2 DEF SteeringTypeOK, clients
<1>3. /\ ~queue.paused => queue.revision > 0
      /\ queue.revision > 0 => queue.target \in Runs
  BY <1>0, UnpausedHasRow
<1>4. SourceRows \subseteq HistoryRows
  BY DEF SourceRows, HistoryRows
<1>5. CASE queue.revision > 0 /\ ~queue.paused /\ queue.target \in about
  <2> DEFINE row(r, s) == [kind |-> "pause", reason |-> r, run |-> queue.target,
                           revision |-> queue.revision + 1, source |-> s]
  <2>1. /\ history' = history \o Append(rows, row(reason, IF rows = <<>> THEN 0
                                                     ELSE Len(history) + Len(rows)))
        /\ queue' = [queue EXCEPT !.paused = TRUE, !.revision = @ + 1]
    BY <1>5 DEF AppendAndPause
  <2>2. \A r \in {"cancellation", "terminal", "archive", "recovery"}, s \in Nat :
           row(r, s) \in HistoryRows
    <3>1. queue.revision + 1 \in Nat /\ queue.target \in Runs
      BY <1>1, <1>3, <1>5
    <3> QED
      BY <3>1 DEF HistoryRows, PauseRowType
  <2>3. queue' \in [revision : Nat, target : Runs \cup {NoRun}, paused : BOOLEAN]
    <3>1. queue.revision + 1 \in Nat
      BY <1>1
    <3> HIDE DEF row
    <3> QED
      BY <1>1, <2>1, <3>1
  <2>4. CASE rows = <<>> /\ reason = "recovery" /\ about = Runs
    <3>1. PICK p : p = row("recovery", 0)
      OBVIOUS
    <3>2. p \in HistoryRows
      BY <2>2, <3>1
    <3>3. history' = Append(history, p)
      BY <1>1, <2>1, <2>4, <3>1, <3>2, AppendAndPauseCases
    <3>4. PICK n : n = Len(history')
      OBVIOUS
    <3>5. /\ n = Len(history) + 1 /\ history'[n] = p /\ history' \in Seq(HistoryRows)
          /\ \A i \in 1 .. Len(history) : history'[i] = history[i]
      BY <1>1, <3>2, <3>3, <3>4, AppendedRow
    <3>6. RowsAreAppended /\ n > Len(history)
      BY <1>1, <3>4, <3>5 DEF RowsAreAppended
    <3>7. history'[n] = [kind |-> "pause", reason |-> "recovery", run |-> queue.target,
                         revision |-> queue.revision + 1, source |-> 0]
      BY <3>1, <3>5
    <3>8. SteeringTypeOK'
      BY <1>2, <2>3, <3>5
    <3> HIDE DEF row
    <3> QED
      BY <1>5, <2>1, <3>4, <3>5, <3>6, <3>7, <3>8, PauseFollows
  <2>5. ASSUME NEW src \in SourceRows,
               rows = <<src>>, src.kind \in {"cancelled", "ended", "archive"},
               reason = Reasons[src.kind], src.kind # "archive" => about = {src.run}
        PROVE  SteeringInv'
    <3>0. PICK m : m = Len(history) + 1
      OBVIOUS
    <3>1. PICK p : p = row(reason, m)
      OBVIOUS
    <3>2. p \in HistoryRows /\ m \in Nat
      <4>1. reason \in {"cancellation", "terminal", "archive", "recovery"} /\ m \in Nat
        BY <1>1, <2>5, <3>0 DEF Reasons
      <4> QED
        BY <2>2, <3>1, <4>1
    <3>3. history' = Append(Append(history, src), p)
      <4>1. rows # <<>> /\ Len(history) + Len(rows) = m
        BY <2>5, <3>0
      <4>2. history' = history \o Append(<<src>>, p)
        BY <2>1, <2>5, <3>1, <4>1
      <4> QED
        BY <1>1, <1>4, <3>2, <4>2, AppendAndPauseCases
    <3>4. PICK n : n = Len(history')
      OBVIOUS
    <3>5. PICK s : s = Append(history, src)
      OBVIOUS
    <3>6. /\ s \in Seq(HistoryRows) /\ Len(s) = m /\ s[m] = src
          /\ \A i \in 1 .. Len(history) : s[i] = history[i]
      BY <1>1, <1>4, <3>0, <3>5, AppendedRow
    <3>7. /\ n = m + 1 /\ history'[n] = p /\ history' \in Seq(HistoryRows)
          /\ \A i \in 1 .. m : history'[i] = s[i]
      BY <3>2, <3>3, <3>4, <3>5, <3>6, AppendedRow
    <3>8. n = Len(history) + 2 /\ n > Len(history) /\ m \in 1 .. m
      BY <1>1, <3>0, <3>7
    <3>9. \A i \in 1 .. Len(history) : i \in 1 .. m
      BY <1>1, <3>0
    <3>10. RowsAreAppended
      BY <1>1, <3>4, <3>6, <3>7, <3>8, <3>9 DEF RowsAreAppended
    <3>11. history'[n] = [kind |-> "pause", reason |-> reason, run |-> queue.target,
                         revision |-> queue.revision + 1, source |-> m]
      BY <3>1, <3>7
    <3>12. history'[m] = src
      BY <3>6, <3>7, <3>8
    <3>13. SteeringTypeOK'
      BY <1>2, <2>3, <3>7
    <3>14. src.kind # "archive" => src.run = queue.target
      BY <1>5, <2>5
    <3>15. /\ n = Len(history) + 2 /\ m = Len(history) + 1
           /\ history'[m] \in SourceRows
           /\ history'[m].kind \in {"cancelled", "ended", "archive"}
           /\ reason = Reasons[history'[m].kind]
           /\ history'[m].kind # "archive" => history'[m].run = queue.target
      BY <2>5, <3>0, <3>8, <3>12, <3>14
    <3>16. /\ queue.revision > 0 /\ ~queue.paused /\ UNCHANGED pending
           /\ queue' = [queue EXCEPT !.paused = TRUE, !.revision = @ + 1]
      BY <1>5, <2>1
    <3> HIDE DEF row
    <3> QED
      BY <3>4, <3>8, <3>10, <3>11, <3>13, <3>15, <3>16, PauseFollows
  <2> QED
    BY <2>4, <2>5
<1>6. CASE ~(queue.revision > 0 /\ ~queue.paused /\ queue.target \in about)
  <2>1. history' = history \o rows /\ UNCHANGED queue
    BY <1>6 DEF AppendAndPause
  <2>2. CASE rows = <<>>
    <3>1. history' = history
      BY <1>1, <2>1, <2>2, ConcatEmptySeq
    <3> QED
      BY <1>1, <1>2, <2>1, <3>1, TablesUnchanged
  <2>3. ASSUME NEW src \in SourceRows,
               rows = <<src>>, src.kind \in {"cancelled", "ended", "archive"},
               src.kind # "archive" => about = {src.run},
               src.kind = "archive" /\ src.flag => about = Runs
        PROVE  SteeringInv'
    <3>1. src \in HistoryRows
      BY <1>4
    <3>2. history' = Append(history, src)
      BY <1>1, <2>1, <2>3, <3>1, AppendAndPauseCases
    <3>3. history' \in Seq(HistoryRows)
      BY <1>1, <3>1, <3>2, AppendedRow
    <3>4. SteeringTypeOK'
      BY <1>1, <1>2, <2>1, <3>3
    <3>5. \/ src.kind \in {"cancelled", "ended"} /\ (queue.paused \/ queue.target # src.run)
          \/ src.kind = "archive" /\ (src.flag => queue.paused)
      BY <1>3, <1>6, <2>3
    <3> QED
      BY <2>1, <3>2, <3>4, <3>5, SourceAppended
  <2> QED
    BY <2>2, <2>3
<1> QED
  BY <1>5, <1>6

--------------------------------------------------------------------------------
(* Mutations. *)

\* A request that has no row is applied.
Applies(q) == Receipt(q) = 0 /\ CanMutate(q) /\ ApplyMutation(q)

LEMMA NoReceipt ==
  ASSUME SteeringTypeOK, NEW q
  PROVE  /\ Receipt(q) = 0 => \A j \in MutationRows : history[j].request # q
         /\ Receipt(q) \in Nat
         /\ Receipt(q) # 0 => Receipt(q) \in MutationRows /\ history[Receipt(q)].request = q
<1> DEFINE S == {i \in MutationRows : history[i].request = q}
<1>1. S \in SUBSET (Nat \ {0}) /\ Now \in Nat /\ Len(history) \in Nat
  BY RowSets, RowTypes DEF Now
<1>2. \A i \in S : i < Now /\ i \in MutationRows /\ history[i].request = q
  BY RowTypes DEF Now, MutationRows, RowsOf
<1>3. \A j \in MutationRows : history[j].request = q => j \in S
  OBVIOUS
<1>4. Receipt(q) = LatestBefore(S, Now)
  BY DEF Receipt
<1> HIDE DEF S
<1>5. LatestBefore(S, Now) = 0 <=> \A i \in S : ~(i < Now)
  BY <1>1, LatestIsNone
<1>6. LatestBefore(S, Now) \in Nat /\ (LatestBefore(S, Now) # 0 => LatestBefore(S, Now) \in S)
  BY <1>1, LatestIsLatest
<1> QED
  BY <1>2, <1>3, <1>4, <1>5, <1>6

LEMMA AppliedRow ==
  ASSUME SteeringInv, NEW q \in Requests, Applies(q),
         NEW n, n = Len(history) + 1, NEW m, m = mutation[q], NEW row, row = history'[n]
  PROVE  /\ m \in MutationType /\ n \in Nat \ {0} /\ n = Len(history')
         /\ RowsAreAppended /\ history' \in Seq(HistoryRows)
         /\ row \in MutationRowType
         /\ row.request = q /\ row.change = m.change /\ row.run = m.run
         /\ row.revision = queue.revision + 1 /\ m.expected = queue.revision
         /\ m.change = "enqueue" => row.item = q /\ row.itemRevision = 1
         /\ m.change = "edit" => row.item = m.item /\ row.itemRevision = m.itemRevision + 1
         /\ m.change = "remove" => row.item = m.item /\ row.itemRevision = m.itemRevision
         /\ m.change \notin ItemChanges => row.item = "none"
         /\ m.change \in TargetChanges => m.run \in Runs
         /\ m.change \in {"edit", "remove"} =>
              m.item \in DOMAIN pending /\ pending[m.item].revision = m.itemRevision
         /\ m.change # "enqueue" => queue.revision > 0
         /\ \A j \in MutationRows : history[j].request # q
<1>0. SteeringTypeOK
  BY DEF SteeringInv
<1>1. /\ history \in Seq(HistoryRows) /\ Len(history) \in Nat /\ DOMAIN history = 1 .. Len(history)
      /\ queue.revision \in Nat /\ m \in MutationType \cup {NoMutation}
      /\ DOMAIN pending \subseteq Requests
  BY <1>0, RowTypes DEF SteeringTypeOK
<1>2. /\ m.expected = queue.revision
      /\ m.change \in TargetChanges => TargetAcceptsSteering(m.run)
      /\ m.change \in {"edit", "remove"} =>
           m.item \in DOMAIN pending /\ pending[m.item].revision = m.itemRevision
      /\ m.change # "enqueue" => queue.revision > 0
  BY DEF Applies, CanMutate
<1>3. m \in MutationType
  BY <1>1, <1>2 DEF NoMutation
<1>4. m.change \in TargetChanges => m.run \in Runs
  <2> SUFFICES ASSUME m.change \in TargetChanges PROVE m.run \in Runs
    OBVIOUS
  <2>1. PICK i \in RowsOf("accepted") : history[i].run = m.run
    BY <1>2 DEF TargetAcceptsSteering, RunIsLive, HasRow
  <2>2. history[i] \in RunRows
    BY <1>0, RowTypes
  <2> QED
    BY <2>1, <2>2 DEF RunRows
<1>5. PICK item : item = ReceiptItem(q)
  OBVIOUS
<1>6. /\ m.change = "enqueue" => item = <<q, 1>>
      /\ m.change = "edit" => item = <<m.item, m.itemRevision + 1>>
      /\ m.change = "remove" => item = <<m.item, m.itemRevision>>
      /\ m.change \notin ItemChanges => item = <<"none", 0>>
  BY <1>5 DEF ReceiptItem, ItemChanges
<1>7. /\ m.change \in Changes /\ m.expected \in Nat /\ m.run \in Runs \cup {NoRun}
      /\ m.item \in Requests \cup {"none"} /\ m.itemRevision \in Nat /\ m.itemRevision + 1 \in Nat
  BY <1>3 DEF MutationType
<1>8. item[1] \in Requests \cup {"none"} /\ item[2] \in Nat
  BY <1>6, <1>7 DEF ItemChanges
<1>9. m.expected + 1 \in Nat
  BY <1>7
<1>10. PICK r : r = [kind |-> "mutation", request |-> q, change |-> m.change, run |-> m.run,
                     item |-> item[1], itemRevision |-> item[2], revision |-> m.expected + 1]
  OBVIOUS
<1>11. r \in MutationRowType
  BY <1>7, <1>8, <1>9, <1>10 DEF MutationRowType
<1>12. history' = Append(history, r)
  BY <1>5, <1>10 DEF Applies, ApplyMutation
<1>13. /\ history' \in Seq(HistoryRows) /\ Len(history') = n /\ row = r
       /\ \A i \in 1 .. Len(history) : history'[i] = history[i]
  <2>1. r \in HistoryRows
    BY <1>11 DEF HistoryRows
  <2> QED
    BY <1>1, <1>12, <2>1, AppendedRow
<1>14. RowsAreAppended /\ n \in Nat \ {0}
  BY <1>1, <1>13 DEF RowsAreAppended
<1>15. \A j \in MutationRows : history[j].request # q
  BY <1>0, NoReceipt DEF Applies
<1>16. /\ row.request = q /\ row.change = m.change /\ row.run = m.run
       /\ row.revision = queue.revision + 1
       /\ row.item = item[1] /\ row.itemRevision = item[2]
  BY <1>2, <1>10, <1>13
<1>17. /\ m.change = "enqueue" => row.item = q /\ row.itemRevision = 1
       /\ m.change = "edit" => row.item = m.item /\ row.itemRevision = m.itemRevision + 1
       /\ m.change = "remove" => row.item = m.item /\ row.itemRevision = m.itemRevision
       /\ m.change \notin ItemChanges => row.item = "none"
  BY <1>6, <1>16
<1> QED
  BY <1>2, <1>3, <1>4, <1>11, <1>13, <1>14, <1>15, <1>16, <1>17

LEMMA ReceiptRowsOwned ==
  ASSUME SteeringInv, SteeringTypeOK', NEW q \in Requests, Applies(q)
  PROVE  RowsAreOwned' /\ AppliedOnce'
<1>0. /\ SteeringTypeOK /\ RowsAreOwned /\ AppliedOnce /\ PendingIsCurrent
  BY DEF SteeringInv
<1>1. /\ Len(history) \in Nat /\ DOMAIN history = 1 .. Len(history)
      /\ DOMAIN history' = 1 .. Len(history')
  BY <1>0, RowTypes, RowTypesNext DEF RowsTyped
<1> PICK n : n = Len(history) + 1
  OBVIOUS
<1> PICK m : m = mutation[q]
  OBVIOUS
<1> PICK row : row = history'[n]
  OBVIOUS
<1>2. /\ m \in MutationType /\ n \in Nat \ {0} /\ n = Len(history') /\ RowsAreAppended
      /\ row \in MutationRowType /\ row.request = q /\ row.change = m.change /\ row.run = m.run
      /\ m.change = "enqueue" => row.item = q
      /\ m.change = "edit" => row.item = m.item
      /\ m.change = "remove" => row.item = m.item
      /\ m.change \notin ItemChanges => row.item = "none"
      /\ m.change \in TargetChanges => m.run \in Runs
      /\ m.change \in {"edit", "remove"} => m.item \in DOMAIN pending
      /\ \A j \in MutationRows : history[j].request # q
  BY AppliedRow
<1>3. \A i \in DOMAIN history' : i \in DOMAIN history \/ i = n
  BY <1>1, <1>2
<1>4. \A i \in MutationRows' : i = n \/ (i \in MutationRows /\ history'[i] = history[i])
  BY <1>0, <1>2, <1>3, OldRows DEF MutationRows, RowsOf
<1>5. \A i \in MutationRows : i \in MutationRows' /\ history'[i] = history[i] /\ i <= n
  BY <1>0, <1>1, <1>2, OldRows DEF MutationRows, RowsOf
<1>6. n \in MutationRows'
  BY <1>1, <1>2 DEF MutationRows, RowsOf, MutationRowType
<1>7. /\ row.change = "enqueue" => row.item = row.request
      /\ row.change \in TargetChanges => row.run \in Runs
      /\ row.change \notin ItemChanges => row.item = "none"
  BY <1>2
<1>8. ASSUME row.item \in Requests
      PROVE  \E j \in MutationRows' : j <= n /\ history'[j].request = row.item
                                        /\ history'[j].change = "enqueue"
  <2>1. CASE m.change = "enqueue"
    BY <1>2, <1>6, <2>1
  <2>2. CASE m.change \in {"edit", "remove"}
    <3>1. row.item \in RebuiltItems
      BY <1>0, <1>2, <2>2 DEF PendingIsCurrent
    <3>2. PICK p : p = LatestRowOf(row.item, Now)
      OBVIOUS
    <3>3. p # 0
      BY <3>1, <3>2 DEF RebuiltItems, LatestOfItem, LatestRowOf
    <3>4. Now \in Nat
      BY <1>1 DEF Now
    <3>5. p \in MutationRows /\ history[p].item = row.item
      BY <1>0, <3>2, <3>3, <3>4, LatestRowFacts
    <3>6. PICK j \in MutationRows : history[j].request = row.item /\ history[j].change = "enqueue"
      BY <1>0, <1>8, <3>5 DEF RowsAreOwned
    <3> QED
      BY <1>5, <3>6
  <2>3. CASE m.change \notin ItemChanges
    BY <1>2, <1>8, <2>3, SteeringAssumption
  <2> QED
    BY <2>1, <2>2, <2>3 DEF ItemChanges
<1>9. ASSUME NEW i \in MutationRows'
      PROVE  LET x == history'[i]
             IN /\ x.change = "enqueue" => x.item = x.request
                /\ x.change \in TargetChanges => x.run \in Runs
                /\ x.change \notin ItemChanges => x.item = "none"
                /\ x.item \in Requests =>
                     \E j \in MutationRows' : j <= i /\ history'[j].request = x.item
                                                /\ history'[j].change = "enqueue"
  <2>1. CASE i = n
    BY <1>7, <1>8, <2>1
  <2>2. CASE i \in MutationRows /\ history'[i] = history[i]
    BY <1>0, <1>5, <2>2 DEF RowsAreOwned
  <2> QED
    BY <1>4, <2>1, <2>2
<1>10. ASSUME NEW i \in RowsOf("pause")', history'[i].reason # "recovery"
       PROVE  history'[i].source \in 1 .. i - 1
  <2>1. i # n /\ i \in DOMAIN history'
    BY <1>2 DEF RowsOf, MutationRowType
  <2>2. i \in RowsOf("pause") /\ history'[i] = history[i]
    BY <1>0, <1>2, <1>3, <2>1, OldRows
  <2> QED
    BY <1>0, <1>10, <2>2 DEF RowsAreOwned
<1>11. RowsAreOwned'
  BY <1>9, <1>10 DEF RowsAreOwned
<1>12. AppliedOnce'
  BY <1>0, <1>2, <1>4 DEF AppliedOnce
<1> QED
  BY <1>11, <1>12

LEMMA ReceiptQueueCurrent ==
  ASSUME SteeringInv, SteeringTypeOK', NEW q \in Requests, Applies(q)
  PROVE  QueueIsCurrent'
<1>0. SteeringTypeOK /\ QueueIsCurrent
  BY DEF SteeringInv
<1>1. /\ Len(history) \in Nat /\ DOMAIN history = 1 .. Len(history)
      /\ DOMAIN history' = 1 .. Len(history')
  BY <1>0, RowTypes, RowTypesNext DEF RowsTyped
<1> PICK n : n = Len(history) + 1
  OBVIOUS
<1> PICK m : m = mutation[q]
  OBVIOUS
<1> PICK row : row = history'[n]
  OBVIOUS
<1>2. /\ m \in MutationType /\ n \in Nat \ {0} /\ n = Len(history') /\ RowsAreAppended
      /\ row \in MutationRowType /\ row.change = m.change /\ row.run = m.run
      /\ row.revision = queue.revision + 1 /\ m.expected = queue.revision
      /\ m.change \in TargetChanges => m.run \in Runs
      /\ m.change # "enqueue" => queue.revision > 0
  BY AppliedRow
<1>3. queue.revision \in Nat /\ queue.paused \in BOOLEAN
  BY <1>0 DEF SteeringTypeOK
<1>4. /\ queue'.revision = queue.revision + 1
      /\ queue'.target = IF m.change \in TargetChanges THEN m.run ELSE queue.target
      /\ m.change = "pause" => queue'.paused = TRUE
      /\ m.change = "resume" => queue'.paused = FALSE
      /\ m.change \notin {"pause", "resume"} => queue'.paused = queue.paused
  BY <1>2 DEF Applies, ApplyMutation
<1>5. \A i \in DOMAIN history' : i \in DOMAIN history \/ i = n
  BY <1>1, <1>2
<1>6. \A i \in DOMAIN history : i \in DOMAIN history' /\ history'[i] = history[i] /\ i <= n /\ i < n
  BY <1>0, <1>1, <1>2, OldRows
<1>7. n \in SteeringRows' /\ n \in DOMAIN history'
  BY <1>1, <1>2 DEF SteeringRows, MutationRows, RowsOf, MutationRowType
<1>8. \A i \in SteeringRows' : i <= n /\ i \in DOMAIN history'
  BY <1>5, <1>6 DEF SteeringRows, MutationRows, RowsOf
<1>9. PICK k : k = n + 1
  OBVIOUS
<1>10. QueueIsCurrentAt(n)
  BY <1>0, QueueAtNow DEF Now
<1>11. /\ LatestBefore(SteeringRows', k) = n
       /\ n \in PausedRows' => LatestBefore(PausedRows', k) = n
       /\ n \in TargetRows' => LatestBefore(TargetRows', k) = n
  <2>1. \A S \in {SteeringRows', PausedRows', TargetRows'} :
           S \subseteq Nat \ {0} /\ \A i \in S : i <= n
    BY <1>8, RowSetsNext DEF SetsTyped, PausedRows, TargetRows
  <2> QED
    BY <1>7, <1>9, <2>1, LatestOfAll
<1>12. /\ n \notin PausedRows' => LatestBefore(PausedRows', k) = LatestBefore(PausedRows, n)
       /\ n \notin TargetRows' => LatestBefore(TargetRows', k) = LatestBefore(TargetRows, n)
  <2>1. \A S \in {PausedRows', TargetRows'} : S \subseteq Nat \ {0} /\ \A i \in S : i <= n
    BY <1>8, RowSetsNext DEF SetsTyped, PausedRows, TargetRows
  <2>2. ASSUME NEW S \in {PausedRows', TargetRows'}, n \notin S
        PROVE  LatestBefore(S, k) = LatestBefore(S, n)
    <3>1. \A i \in S : i < k <=> i < n
      BY <1>2, <1>9, <2>1, <2>2
    <3>2. {i \in S : i < k} = {i \in S : i < n}
      BY <3>1
    <3> QED
      BY <1>2, <1>9, <3>2, LatestOfSame
  <2>3. /\ LatestBefore(PausedRows', n) = LatestBefore(PausedRows, n)
        /\ LatestBefore(TargetRows', n) = LatestBefore(TargetRows, n)
    <3>1. n \in 1 .. Len(history) + 1
      BY <1>2
    <3> QED
      BY <1>0, <1>2, <3>1, OldLatest
  <2> QED
    BY <2>2, <2>3
<1>13. /\ n \in PausedRows' <=> (row.change \in {"pause", "resume"} \/ row.revision = 1)
       /\ n \in TargetRows' <=> row.change \in TargetChanges
       /\ row.kind = "mutation"
  BY <1>2, <1>7 DEF PausedRows, TargetRows, MutationRowType
<1>14. queue'.target = TargetBefore(k)'
  <2>1. CASE m.change \in TargetChanges
    BY <1>2, <1>4, <1>11, <1>13, <2>1 DEF TargetBefore
  <2>2. CASE m.change \notin TargetChanges
    <3>1. PICK t : t = LatestBefore(TargetRows, n)
      OBVIOUS
    <3>2. t = LatestBefore(TargetRows', k)
      BY <1>2, <1>12, <1>13, <2>2, <3>1
    <3>3. t # 0 => t \in TargetRows
      BY <1>0, <1>2, <3>1, LatestIsLatest, RowSets
    <3>4. t # 0 => history'[t] = history[t]
      BY <1>6, <3>3 DEF TargetRows, SteeringRows, MutationRows, RowsOf
    <3>5. TargetBefore(n) = TargetBefore(k)'
      BY <3>1, <3>2, <3>4 DEF TargetBefore
    <3> QED
      BY <1>4, <1>10, <2>2, <3>5 DEF QueueIsCurrentAt
  <2> QED
    BY <2>1, <2>2
<1>15. queue'.paused = ~UnpausedBefore(k)'
  <2>1. CASE m.change \in {"pause", "resume"}
    BY <1>2, <1>4, <1>11, <1>13, <2>1 DEF UnpausedBefore
  <2>2. CASE m.change \notin {"pause", "resume"} /\ queue.revision = 0
    <3>1. n \in PausedRows' /\ LatestBefore(PausedRows', k) = n
      BY <1>2, <1>11, <1>13, <2>2
    <3>2. ~UnpausedBefore(k)'
      BY <1>2, <2>2, <3>1 DEF UnpausedBefore
    <3>3. queue.paused
      BY <1>0, <2>2, UnpausedHasRow
    <3> QED
      BY <1>3, <1>4, <2>2, <3>2, <3>3
  <2>3. CASE m.change \notin {"pause", "resume"} /\ queue.revision # 0
    <3>0. n \notin PausedRows'
      BY <1>2, <1>3, <1>13, <2>3
    <3>1. PICK t : t = LatestBefore(PausedRows, n)
      OBVIOUS
    <3>2. t = LatestBefore(PausedRows', k)
      BY <1>12, <3>0, <3>1
    <3>3. t # 0 => t \in PausedRows
      BY <1>0, <1>2, <3>1, LatestIsLatest, RowSets
    <3>4. t # 0 => history'[t] = history[t]
      BY <1>6, <3>3 DEF PausedRows, SteeringRows, MutationRows, RowsOf
    <3>5. UnpausedBefore(n) = UnpausedBefore(k)'
      BY <3>1, <3>2, <3>4 DEF UnpausedBefore
    <3> QED
      BY <1>4, <1>10, <2>3, <3>5 DEF QueueIsCurrentAt
  <2> QED
    BY <2>1, <2>2, <2>3
<1>16. \A i \in SteeringRows' : history'[i].revision \in 1 .. queue'.revision
  <2> TAKE i \in SteeringRows'
  <2>1. CASE i = n
    BY <1>2, <1>3, <1>4, <2>1
  <2>2. CASE i # n
    <3>1. i \in DOMAIN history
      BY <1>5, <1>8, <2>2
    <3>2. i \in SteeringRows /\ history'[i] = history[i]
      BY <1>0, <1>2, <3>1, OldRows
    <3>3. history[i].revision \in 1 .. queue.revision
      BY <1>10, <3>2 DEF QueueIsCurrentAt
    <3> QED
      BY <1>3, <1>4, <3>2, <3>3
  <2> QED
    BY <2>1, <2>2
<1>17. queue'.target \in Runs
  BY <1>2, <1>4, <1>10 DEF QueueIsCurrentAt, TargetChanges
<1>18. SteeringRows' # {} /\ history'[LatestBefore(SteeringRows', k)].revision = queue'.revision
  BY <1>2, <1>4, <1>7, <1>11
<1>19. QueueIsCurrentAt(k)'
  BY <1>14, <1>15, <1>16, <1>17, <1>18 DEF QueueIsCurrentAt
<1> QED
  BY <1>2, <1>9, <1>19, QueueAtNowNext DEF Now

\* Slots are distinct, so no more messages are pending than there are slots.
LEMMA PendingFits ==
  ASSUME SteeringTypeOK, PendingIsCurrent
  PROVE  IsFiniteSet(DOMAIN pending) /\ Cardinality(DOMAIN pending) \in 0 .. Capacity
<1> DEFINE slot == [i \in DOMAIN pending |-> pending[i].slot]
<1>1. /\ \A i \in DOMAIN pending : pending[i].slot \in 1 .. Capacity
      /\ \A i, j \in DOMAIN pending : pending[i].slot = pending[j].slot => i = j
  BY DEF SteeringTypeOK, PendingIsCurrent, PendingRows
<1>2. slot \in Injection(DOMAIN pending, 1 .. Capacity)
  BY <1>1 DEF Injection, IsInjective
<1>3. Capacity \in Nat
  BY SteeringAssumption
<1>4. IsFiniteSet(1 .. Capacity) /\ Cardinality(1 .. Capacity) = Capacity
  BY <1>3, FS_Interval
<1> HIDE DEF slot
<1>5. IsFiniteSet(DOMAIN pending) /\ Cardinality(DOMAIN pending) <= Capacity
  BY <1>2, <1>4, FS_Injection
<1>6. Cardinality(DOMAIN pending) \in Nat
  BY <1>5, FS_CardinalityType
<1> QED
  BY <1>3, <1>5, <1>6

PendingFit == IsFiniteSet(DOMAIN pending) /\ Cardinality(DOMAIN pending) \in 0 .. Capacity

LEMMA PendingFitsNext == SteeringTypeOK' /\ PendingIsCurrent' => PendingFit'
<1>1. SteeringTypeOK /\ PendingIsCurrent => PendingFit
  BY PendingFits DEF PendingFit
<1> QED
  BY <1>1, PTL

LEMMA RowsFinite ==
  ASSUME SteeringTypeOK, NEW change
  PROVE  IsFiniteSet(RowsWith(change)) /\ Cardinality(RowsWith(change)) \in Nat
<1>1. Len(history) \in Nat /\ RowsWith(change) \subseteq 1 .. Len(history)
  BY RowTypes DEF RowsWith, MutationRows, RowsOf
<1>2. IsFiniteSet(1 .. Len(history))
  BY <1>1, FS_Interval
<1> QED
  BY <1>1, <1>2, FS_Subset, FS_CardinalityType

\* The latest rows of every item after a mutation.
LEMMA ReceiptLatest ==
  ASSUME SteeringInv, SteeringTypeOK', NEW q \in Requests, Applies(q),
         NEW n, n = Len(history) + 1, NEW row, row = history'[n]
  PROVE  /\ \A x : LatestOfItem(x)' = IF x = row.item THEN n ELSE LatestOfItem(x)
         /\ \A x : EnqueuedAt(x)' = IF x = row.item /\ row.change = "enqueue" THEN n ELSE EnqueuedAt(x)
         /\ \A i \in MutationRows : history'[i] = history[i]
         /\ \A i : i \in MutationRows' <=> i \in MutationRows \/ i = n
         /\ n \notin MutationRows
<1>0. SteeringTypeOK
  BY DEF SteeringInv
<1>1. /\ Len(history) \in Nat /\ DOMAIN history = 1 .. Len(history)
      /\ DOMAIN history' = 1 .. Len(history')
  BY <1>0, RowTypes, RowTypesNext DEF RowsTyped
<1> PICK m : m = mutation[q]
  OBVIOUS
<1>2. /\ n \in Nat \ {0} /\ n = Len(history') /\ RowsAreAppended /\ row \in MutationRowType
  BY AppliedRow
<1>3. \A i \in DOMAIN history' : i \in DOMAIN history \/ i = n
  BY <1>1, <1>2
<1>4. n \in MutationRows' /\ n \notin DOMAIN history
  BY <1>1, <1>2 DEF MutationRows, RowsOf, MutationRowType
<1>5. \A i : i \in MutationRows' <=> i \in MutationRows \/ i = n
  BY <1>0, <1>2, <1>3, <1>4, OldRows DEF MutationRows, RowsOf
<1>6. \A i \in MutationRows : history'[i] = history[i] /\ i \in 1 .. Len(history)
  BY <1>1, <1>2 DEF RowsAreAppended, MutationRows, RowsOf
<1>7. PICK k : k = n + 1
  OBVIOUS
<1>8. n = Now /\ k = Now'
  BY <1>2, <1>7 DEF Now
<1>9. \A S \in SUBSET MutationRows' :
         n \in S => LatestBefore(S, k) = n
  <2> TAKE S \in SUBSET MutationRows'
  <2>1. S \in SUBSET (Nat \ {0}) /\ \A i \in S : i <= n
    BY <1>1, <1>2, <1>5, <1>6
  <2> QED
    BY <1>7, <2>1, LatestOfAll
<1>10. ASSUME NEW S \in SUBSET MutationRows', NEW T \in SUBSET MutationRows,
              n \notin S, \A i \in MutationRows : i \in S <=> i \in T
       PROVE  LatestBefore(S, k) = LatestBefore(T, n)
  <2>1. S = T
    BY <1>5, <1>10
  <2>2. \A i \in S : i < k /\ i < n
    BY <1>1, <1>2, <1>6, <1>7, <2>1
  <2>3. {i \in S : i < k} = {i \in T : i < n}
    BY <2>1, <2>2
  <2> QED
    BY <1>2, <1>7, <2>3, LatestOfSame
<1>11. ASSUME NEW x
       PROVE  /\ LatestOfItem(x)' = IF x = row.item THEN n ELSE LatestOfItem(x)
              /\ EnqueuedAt(x)' = IF x = row.item /\ row.change = "enqueue" THEN n ELSE EnqueuedAt(x)
  <2> DEFINE S == {j \in MutationRows' : history'[j].item = x}
             T == {j \in MutationRows : history[j].item = x}
             U == {j \in MutationRows' : history'[j].item = x /\ history'[j].change = "enqueue"}
             V == {j \in MutationRows : history[j].item = x /\ history[j].change = "enqueue"}
  <2>1. /\ S \in SUBSET MutationRows' /\ U \in SUBSET MutationRows'
        /\ T \in SUBSET MutationRows /\ V \in SUBSET MutationRows
        /\ n \in S <=> x = row.item
        /\ n \in U <=> (x = row.item /\ row.change = "enqueue")
        /\ \A i \in MutationRows : (i \in S <=> i \in T) /\ (i \in U <=> i \in V)
    BY <1>4, <1>5, <1>6
  <2>2. /\ LatestOfItem(x)' = LatestBefore(S, k) /\ LatestOfItem(x) = LatestBefore(T, n)
        /\ EnqueuedAt(x)' = LatestBefore(U, k) /\ EnqueuedAt(x) = LatestBefore(V, n)
    BY <1>8 DEF LatestOfItem, EnqueuedAt
  <2> HIDE DEF S, T, U, V
  <2>3. LatestBefore(S, k) = IF x = row.item THEN n ELSE LatestBefore(T, n)
    BY <1>9, <1>10, <2>1
  <2>4. LatestBefore(U, k) = IF x = row.item /\ row.change = "enqueue" THEN n ELSE LatestBefore(V, n)
    BY <1>9, <1>10, <2>1
  <2> QED
    BY <2>2, <2>3, <2>4
<1> QED
  BY <1>4, <1>5, <1>6, <1>11 DEF MutationRows, RowsOf

\* What is pending after a mutation.
LEMMA ReceiptItems ==
  ASSUME SteeringInv, SteeringTypeOK', NEW q \in Requests, Applies(q),
         NEW m, m = mutation[q]
  PROVE  /\ m.change = "enqueue" => q \notin RebuiltItems /\ RebuiltItems' = RebuiltItems \cup {q}
         /\ m.change = "edit" => m.item \in RebuiltItems /\ RebuiltItems' = RebuiltItems
         /\ m.change = "remove" => m.item \in RebuiltItems /\ RebuiltItems' = RebuiltItems \ {m.item}
         /\ m.change \notin ItemChanges => RebuiltItems' = RebuiltItems
<1>0. SteeringTypeOK /\ RowsAreOwned /\ PendingIsCurrent
  BY DEF SteeringInv
<1> PICK n : n = Len(history) + 1
  OBVIOUS
<1> PICK row : row = history'[n]
  OBVIOUS
<1>1. /\ n \in Nat \ {0} /\ row.change = m.change
      /\ m.change = "enqueue" => row.item = q
      /\ m.change = "edit" => row.item = m.item
      /\ m.change = "remove" => row.item = m.item
      /\ m.change \notin ItemChanges => row.item = "none"
      /\ m.change \in {"edit", "remove"} => m.item \in DOMAIN pending
      /\ \A j \in MutationRows : history[j].request # q
  BY AppliedRow
<1>2. /\ \A x : LatestOfItem(x)' = IF x = row.item THEN n ELSE LatestOfItem(x)
      /\ \A i \in MutationRows : history'[i] = history[i]
  BY ReceiptLatest
<1>3. ASSUME NEW x, LatestOfItem(x) # 0
      PROVE  LatestOfItem(x) \in MutationRows /\ history[LatestOfItem(x)].item = x
  <2>1. Now \in Nat
    BY <1>0, RowTypes DEF Now
  <2> QED
    BY <1>0, <1>3, <2>1, LatestRowFacts DEF LatestOfItem, LatestRowOf
<1>4. \A x : x \in RebuiltItems' <=>
               x \in Requests /\ IF x = row.item THEN row.change \in TextChanges
                                 ELSE x \in RebuiltItems
  <2> TAKE x
  <2>1. x \in RebuiltItems' <=>
          x \in Requests /\ LatestOfItem(x)' # 0 /\ history'[LatestOfItem(x)'].change \in TextChanges
    BY DEF RebuiltItems
  <2>2. x \in RebuiltItems <=>
          x \in Requests /\ LatestOfItem(x) # 0 /\ history[LatestOfItem(x)].change \in TextChanges
    BY DEF RebuiltItems
  <2>3. CASE x = row.item
    BY <1>1, <1>2, <2>1, <2>3
  <2>4. CASE x # row.item
    <3>1. LatestOfItem(x)' = LatestOfItem(x)
      BY <1>2, <2>4
    <3>2. LatestOfItem(x) # 0 => history'[LatestOfItem(x)] = history[LatestOfItem(x)]
      BY <1>2, <1>3
    <3> QED
      BY <2>1, <2>2, <2>4, <3>1, <3>2
  <2> QED
    BY <2>3, <2>4
<1>5. \A x \in RebuiltItems : x \in Requests
  BY DEF RebuiltItems
<1>6. CASE m.change = "enqueue"
  <2>1. q \notin RebuiltItems
    <3> SUFFICES ASSUME q \in RebuiltItems PROVE FALSE
      OBVIOUS
    <3>1. LatestOfItem(q) \in MutationRows /\ history[LatestOfItem(q)].item = q
      BY <1>3 DEF RebuiltItems
    <3> QED
      BY <1>0, <1>1, <3>1 DEF RowsAreOwned
  <2>2. row.change \in TextChanges /\ row.item = q
    BY <1>1, <1>6 DEF TextChanges
  <2>3. \A x : x \in RebuiltItems' <=> x \in RebuiltItems \cup {q}
    BY <1>4, <1>5, <2>2
  <2> QED
    BY <1>6, <2>1, <2>3 DEF ItemChanges
<1>7. CASE m.change \in {"edit", "remove"}
  <2>1. m.item \in RebuiltItems /\ row.item = m.item
    BY <1>0, <1>1, <1>7 DEF PendingIsCurrent
  <2>2. row.change \in TextChanges <=> m.change = "edit"
    BY <1>1, <1>7 DEF TextChanges
  <2>3. CASE m.change = "edit"
    <3>1. \A x : x \in RebuiltItems' <=> x \in RebuiltItems
      BY <1>4, <1>5, <2>1, <2>2, <2>3
    <3> QED
      BY <2>1, <2>3, <3>1 DEF ItemChanges
  <2>4. CASE m.change = "remove"
    <3>1. \A x : x \in RebuiltItems' <=> x \in RebuiltItems \ {m.item}
      BY <1>4, <1>5, <2>1, <2>2, <2>4
    <3> QED
      BY <2>1, <2>4, <3>1 DEF ItemChanges
  <2> QED
    BY <1>7, <2>3, <2>4
<1>8. CASE m.change \notin ItemChanges
  <2>1. row.item \notin Requests
    BY <1>1, <1>8, SteeringAssumption
  <2>2. \A x : x \in RebuiltItems' <=> x \in RebuiltItems
    BY <1>4, <1>5, <2>1
  <2> QED
    BY <1>8, <2>2 DEF ItemChanges
<1> QED
  BY <1>6, <1>7, <1>8 DEF ItemChanges

\* The lowest free slot is free.
LEMMA FreeSlotIsFree ==
  ASSUME FreeSlot > 0
  PROVE  FreeSlot \in 1 .. Capacity /\ \A i \in DOMAIN pending : pending[i].slot # FreeSlot
<1> DEFINE free == 1 .. Capacity \ {pending[i].slot : i \in DOMAIN pending}
<1>1. FreeSlot = IF free = {} THEN 0 ELSE Min(free)
  BY DEF FreeSlot
<1>2. free \in SUBSET Nat
  BY SteeringAssumption
<1>3. \A x \in free : x \in 1 .. Capacity /\ \A i \in DOMAIN pending : pending[i].slot # x
  OBVIOUS
<1> HIDE DEF free
<1>4. free # {} /\ FreeSlot = Min(free)
  BY <1>1
<1> QED
  BY <1>2, <1>3, <1>4, MinIsLeast

\* The rows an enqueue, an edit or a removal leaves of the pending messages.
PendingAfter(q, m, n) ==
  /\ m.change = "enqueue" =>
       /\ DOMAIN pending' = DOMAIN pending \cup {q}
       /\ pending'[q] = [slot |-> FreeSlot, enqueued |-> n, revision |-> 1, text |-> q]
       /\ \A i \in DOMAIN pending : i # q => pending'[i] = pending[i]
       /\ FreeSlot > 0
  /\ m.change = "edit" =>
       /\ m.item \in DOMAIN pending /\ DOMAIN pending' = DOMAIN pending
       /\ pending'[m.item] = [pending[m.item] EXCEPT !.revision = m.itemRevision + 1, !.text = q]
       /\ \A i \in DOMAIN pending : i # m.item => pending'[i] = pending[i]
  /\ m.change = "remove" =>
       /\ m.item \in DOMAIN pending /\ DOMAIN pending' = DOMAIN pending \ {m.item}
       /\ \A i \in DOMAIN pending' : pending'[i] = pending[i]
  /\ m.change \notin ItemChanges => pending' = pending

LEMMA ReceiptPending ==
  ASSUME SteeringInv, NEW q \in Requests, Applies(q), NEW m, m = mutation[q],
         NEW n, n = Len(history) + 1
  PROVE  PendingAfter(q, m, n)
<1>1. CASE m.change = "enqueue"
  <2>1. pending' = WithItem(q, [slot |-> FreeSlot, enqueued |-> Now, revision |-> 1, text |-> q])
    BY <1>1 DEF Applies, ApplyMutation
  <2>2. FreeSlot > 0
    BY <1>1 DEF Applies, CanMutate
  <2> QED
    BY <1>1, <2>1, <2>2 DEF PendingAfter, WithItem, Now, ItemChanges
<1>2. CASE m.change = "edit"
  <2>1. pending' = WithItem(m.item, [pending[m.item] EXCEPT !.revision = m.itemRevision + 1, !.text = q])
    BY <1>2 DEF Applies, ApplyMutation
  <2>2. m.item \in DOMAIN pending
    BY <1>2 DEF Applies, CanMutate
  <2> QED
    BY <1>2, <2>1, <2>2 DEF PendingAfter, WithItem, ItemChanges
<1>3. CASE m.change = "remove"
  <2>1. pending' = [x \in DOMAIN pending \ {m.item} |-> pending[x]]
    BY <1>3 DEF Applies, ApplyMutation
  <2>2. m.item \in DOMAIN pending
    BY <1>3 DEF Applies, CanMutate
  <2> QED
    BY <1>3, <2>1, <2>2 DEF PendingAfter, ItemChanges
<1>4. CASE m.change \notin ItemChanges
  BY <1>4 DEF PendingAfter, Applies, ApplyMutation, ItemChanges
<1> QED
  BY <1>1, <1>2, <1>3, <1>4 DEF ItemChanges

\* The number of rows of a change after a mutation.
LEMMA ReceiptCounts ==
  ASSUME SteeringInv, SteeringTypeOK', NEW q \in Requests, Applies(q), NEW change
  PROVE  Cardinality(RowsWith(change)') =
           IF mutation[q].change = change THEN Cardinality(RowsWith(change)) + 1
                                          ELSE Cardinality(RowsWith(change))
<1>0. SteeringTypeOK
  BY DEF SteeringInv
<1> PICK n : n = Len(history) + 1
  OBVIOUS
<1> PICK row : row = history'[n]
  OBVIOUS
<1>1. row.change = mutation[q].change
  BY AppliedRow
<1>2. /\ \A i \in MutationRows : history'[i] = history[i]
      /\ \A i : i \in MutationRows' <=> i \in MutationRows \/ i = n
      /\ n \notin MutationRows
  BY ReceiptLatest
<1>3. IsFiniteSet(RowsWith(change)) /\ Cardinality(RowsWith(change)) \in Nat
  BY <1>0, RowsFinite
<1>4. n \notin RowsWith(change)
  BY <1>2 DEF RowsWith
<1>5. CASE row.change = change
  <2>1. RowsWith(change)' = RowsWith(change) \cup {n}
    <3>1. \A i : i \in RowsWith(change)' <=> i \in MutationRows' /\ history'[i].change = change
      BY DEF RowsWith
    <3>2. \A i : i \in RowsWith(change) <=> i \in MutationRows /\ history[i].change = change
      BY DEF RowsWith
    <3> QED
      BY <1>2, <1>5, <3>1, <3>2
  <2>2. Cardinality(RowsWith(change) \cup {n}) = Cardinality(RowsWith(change)) + 1
    BY <1>3, <1>4, FS_AddElement
  <2> QED
    BY <1>1, <1>5, <2>1, <2>2
<1>6. CASE row.change # change
  <2>1. RowsWith(change)' = RowsWith(change)
    BY <1>2, <1>6 DEF RowsWith
  <2> QED
    BY <1>1, <1>6, <2>1
<1> QED
  BY <1>5, <1>6

LEMMA ReceiptPendingCurrent ==
  ASSUME SteeringInv, SteeringTypeOK', NEW q \in Requests, Applies(q)
  PROVE  PendingIsCurrent'
<1>0. SteeringTypeOK /\ PendingIsCurrent
  BY DEF SteeringInv
<1> PICK n : n = Len(history) + 1
  OBVIOUS
<1> PICK m : m = mutation[q]
  OBVIOUS
<1> PICK row : row = history'[n]
  OBVIOUS
<1>1. /\ m \in MutationType /\ n \in Nat \ {0}
      /\ row.request = q /\ row.change = m.change
      /\ m.change = "enqueue" => row.item = q /\ row.itemRevision = 1
      /\ m.change = "edit" => row.item = m.item /\ row.itemRevision = m.itemRevision + 1
      /\ m.change = "remove" => row.item = m.item
      /\ m.change \notin ItemChanges => row.item = "none"
  BY AppliedRow
<1>2. /\ \A x : LatestOfItem(x)' = IF x = row.item THEN n ELSE LatestOfItem(x)
      /\ \A x : EnqueuedAt(x)' = IF x = row.item /\ row.change = "enqueue" THEN n ELSE EnqueuedAt(x)
      /\ \A i \in MutationRows : history'[i] = history[i]
  BY ReceiptLatest
<1>3. /\ m.change = "enqueue" => q \notin RebuiltItems /\ RebuiltItems' = RebuiltItems \cup {q}
      /\ m.change = "edit" => m.item \in RebuiltItems /\ RebuiltItems' = RebuiltItems
      /\ m.change = "remove" => m.item \in RebuiltItems /\ RebuiltItems' = RebuiltItems \ {m.item}
      /\ m.change \notin ItemChanges => RebuiltItems' = RebuiltItems
  BY ReceiptItems
<1>0a. PendingAfter(q, m, n)
  BY ReceiptPending
<1>4. /\ m.change = "enqueue" =>
           /\ DOMAIN pending' = DOMAIN pending \cup {q}
           /\ pending'[q] = [slot |-> FreeSlot, enqueued |-> n, revision |-> 1, text |-> q]
           /\ \A i \in DOMAIN pending : i # q => pending'[i] = pending[i]
           /\ FreeSlot > 0
      /\ m.change = "edit" =>
           /\ m.item \in DOMAIN pending /\ DOMAIN pending' = DOMAIN pending
           /\ pending'[m.item] = [pending[m.item] EXCEPT !.revision = m.itemRevision + 1, !.text = q]
           /\ \A i \in DOMAIN pending : i # m.item => pending'[i] = pending[i]
      /\ m.change = "remove" =>
           /\ m.item \in DOMAIN pending /\ DOMAIN pending' = DOMAIN pending \ {m.item}
           /\ \A i \in DOMAIN pending' : pending'[i] = pending[i]
      /\ m.change \notin ItemChanges => pending' = pending
  BY <1>0a DEF PendingAfter
<1>5. m.change \in {"enqueue", "edit", "remove"} \/ m.change \notin ItemChanges
  BY DEF ItemChanges
<1>6. DOMAIN pending = RebuiltItems
  BY <1>0 DEF PendingIsCurrent
<1>7. DOMAIN pending' = RebuiltItems'
  BY <1>3, <1>4, <1>5, <1>6
<1>8. \A i \in RebuiltItems : i \in Requests /\ LatestOfItem(i) \in MutationRows
  <2> TAKE i \in RebuiltItems
  <2>1. LatestOfItem(i) # 0 /\ i \in Requests
    BY DEF RebuiltItems
  <2>2. Now \in Nat
    BY <1>0, RowTypes DEF Now
  <2> QED
    BY <1>0, <2>1, <2>2, LatestRowFacts DEF LatestOfItem, LatestRowOf
<1>9. \A i \in RebuiltItems : i # row.item =>
        /\ pending[i].enqueued = EnqueuedAt(i)'
        /\ pending[i].revision = history'[LatestOfItem(i)'].itemRevision
        /\ pending[i].text = history'[LatestOfItem(i)'].request
  BY <1>0, <1>2, <1>6, <1>8 DEF PendingIsCurrent
<1>10. ASSUME NEW i \in DOMAIN pending'
       PROVE  /\ pending'[i].enqueued = EnqueuedAt(i)'
              /\ pending'[i].revision = history'[LatestOfItem(i)'].itemRevision
              /\ pending'[i].text = history'[LatestOfItem(i)'].request
  <2>1. CASE i # row.item
    <3>1. i \in RebuiltItems /\ pending'[i] = pending[i]
      <4>1. CASE m.change = "enqueue"
        BY <1>1, <1>4, <1>6, <2>1, <4>1
      <4>2. CASE m.change = "edit"
        BY <1>1, <1>4, <1>6, <2>1, <4>2
      <4>3. CASE m.change = "remove"
        BY <1>4, <1>6, <4>3
      <4>4. CASE m.change \notin ItemChanges
        BY <1>4, <1>6, <4>4
      <4> QED
        BY <1>5, <4>1, <4>2, <4>3, <4>4
    <3> QED
      BY <1>9, <2>1, <3>1
  <2>2. CASE i = row.item
    <3>1. LatestOfItem(i)' = n
      BY <1>2, <2>2
    <3>2. CASE m.change = "enqueue"
      BY <1>1, <1>2, <1>4, <2>2, <3>1, <3>2
    <3>3. CASE m.change = "edit"
      <4>1. i = m.item /\ i \in DOMAIN pending /\ EnqueuedAt(i)' = EnqueuedAt(i)
        BY <1>1, <1>2, <1>4, <2>2, <3>3
      <4>2. pending[i] \in PendingRows
        BY <1>0, <4>1 DEF SteeringTypeOK
      <4>3. /\ pending'[i].enqueued = pending[i].enqueued
            /\ pending'[i].revision = m.itemRevision + 1 /\ pending'[i].text = q
        BY <1>4, <3>3, <4>1, <4>2 DEF PendingRows
      <4>4. pending[i].enqueued = EnqueuedAt(i)
        BY <1>0, <4>1 DEF PendingIsCurrent
      <4> QED
        BY <1>1, <3>1, <3>3, <4>1, <4>3, <4>4
    <3>4. CASE m.change = "remove"
      BY <1>1, <1>4, <2>2, <3>4
    <3>5. CASE m.change \notin ItemChanges
      BY <1>1, <1>4, <1>6, <1>8, <2>2, <3>5, SteeringAssumption
    <3> QED
      BY <1>5, <3>2, <3>3, <3>4, <3>5
  <2> QED
    BY <2>1, <2>2
<1>11. \A i, j \in DOMAIN pending' : pending'[i].slot = pending'[j].slot => i = j
  <2>0. \A i, j \in DOMAIN pending : pending[i].slot = pending[j].slot => i = j
    BY <1>0 DEF PendingIsCurrent
  <2>1. CASE m.change = "enqueue"
    <3>1. \A i \in DOMAIN pending : pending[i].slot # FreeSlot
      BY <1>4, <2>1, FreeSlotIsFree
    <3>2. pending'[q].slot = FreeSlot
      BY <1>4, <2>1
    <3>3. \A i \in DOMAIN pending' : i # q => i \in DOMAIN pending /\ pending'[i] = pending[i]
      BY <1>4, <2>1
    <3> QED
      BY <2>0, <3>1, <3>2, <3>3
  <2>2. CASE m.change = "edit"
    <3>1. pending[m.item] \in PendingRows
      BY <1>0, <1>4, <2>2 DEF SteeringTypeOK
    <3>2. pending'[m.item].slot = pending[m.item].slot
      BY <1>4, <2>2, <3>1 DEF PendingRows
    <3>3. \A i \in DOMAIN pending' : i \in DOMAIN pending /\ pending'[i].slot = pending[i].slot
      BY <1>4, <2>2, <3>2
    <3> QED
      BY <2>0, <3>3
  <2>3. CASE m.change = "remove"
    BY <1>4, <2>0, <2>3
  <2>4. CASE m.change \notin ItemChanges
    BY <1>4, <2>0, <2>4
  <2> QED
    BY <1>5, <2>1, <2>2, <2>3, <2>4
<1>12. Cardinality(RowsWith("enqueue")') - Cardinality(RowsWith("remove")')
         = Cardinality(DOMAIN pending')
  <2>1. /\ IsFiniteSet(DOMAIN pending) /\ Cardinality(DOMAIN pending) \in Nat
        /\ Cardinality(RowsWith("enqueue")) \in Nat /\ Cardinality(RowsWith("remove")) \in Nat
    BY <1>0, PendingFits, RowsFinite
  <2>2. Cardinality(RowsWith("enqueue")) - Cardinality(RowsWith("remove")) = Cardinality(DOMAIN pending)
    BY <1>0 DEF PendingIsCurrent
  <2>3. /\ Cardinality(RowsWith("enqueue")') = IF m.change = "enqueue"
             THEN Cardinality(RowsWith("enqueue")) + 1 ELSE Cardinality(RowsWith("enqueue"))
        /\ Cardinality(RowsWith("remove")') = IF m.change = "remove"
             THEN Cardinality(RowsWith("remove")) + 1 ELSE Cardinality(RowsWith("remove"))
    BY ReceiptCounts
  <2>4. CASE m.change = "enqueue"
    <3>1. Cardinality(DOMAIN pending \cup {q}) = Cardinality(DOMAIN pending) + 1
      BY <1>3, <1>6, <2>1, <2>4, FS_AddElement
    <3> QED
      BY <1>4, <2>1, <2>2, <2>3, <2>4, <3>1
  <2>5. CASE m.change = "remove"
    <3>1. Cardinality(DOMAIN pending \ {m.item}) = Cardinality(DOMAIN pending) - 1
      BY <1>4, <2>1, <2>5, FS_RemoveElement
    <3> QED
      BY <1>4, <2>1, <2>2, <2>3, <2>5, <3>1
  <2>6. CASE m.change = "edit"
    BY <1>4, <2>2, <2>3, <2>6
  <2>7. CASE m.change \notin ItemChanges
    BY <1>4, <2>2, <2>3, <2>7 DEF ItemChanges
  <2> QED
    BY <1>5, <2>4, <2>5, <2>6, <2>7
<1> QED
  BY <1>7, <1>10, <1>11, <1>12 DEF PendingIsCurrent

LEMMA ReceiptRowIsValid ==
  ASSUME SteeringInv, SteeringTypeOK', NEW q \in Requests, Applies(q),
         NEW n, n = Len(history) + 1
  PROVE  RowIsValid(n)'
<1>0. /\ SteeringTypeOK /\ RowsAreOwned /\ QueueIsCurrent /\ PendingIsCurrent
  BY DEF SteeringInv
<1>1. /\ Len(history) \in Nat /\ DOMAIN history = 1 .. Len(history)
      /\ DOMAIN history' = 1 .. Len(history')
  BY <1>0, RowTypes, RowTypesNext DEF RowsTyped
<1> PICK m : m = mutation[q]
  OBVIOUS
<1> PICK row : row = history'[n]
  OBVIOUS
<1>2. /\ m \in MutationType /\ n \in Nat \ {0} /\ n = Len(history') /\ RowsAreAppended
      /\ row \in MutationRowType /\ row.change = m.change /\ row.run = m.run
      /\ row.revision = queue.revision + 1
      /\ m.change = "enqueue" => row.item = q
      /\ m.change = "edit" => row.item = m.item /\ row.itemRevision = m.itemRevision + 1
      /\ m.change = "remove" => row.item = m.item /\ row.itemRevision = m.itemRevision
      /\ m.change \in {"edit", "remove"} =>
           m.item \in DOMAIN pending /\ pending[m.item].revision = m.itemRevision
      /\ m.change # "enqueue" => queue.revision > 0
  BY AppliedRow
<1>3. queue.revision \in Nat
  BY <1>0 DEF SteeringTypeOK
<1>4. /\ ~LatestArchiveBefore(n)
      /\ m.change \in TargetChanges => /\ HasRow("accepted", m.run, n) /\ ~HasRow("ended", m.run, n)
                                       /\ ~HasRow("cancelled", m.run, n)
      /\ m.change = "enqueue" /\ queue.revision > 0 => queue.target = m.run
  BY <1>2 DEF Applies, CanMutate, TargetAcceptsSteering, RunIsLive, Now
<1>5. n \in 1 .. Len(history) + 1 /\ n \in 1 .. Len(history')
  BY <1>1, <1>2
<1>6. /\ TargetBefore(n)' = TargetBefore(n) /\ LatestArchiveBefore(n)' = LatestArchiveBefore(n)
      /\ \A kind, r : HasRow(kind, r, n)' = HasRow(kind, r, n)
  BY <1>0, <1>2, <1>5, OldFacts
<1>7. TargetBefore(n) = queue.target
  BY <1>0 DEF QueueIsCurrent, Now
<1>8. queue.target # NoRun => queue.revision > 0
  <2> SUFFICES ASSUME queue.revision = 0 PROVE queue.target = NoRun
    BY <1>3
  <2>1. TargetRows = {} /\ n \in Nat
    BY <1>0, <1>2, UnpausedHasRow DEF TargetRows
  <2>2. LatestBefore(TargetRows, n) = 0
    BY <2>1, LatestIsNone
  <2> QED
    BY <1>7, <2>2 DEF TargetBefore
<1>9. MutationIsValid(n)'
  <2>1. row.revision = 1 => row.change = "enqueue"
    BY <1>2, <1>3
  <2>2. row.change \in TargetChanges =>
          /\ HasRow("accepted", row.run, n)'
          /\ ~HasRow("cancelled", row.run, n)' /\ ~HasRow("ended", row.run, n)'
    BY <1>2, <1>4, <1>6
  <2>3. ~LatestArchiveBefore(n)'
    BY <1>4, <1>6
  <2>4. row.change = "enqueue" /\ TargetBefore(n)' # NoRun => TargetBefore(n)' = row.run
    BY <1>2, <1>4, <1>6, <1>7, <1>8
  <2> QED
    BY <2>1, <2>2, <2>3, <2>4 DEF MutationIsValid
<1>10. ItemIsValid(n)'
  <2>1. PICK p : p = LatestRowOf(row.item, n)
    OBVIOUS
  <2>2. p = LatestRowOf(row.item, n)'
    BY <1>0, <1>2, <1>5, <2>1, OldLatestRow
  <2>3. p = LatestOfItem(row.item)
    BY <2>1 DEF LatestOfItem, LatestRowOf, Now
  <2>4. p \in Nat /\ (p # 0 => p \in MutationRows /\ history[p].item = row.item)
    BY <1>0, <1>2, <2>1, LatestRowFacts
  <2>5. p # 0 => history'[p] = history[p]
    BY <1>2, <2>4 DEF RowsAreAppended, MutationRows, RowsOf
  <2>6. m.change = "enqueue" => p = 0
    <3> SUFFICES ASSUME m.change = "enqueue", p # 0 PROVE FALSE
      OBVIOUS
    <3>1. history[p].item = q /\ p \in MutationRows
      BY <1>2, <2>4
    <3>2. \A j \in MutationRows : history[j].request # q
      BY AppliedRow
    <3> QED
      BY <1>0, <3>1, <3>2 DEF RowsAreOwned
  <2>7. m.change \in {"edit", "remove"} =>
          /\ p # 0 /\ history'[p].change \in TextChanges
          /\ history'[p].itemRevision = m.itemRevision
    <3> SUFFICES ASSUME m.change \in {"edit", "remove"}
                 PROVE  /\ p # 0 /\ history'[p].change \in TextChanges
                        /\ history'[p].itemRevision = m.itemRevision
      OBVIOUS
    <3>1. row.item = m.item /\ m.item \in DOMAIN pending
      BY <1>2
    <3>2. m.item \in RebuiltItems /\ pending[m.item].revision = history[LatestOfItem(m.item)].itemRevision
      BY <1>0, <3>1 DEF PendingIsCurrent
    <3>3. p # 0 /\ history[p].change \in TextChanges
      BY <2>3, <3>1, <3>2 DEF RebuiltItems
    <3> QED
      BY <1>2, <2>3, <2>5, <3>1, <3>2, <3>3
  <2>8. row.change \in ItemChanges =>
           /\ row.change = "enqueue" => p = 0
           /\ row.change # "enqueue" => p # 0 /\ history'[p].change \in TextChanges
           /\ row.change = "edit" => row.itemRevision = history'[p].itemRevision + 1
           /\ row.change = "remove" => row.itemRevision = history'[p].itemRevision
    BY <1>2, <2>6, <2>7 DEF ItemChanges
  <2> QED
    BY <2>2, <2>8 DEF ItemIsValid, LatestRowOf
<1>11. CountAt("enqueue", n)' - CountAt("remove", n)' \in 0 .. Capacity
  <2>1. PendingIsCurrent'
    BY ReceiptPendingCurrent
  <2>2. Cardinality(DOMAIN pending') \in 0 .. Capacity
    BY <2>1, PendingFitsNext DEF PendingFit
  <2>3. Cardinality(RowsWith("enqueue")') - Cardinality(RowsWith("remove")') = Cardinality(DOMAIN pending')
    BY <2>1 DEF PendingIsCurrent
  <2>4. \A change : RowsWith(change)' = {i \in MutationRows' : i <= n /\ history'[i].change = change}
    <3>1. \A i \in MutationRows' : i <= n
      BY <1>1, <1>2 DEF MutationRows, RowsOf
    <3> QED
      BY <3>1 DEF RowsWith
  <2>5. \A change : CountAt(change, n)' = Cardinality(RowsWith(change)')
    BY <2>4 DEF CountAt
  <2> QED
    BY <2>2, <2>3, <2>5
<1>12. n \in SteeringRows' =>
         LET p == LatestBefore(SteeringRows, n)'
         IN p # 0 => history'[n].revision = history'[p].revision + 1
  <2>1. PICK p : p = LatestBefore(SteeringRows, n)
    OBVIOUS
  <2>2. p = LatestBefore(SteeringRows, n)'
    BY <1>0, <1>2, <1>5, <2>1, OldLatest
  <2>3. ASSUME p # 0 PROVE row.revision = history'[p].revision + 1
    <3>1. p \in SteeringRows
      BY <1>0, <1>2, <2>1, <2>3, LatestIsLatest, RowSets
    <3>2. queue.revision > 0
      BY <1>0, <1>3, <3>1, UnpausedHasRow
    <3>3. p \in DOMAIN history /\ history[p].revision = queue.revision
      BY <1>0, <2>1, <3>2, LatestSteering
    <3> QED
      BY <1>2, <3>3 DEF RowsAreAppended
  <2> QED
    BY <2>2, <2>3
<1>13. /\ n \notin RowsOf("cancelled")' /\ n \notin RowsOf("ended")'
       /\ n \notin RowsOf("archive")' /\ n \notin RowsOf("pause")'
  BY <1>2 DEF RowsOf, MutationRowType
<1> QED
  BY <1>9, <1>10, <1>11, <1>12, <1>13 DEF RowIsValid

LEMMA ApplyStep ==
  ASSUME SteeringInv, SteeringTypeOK', NEW q \in Requests, Applies(q)
  PROVE  SteeringInv'
<1>0. SteeringTypeOK /\ RowsAreOwned /\ HistoryIsValid
  BY DEF SteeringInv
<1> PICK n : n = Len(history) + 1
  OBVIOUS
<1>1. n \in Nat \ {0} /\ n = Len(history') /\ RowsAreAppended
  BY AppliedRow
<1>2. Len(history) \in Nat
  BY <1>0, RowTypes
<1>3. \A i \in Len(history) + 1 .. Len(history') : i = n
  BY <1>1, <1>2
<1>4. RowIsValid(n)'
  BY ReceiptRowIsValid
<1>5. HistoryIsValid'
  BY <1>0, <1>1, <1>3, <1>4, HistoryStaysValid
<1>6. RowsAreOwned' /\ AppliedOnce' /\ QueueIsCurrent' /\ PendingIsCurrent'
  BY ReceiptRowsOwned, ReceiptQueueCurrent, ReceiptPendingCurrent
<1> QED
  BY <1>5, <1>6 DEF SteeringInv

--------------------------------------------------------------------------------
(* What a start rebuilds. *)

LEMMA QueueIsRebuilt ==
  ASSUME SteeringTypeOK, QueueIsCurrent
  PROVE  RebuiltQueue = queue
<1>1. /\ queue \in [revision : Nat, target : Runs \cup {NoRun}, paused : BOOLEAN]
      /\ Len(history) \in Nat /\ Now \in Nat
  BY RowTypes DEF SteeringTypeOK, Now
<1>2. queue.target = TargetBefore(Now) /\ queue.paused = ~UnpausedBefore(Now)
  BY DEF QueueIsCurrent
<1>3. CASE SteeringRows = {}
  <2>1. PausedRows = {} /\ TargetRows = {}
    BY <1>3 DEF PausedRows, TargetRows
  <2>2. LatestBefore(PausedRows, Now) = 0 /\ LatestBefore(TargetRows, Now) = 0
    BY <1>1, <2>1, LatestIsNone
  <2>3. TargetBefore(Now) = NoRun /\ ~UnpausedBefore(Now)
    BY <2>2 DEF TargetBefore, UnpausedBefore
  <2>4. queue.revision = 0 /\ queue.target = NoRun /\ queue.paused = TRUE
    BY <1>2, <1>3, <2>3 DEF QueueIsCurrent
  <2> QED
    BY <1>1, <1>3, <2>4 DEF RebuiltQueue, NoQueue
<1>4. CASE SteeringRows # {}
  <2> DEFINE revisions == {history[i].revision : i \in SteeringRows}
  <2>1. queue.revision > 0
    BY <1>1, <1>4, UnpausedHasRow
  <2>2. PICK l \in SteeringRows : history[l].revision = queue.revision
    BY <2>1, LatestSteering
  <2>3. \A x \in revisions : x \in 1 .. queue.revision
    BY DEF QueueIsCurrent
  <2>4. queue.revision \in revisions
    BY <2>2
  <2> HIDE DEF revisions
  <2>5. revisions \in SUBSET (0 .. queue.revision) /\ queue.revision \in Nat
    BY <1>1, <2>3
  <2>6. Max(revisions) \in revisions /\ queue.revision <= Max(revisions)
    BY <2>4, <2>5, MaxIsGreatest
  <2>7. Max(revisions) = queue.revision
    <3>1. PICK top : top = Max(revisions)
      OBVIOUS
    <3>2. top \in 1 .. queue.revision /\ queue.revision <= top
      BY <2>3, <2>6, <3>1
    <3>3. top = queue.revision
      BY <2>5, <3>2
    <3> QED
      BY <3>1, <3>3
  <2>8. RebuiltQueue = [revision |-> queue.revision, target |-> queue.target, paused |-> ~UnpausedBefore(Now)]
    BY <1>2, <1>4, <2>7 DEF RebuiltQueue, revisions
  <2>9. RebuiltQueue = [revision |-> queue.revision, target |-> queue.target, paused |-> queue.paused]
    BY <1>2, <2>8
  <2> QED
    BY <1>1, <2>9
<1> QED
  BY <1>3, <1>4

\* A pending message has the row that enqueued it, and no other message has it.
LEMMA EnqueuedRows ==
  ASSUME SteeringTypeOK, RowsAreOwned, NEW i \in RebuiltItems
  PROVE  /\ EnqueuedAt(i) \in MutationRows /\ EnqueuedAt(i) \in Nat
         /\ history[EnqueuedAt(i)].item = i
         /\ LatestOfItem(i) \in MutationRows
<1> DEFINE S == {j \in MutationRows : history[j].item = i /\ history[j].change = "enqueue"}
<1>1. Now \in Nat /\ S \in SUBSET (Nat \ {0})
  BY RowTypes, RowSets DEF Now
<1>2. /\ \A j \in S : j \in MutationRows /\ history[j].item = i /\ j < Now
      /\ \A j \in MutationRows : history[j].item = i /\ history[j].change = "enqueue" => j \in S
  BY RowTypes DEF Now, MutationRows, RowsOf
<1>3. EnqueuedAt(i) = LatestBefore(S, Now)
  BY DEF EnqueuedAt
<1> HIDE DEF S
<1>4. i \in Requests /\ LatestOfItem(i) # 0
  BY DEF RebuiltItems
<1>5. LatestOfItem(i) \in MutationRows /\ history[LatestOfItem(i)].item = i
  BY <1>1, <1>4, LatestRowFacts DEF LatestOfItem, LatestRowOf
<1>6. PICK j \in MutationRows : history[j].request = i /\ history[j].change = "enqueue"
  BY <1>4, <1>5 DEF RowsAreOwned
<1>7. j \in S
  BY <1>2, <1>6 DEF RowsAreOwned
<1>8. LatestBefore(S, Now) # 0
  BY <1>1, <1>2, <1>7, LatestIsNone
<1>9. LatestBefore(S, Now) \in S /\ LatestBefore(S, Now) \in Nat
  BY <1>1, <1>8, LatestIsLatest
<1> QED
  BY <1>2, <1>3, <1>5, <1>9

EnqueuedBy(i) == {j \in RebuiltItems : EnqueuedAt(j) <= EnqueuedAt(i)}

\* The ranks of the enqueues are slots.
LEMMA RanksAreSlots ==
  ASSUME SteeringTypeOK, RowsAreOwned, PendingIsCurrent
  PROVE  /\ \A i \in RebuiltItems : Cardinality(EnqueuedBy(i)) \in 1 .. Capacity
         /\ \A i, j \in RebuiltItems :
              Cardinality(EnqueuedBy(i)) = Cardinality(EnqueuedBy(j)) => i = j
<1>1. IsFiniteSet(RebuiltItems) /\ Cardinality(RebuiltItems) \in 0 .. Capacity
  BY PendingFits DEF PendingIsCurrent
<1>2. ASSUME NEW i \in RebuiltItems
      PROVE  /\ IsFiniteSet(EnqueuedBy(i)) /\ Cardinality(EnqueuedBy(i)) \in Nat
             /\ Cardinality(EnqueuedBy(i)) <= Cardinality(RebuiltItems)
             /\ i \in EnqueuedBy(i)
  <2>1. EnqueuedBy(i) \in SUBSET RebuiltItems
    BY DEF EnqueuedBy
  <2>2. i \in EnqueuedBy(i)
    BY EnqueuedRows DEF EnqueuedBy
  <2> QED
    BY <1>1, <2>1, <2>2, FS_Subset, FS_CardinalityType
<1>3. ASSUME NEW i \in RebuiltItems PROVE Cardinality(EnqueuedBy(i)) \in 1 .. Capacity
  <2>1. Cardinality(EnqueuedBy(i)) # 0
    BY <1>2, FS_EmptySet
  <2>2. Capacity \in Nat
    BY SteeringAssumption
  <2> QED
    BY <1>1, <1>2, <2>1, <2>2
<1>4. ASSUME NEW i \in RebuiltItems, NEW j \in RebuiltItems, EnqueuedAt(i) <= EnqueuedAt(j),
             Cardinality(EnqueuedBy(i)) = Cardinality(EnqueuedBy(j))
      PROVE  i = j
  <2>1. \A k \in RebuiltItems : EnqueuedAt(k) \in Nat
    BY EnqueuedRows
  <2>2. EnqueuedBy(i) \in SUBSET EnqueuedBy(j)
    BY <1>4, <2>1 DEF EnqueuedBy
  <2>3. EnqueuedBy(i) = EnqueuedBy(j)
    BY <1>2, <1>4, <2>2, FS_Subset
  <2>4. EnqueuedAt(j) <= EnqueuedAt(i)
    BY <1>2, <2>3 DEF EnqueuedBy
  <2>5. EnqueuedAt(i) = EnqueuedAt(j)
    BY <1>4, <2>1, <2>4
  <2> QED
    BY <2>5, EnqueuedRows
<1>5. \A i, j \in RebuiltItems : EnqueuedAt(i) <= EnqueuedAt(j) \/ EnqueuedAt(j) <= EnqueuedAt(i)
  BY EnqueuedRows
<1> QED
  BY <1>3, <1>4, <1>5

LEMMA RepairKeeps ==
  ASSUME SteeringInv, UNCHANGED <<history, clients>>, queue' = RebuiltQueue, pending' = RebuiltPending
  PROVE  SteeringInv'
<1>0. /\ SteeringTypeOK /\ RowsAreOwned /\ AppliedOnce
      /\ HistoryIsValid /\ QueueIsCurrent /\ PendingIsCurrent
  BY DEF SteeringInv
<1>1. queue' = queue
  BY <1>0, QueueIsRebuilt
<1>2. DOMAIN pending' = RebuiltItems /\ DOMAIN pending = RebuiltItems
  BY <1>0 DEF RebuiltPending, PendingIsCurrent
<1>3. \A i \in RebuiltItems :
        /\ pending'[i] = [slot |-> Cardinality(EnqueuedBy(i)), enqueued |-> EnqueuedAt(i),
                          revision |-> history[LatestOfItem(i)].itemRevision,
                          text |-> history[LatestOfItem(i)].request]
        /\ i \in Requests
  BY DEF RebuiltPending, EnqueuedBy, RebuiltItems
<1>4. /\ \A i \in RebuiltItems : Cardinality(EnqueuedBy(i)) \in 1 .. Capacity
      /\ \A i, j \in RebuiltItems : Cardinality(EnqueuedBy(i)) = Cardinality(EnqueuedBy(j)) => i = j
  BY <1>0, RanksAreSlots
<1>5. ASSUME NEW i \in RebuiltItems PROVE pending'[i] \in PendingRows
  <2>1. EnqueuedAt(i) \in Nat /\ LatestOfItem(i) \in MutationRows
    BY <1>0, EnqueuedRows
  <2>2. history[LatestOfItem(i)] \in MutationRowType
    BY <1>0, <2>1, RowTypes
  <2>3. /\ history[LatestOfItem(i)].itemRevision \in Nat
        /\ history[LatestOfItem(i)].request \in Requests
    BY <2>2 DEF MutationRowType
  <2>4. Cardinality(EnqueuedBy(i)) \in 1 .. Capacity
    BY <1>4
  <2>5. [slot |-> Cardinality(EnqueuedBy(i)), enqueued |-> EnqueuedAt(i),
         revision |-> history[LatestOfItem(i)].itemRevision,
         text |-> history[LatestOfItem(i)].request] \in PendingRows
    BY <2>1, <2>3, <2>4 DEF PendingRows
  <2> QED
    BY <1>3, <2>5
<1>6. pending' = [i \in RebuiltItems |-> pending'[i]]
  BY DEF RebuiltPending
<1>7. SteeringTypeOK'
  <2>1. pending' \in [DOMAIN pending' -> PendingRows] /\ DOMAIN pending' \subseteq Requests
    BY <1>2, <1>3, <1>5, <1>6
  <2> QED
    BY <1>0, <1>1, <2>1 DEF SteeringTypeOK, clients
<1>8. RowsAreOwned' /\ AppliedOnce' /\ HistoryIsValid'
  BY <1>0, HistoryUnchanged
<1>9. QueueIsCurrent'
  BY <1>0, <1>1 DEF QueueIsCurrent, TargetBefore, UnpausedBefore, PausedRows, TargetRows,
     SteeringRows, MutationRows, RowsOf, Now
<1>10. /\ RebuiltItems' = RebuiltItems /\ Now' = Now
       /\ \A i : LatestOfItem(i)' = LatestOfItem(i) /\ EnqueuedAt(i)' = EnqueuedAt(i)
       /\ \A change : RowsWith(change)' = RowsWith(change)
  BY DEF RebuiltItems, LatestOfItem, EnqueuedAt, RowsWith, MutationRows, RowsOf, Now
<1>11. \A i \in DOMAIN pending' :
         /\ pending'[i].enqueued = EnqueuedAt(i)'
         /\ pending'[i].revision = history'[LatestOfItem(i)'].itemRevision
         /\ pending'[i].text = history'[LatestOfItem(i)'].request
  BY <1>2, <1>3, <1>10
<1>12. \A i, j \in DOMAIN pending' : pending'[i].slot = pending'[j].slot => i = j
  BY <1>2, <1>3, <1>4
<1>13. Cardinality(RowsWith("enqueue")') - Cardinality(RowsWith("remove")')
         = Cardinality(DOMAIN pending')
  BY <1>0, <1>2, <1>10 DEF PendingIsCurrent
<1>14. PendingIsCurrent'
  BY <1>2, <1>10, <1>11, <1>12, <1>13 DEF PendingIsCurrent
<1> QED
  BY <1>7, <1>8, <1>9, <1>14 DEF SteeringInv

--------------------------------------------------------------------------------
(* The actions. *)

LEMMA SteeringInit == Init => SteeringInv
<1> SUFFICES ASSUME Init PROVE SteeringInv
  OBVIOUS
<1>1. history = <<>> /\ queue = NoQueue /\ pending = <<>>
  BY DEF Init
<1>2. history \in Seq(HistoryRows) /\ Len(history) = 0 /\ DOMAIN history = {}
  BY <1>1
<1>3. MutationRows = {} /\ SteeringRows = {} /\ PausedRows = {} /\ TargetRows = {}
      /\ (\A kind : RowsOf(kind) = {}) /\ \A change : RowsWith(change) = {}
  BY <1>2 DEF MutationRows, SteeringRows, PausedRows, TargetRows, RowsOf, RowsWith
<1>4. Now = 1 /\ Now \in Nat
  BY <1>2 DEF Now
<1>5. LatestBefore({}, Now) = 0
  BY <1>4, LatestIsNone
<1>6. SteeringTypeOK
  <2>1. DOMAIN pending = {} /\ pending \in [{} -> PendingRows]
    BY <1>1
  <2>2. queue \in [revision : Nat, target : Runs \cup {NoRun}, paused : BOOLEAN]
    BY <1>1 DEF NoQueue
  <2>3. /\ mutation \in [Requests -> MutationType \cup {NoMutation}]
        /\ handler \in [Requests \X Copies -> {"none", "preparing", "answered", "lost"}]
        /\ answer \in [Requests \X Copies -> Int]
    BY DEF Init
  <2> QED
    BY <1>2, <2>1, <2>2, <2>3 DEF SteeringTypeOK
<1>7. RowsAreOwned /\ AppliedOnce
  BY <1>3 DEF RowsAreOwned, AppliedOnce
<1>8. HistoryIsValid
  BY <1>2, ValidRows
<1>9. QueueIsCurrent
  <2>1. TargetBefore(Now) = NoRun /\ UnpausedBefore(Now) = FALSE
    BY <1>3, <1>5 DEF TargetBefore, UnpausedBefore
  <2>2. queue.revision = 0 /\ queue.target = NoRun /\ queue.paused = TRUE
    BY <1>1 DEF NoQueue
  <2>3. ~(queue.revision > 0)
    BY <2>2
  <2>4. ~UnpausedBefore(Now) = TRUE
    BY <2>1
  <2>5. queue.paused = ~UnpausedBefore(Now)
    BY <2>2, <2>4
  <2> QED
    BY <1>3, <2>1, <2>2, <2>3, <2>5 DEF QueueIsCurrent
<1>10. PendingIsCurrent
  <2>1. \A i : LatestOfItem(i) = 0
    <3> TAKE i
    <3>1. {j \in MutationRows : history[j].item = i} = {}
      BY <1>3
    <3> QED
      BY <1>5, <3>1 DEF LatestOfItem
  <2>2. RebuiltItems = {} /\ DOMAIN pending = {}
    BY <1>1, <2>1 DEF RebuiltItems
  <2>3. Cardinality({}) = 0
    BY FS_EmptySet
  <2>4. Cardinality(RowsWith("enqueue")) - Cardinality(RowsWith("remove")) = Cardinality(DOMAIN pending)
    <3>1. RowsWith("enqueue") = {} /\ RowsWith("remove") = {}
      BY <1>3
    <3>2. /\ Cardinality(RowsWith("enqueue")) = 0 /\ Cardinality(RowsWith("remove")) = 0
          /\ Cardinality(DOMAIN pending) = 0
      BY <2>2, <2>3, <3>1
    <3> QED
      BY <3>2
  <2> QED
    BY <2>2, <2>4 DEF PendingIsCurrent
<1> QED
  BY <1>6, <1>7, <1>8, <1>9, <1>10 DEF SteeringInv

LEMMA AcceptRunKeeps ==
  ASSUME SteeringInv, NEW r \in Runs, AcceptRun(r)
  PROVE  SteeringInv'
<1>1. SteeringTypeOK
  BY DEF SteeringInv
<1>2. PICK src : src = [kind |-> "accepted", run |-> r]
  OBVIOUS
<1>3. src \in RunRows /\ src \in SourceRows /\ src \in HistoryRows /\ src.kind = "accepted"
  BY <1>2 DEF RunRows, SourceRows, HistoryRows
<1>4. history' = Append(history, src) /\ UNCHANGED <<queue, pending, clients>>
  BY <1>2 DEF AcceptRun
<1>5. history' \in Seq(HistoryRows)
  BY <1>1, <1>3, <1>4, AppendedRow DEF SteeringTypeOK
<1>6. SteeringTypeOK'
  BY <1>1, <1>4, <1>5 DEF SteeringTypeOK, clients
<1> QED
  BY <1>3, <1>4, <1>6, SourceAppended

LEMMA CancelRunKeeps ==
  ASSUME SteeringInv, NEW r \in Runs, CancelRun(r)
  PROVE  SteeringInv'
<1>1. PICK src : src = [kind |-> "cancelled", run |-> r]
  OBVIOUS
<1>2. /\ src \in SourceRows /\ src.kind = "cancelled" /\ src.run = r
      /\ Reasons[src.kind] = "cancellation"
  BY <1>1 DEF SourceRows, RunRows, Reasons
<1>3. AppendAndPause(<<src>>, "cancellation", {r}) /\ UNCHANGED <<pending, clients>>
  BY <1>1 DEF CancelRun
<1> QED
  BY <1>2, <1>3, AppendAndPauseStep

LEMMA EndRunKeeps ==
  ASSUME SteeringInv, NEW r \in Runs, EndRun(r)
  PROVE  SteeringInv'
<1>1. PICK src : src = [kind |-> "ended", run |-> r]
  OBVIOUS
<1>2. /\ src \in SourceRows /\ src.kind = "ended" /\ src.run = r
      /\ Reasons[src.kind] = "terminal"
  BY <1>1 DEF SourceRows, RunRows, Reasons
<1>3. AppendAndPause(<<src>>, "terminal", {r}) /\ UNCHANGED <<pending, clients>>
  BY <1>1 DEF EndRun
<1> QED
  BY <1>2, <1>3, AppendAndPauseStep

LEMMA PrepareArchiveKeeps ==
  ASSUME SteeringInv, NEW a \in Archives, PrepareArchive(a)
  PROVE  SteeringInv'
<1>1. PICK src : src = [kind |-> "archive", request |-> a, flag |-> ArchiveFlag[a]]
  OBVIOUS
<1>2. ArchiveFlag[a] \in BOOLEAN
  BY SteeringAssumption
<1>3. /\ src \in SourceRows /\ src.kind = "archive" /\ src.flag = ArchiveFlag[a]
      /\ Reasons[src.kind] = "archive"
  BY <1>1, <1>2 DEF SourceRows, ArchiveRows, Reasons
<1>4. /\ AppendAndPause(<<src>>, "archive", IF src.flag THEN Runs ELSE {})
      /\ UNCHANGED <<pending, clients>>
  BY <1>1, <1>3 DEF PrepareArchive
<1> QED
  BY <1>3, <1>4, AppendAndPauseStep

LEMMA AsksTyped ==
  ASSUME SteeringTypeOK, NEW m \in Asks
  PROVE  m \in MutationType
<1> DEFINE ask(c, r, i, n) == [change |-> c, expected |-> queue.revision, run |-> r, item |-> i,
                               itemRevision |-> n]
<1>1. queue.revision \in Nat /\ DOMAIN pending \subseteq Requests
  BY DEF SteeringTypeOK
<1>2. \A c \in Changes, r \in Runs \cup {NoRun}, i \in Requests \cup {"none"}, n \in Nat :
         ask(c, r, i, n) \in MutationType
  BY <1>1 DEF MutationType
<1>3. \/ \E c \in TargetChanges, r \in Runs : m = ask(c, r, "none", 0)
      \/ m = ask("pause", NoRun, "none", 0)
      \/ \E i \in DOMAIN pending : \E c \in {"edit", "remove"}, n \in 1 .. pending[i].revision :
           m = ask(c, NoRun, i, n)
  BY DEF Asks
<1>4. CASE \E c \in TargetChanges, r \in Runs : m = ask(c, r, "none", 0)
  <2>1. PICK c \in TargetChanges, r \in Runs : m = ask(c, r, "none", 0)
    BY <1>4
  <2>2. c \in Changes
    BY DEF TargetChanges, Changes
  <2> HIDE DEF ask
  <2> QED
    BY <1>2, <2>1, <2>2
<1>5. CASE m = ask("pause", NoRun, "none", 0)
  <2>1. "pause" \in Changes
    BY DEF Changes
  <2> HIDE DEF ask
  <2> QED
    BY <1>2, <1>5, <2>1
<1>6. CASE \E i \in DOMAIN pending : \E c \in {"edit", "remove"}, n \in 1 .. pending[i].revision :
             m = ask(c, NoRun, i, n)
  <2>1. PICK i \in DOMAIN pending : \E c \in {"edit", "remove"}, n \in 1 .. pending[i].revision :
             m = ask(c, NoRun, i, n)
    BY <1>6
  <2>2. PICK c \in {"edit", "remove"}, n \in 1 .. pending[i].revision : m = ask(c, NoRun, i, n)
    BY <2>1
  <2>3. c \in Changes /\ i \in Requests /\ n \in Nat
    BY <1>1 DEF Changes, SteeringTypeOK, PendingRows
  <2> HIDE DEF ask
  <2> QED
    BY <1>2, <2>2, <2>3
<1> QED
  BY <1>3, <1>4, <1>5, <1>6

LEMMA AnswerTyped ==
  ASSUME SteeringTypeOK, NEW h \in Requests \X Copies, NEW value \in Int, Answer(h, value)
  PROVE  /\ handler' \in [Requests \X Copies -> {"none", "preparing", "answered", "lost"}]
         /\ answer' \in [Requests \X Copies -> Int]
BY DEF SteeringTypeOK, Answer

LEMMA ReceiveKeeps ==
  ASSUME SteeringInv, NEW q \in Requests, NEW c \in Copies, Receive(q, c)
  PROVE  SteeringInv'
<1>0. SteeringTypeOK
  BY DEF SteeringInv
<1>1. UNCHANGED <<history, queue, pending>>
  BY DEF Receive, tables
<1>2. mutation' \in [Requests -> MutationType \cup {NoMutation}]
  <2>1. CASE \E m \in Asks : mutation' = [mutation EXCEPT ![q] = m]
    <3>1. PICK m \in Asks : mutation' = [mutation EXCEPT ![q] = m]
      BY <2>1
    <3>2. m \in MutationType
      BY <1>0, AsksTyped
    <3> QED
      BY <1>0, <3>1, <3>2 DEF SteeringTypeOK
  <2>2. CASE UNCHANGED mutation
    BY <1>0, <2>2 DEF SteeringTypeOK
  <2> QED
    BY <2>1, <2>2 DEF Receive
<1>3. Receipt(q) \in Int /\ <<q, c>> \in Requests \X Copies
  BY <1>0, NoReceipt
<1>4. /\ handler' \in [Requests \X Copies -> {"none", "preparing", "answered", "lost"}]
      /\ answer' \in [Requests \X Copies -> Int]
  <2>1. CASE Answer(<<q, c>>, Receipt(q))
    BY <1>0, <1>3, <2>1, AnswerTyped
  <2>2. CASE Answer(<<q, c>>, -1)
    BY <1>0, <1>3, <2>2, AnswerTyped
  <2>3. CASE handler' = [handler EXCEPT ![<<q, c>>] = "preparing"] /\ UNCHANGED answer
    BY <1>0, <2>3 DEF SteeringTypeOK
  <2> QED
    BY <2>1, <2>2, <2>3 DEF Receive
<1>5. SteeringTypeOK'
  BY <1>0, <1>1, <1>2, <1>4 DEF SteeringTypeOK
<1> QED
  BY <1>1, <1>5, TablesUnchanged

LEMMA CommitKeeps ==
  ASSUME SteeringInv, NEW q \in Requests, NEW c \in Copies, Commit(q, c)
  PROVE  SteeringInv'
<1>0. SteeringTypeOK
  BY DEF SteeringInv
<1>1. mutation' = mutation /\ <<q, c>> \in Requests \X Copies
  BY DEF Commit
<1>2. Receipt(q) \in Int /\ Now \in Int
  BY <1>0, NoReceipt, RowTypes DEF Now
<1>3. CASE UNCHANGED <<history, queue, pending>>
  <2>1. \E value \in Int : Answer(<<q, c>>, value)
    BY <1>2 DEF Commit
  <2>2. /\ handler' \in [Requests \X Copies -> {"none", "preparing", "answered", "lost"}]
        /\ answer' \in [Requests \X Copies -> Int]
    BY <1>0, <1>1, <2>1, AnswerTyped
  <2>3. SteeringTypeOK'
    BY <1>0, <1>1, <1>3, <2>2 DEF SteeringTypeOK
  <2> QED
    BY <1>3, <2>3, TablesUnchanged
<1>4. CASE Applies(q) /\ Answer(<<q, c>>, Now)
  <2>1. /\ handler' \in [Requests \X Copies -> {"none", "preparing", "answered", "lost"}]
        /\ answer' \in [Requests \X Copies -> Int]
    BY <1>0, <1>1, <1>2, <1>4, AnswerTyped
  <2> PICK m : m = mutation[q]
    OBVIOUS
  <2> PICK n : n = Len(history) + 1
    OBVIOUS
  <2>2. /\ history' \in Seq(HistoryRows) /\ m \in MutationType /\ n \in Nat
        /\ m.expected = queue.revision
        /\ m.change \in TargetChanges => m.run \in Runs
    BY <1>4, AppliedRow
  <2>3. queue' \in [revision : Nat, target : Runs \cup {NoRun}, paused : BOOLEAN]
    <3>1. queue' = [revision |-> m.expected + 1,
                    target |-> IF m.change \in TargetChanges THEN m.run ELSE queue.target,
                    paused |-> CASE m.change = "pause" -> TRUE
                                 [] m.change = "resume" -> FALSE
                                 [] OTHER -> queue.paused]
      BY <1>4 DEF Applies, ApplyMutation
    <3>2. m.expected + 1 \in Nat
      BY <2>2 DEF MutationType
    <3>3. (IF m.change \in TargetChanges THEN m.run ELSE queue.target) \in Runs \cup {NoRun}
      BY <1>0, <2>2 DEF SteeringTypeOK
    <3>4. (CASE m.change = "pause" -> TRUE
             [] m.change = "resume" -> FALSE
             [] OTHER -> queue.paused) \in BOOLEAN
      BY <1>0 DEF SteeringTypeOK
    <3> QED
      BY <3>1, <3>2, <3>3, <3>4
  <2>4. PendingAfter(q, m, n)
    BY <1>4, ReceiptPending
  <2>5. \A i \in DOMAIN pending : pending[i] \in PendingRows /\ i \in Requests
    BY <1>0 DEF SteeringTypeOK
  <2>6. m.change \in {"enqueue", "edit", "remove"} \/ m.change \notin ItemChanges
    BY DEF ItemChanges
  <2>7. ASSUME NEW i \in DOMAIN pending' PROVE pending'[i] \in PendingRows /\ i \in Requests
    <3>1. CASE m.change = "enqueue"
      <4>1. FreeSlot \in 1 .. Capacity
        BY <2>4, <3>1, FreeSlotIsFree DEF PendingAfter
      <4>2. [slot |-> FreeSlot, enqueued |-> n, revision |-> 1, text |-> q] \in PendingRows
        BY <2>2, <4>1 DEF PendingRows
      <4> QED
        BY <2>4, <2>5, <3>1, <4>2 DEF PendingAfter
    <3>2. CASE m.change = "edit"
      <4>1. m.item \in DOMAIN pending /\ m.itemRevision + 1 \in Nat
        BY <2>2, <2>4, <3>2 DEF PendingAfter, MutationType
      <4>2. [pending[m.item] EXCEPT !.revision = m.itemRevision + 1, !.text = q] \in PendingRows
        BY <2>5, <4>1 DEF PendingRows
      <4> QED
        BY <2>4, <2>5, <3>2, <4>1, <4>2 DEF PendingAfter
    <3>3. CASE m.change = "remove"
      BY <2>4, <2>5, <3>3 DEF PendingAfter
    <3>4. CASE m.change \notin ItemChanges
      BY <2>4, <2>5, <3>4 DEF PendingAfter
    <3> QED
      BY <2>6, <3>1, <3>2, <3>3, <3>4
  <2>8. pending' = [i \in DOMAIN pending' |-> pending'[i]]
    <3>1. \A S, f : pending' = [i \in S |-> f[i]] => pending' = [i \in DOMAIN pending' |-> pending'[i]]
      OBVIOUS
    <3> QED
      BY <1>0, <1>4 DEF Applies, ApplyMutation, WithItem, SteeringTypeOK
  <2>9. SteeringTypeOK'
    BY <1>0, <1>1, <2>1, <2>2, <2>3, <2>7, <2>8 DEF SteeringTypeOK
  <2> QED
    BY <1>4, <2>9, ApplyStep
<1> QED
  BY <1>3, <1>4 DEF Commit, Applies

LEMMA ServerStepKeeps ==
  ASSUME SteeringInv,
         \/ \E a \in Archives : CompleteArchive(a)
         \/ StopServer \/ Crash \/ Serve
  PROVE  SteeringInv'
<1>0. SteeringTypeOK
  BY DEF SteeringInv
<1>1. /\ UNCHANGED <<history, queue, pending, mutation, answer>>
      /\ handler' \in [Requests \X Copies -> {"none", "preparing", "answered", "lost"}]
  <2>1. CASE \E a \in Archives : CompleteArchive(a)
    BY <1>0, <2>1 DEF SteeringTypeOK, CompleteArchive, clients
  <2>2. CASE StopServer
    BY <1>0, <2>2 DEF SteeringTypeOK, StopServer, tables, clients
  <2>3. CASE Crash
    BY <1>0, <2>3 DEF SteeringTypeOK, Crash, tables
  <2>4. CASE Serve
    BY <1>0, <2>4 DEF SteeringTypeOK, Serve, tables, clients
  <2> QED
    BY <2>1, <2>2, <2>3, <2>4
<1>2. SteeringTypeOK'
  BY <1>0, <1>1 DEF SteeringTypeOK
<1> QED
  BY <1>1, <1>2, TablesUnchanged

LEMMA SteeringNext == SteeringInv /\ [Next]_vars => SteeringInv'
<1> SUFFICES ASSUME SteeringInv, [Next]_vars PROVE SteeringInv'
  OBVIOUS
<1>1. CASE \E r \in Runs : AcceptRun(r) \/ CancelRun(r) \/ EndRun(r)
  BY <1>1, AcceptRunKeeps, CancelRunKeeps, EndRunKeeps
<1>2. CASE \E a \in Archives : PrepareArchive(a)
  BY <1>2, PrepareArchiveKeeps
<1>3. CASE \E q \in Requests, c \in Copies : Receive(q, c) \/ Commit(q, c)
  BY <1>3, ReceiveKeeps, CommitKeeps
<1>4. CASE Repair
  BY <1>4, RepairKeeps DEF Repair
<1>5. CASE RecoverSteering
  <2>1. AppendAndPause(<<>>, "recovery", Runs) /\ UNCHANGED <<pending, clients>>
    BY <1>5 DEF RecoverSteering
  <2> QED
    BY <2>1, AppendAndPauseStep
<1>6. CASE (\E a \in Archives : CompleteArchive(a)) \/ StopServer \/ Crash \/ Serve
  BY <1>6, ServerStepKeeps
<1>7. CASE UNCHANGED vars
  <2>1. UNCHANGED <<history, queue, pending, mutation, handler, answer>>
    BY <1>7 DEF vars, tables, clients
  <2>2. SteeringTypeOK'
    BY <2>1 DEF SteeringInv, SteeringTypeOK
  <2> QED
    BY <2>1, <2>2, TablesUnchanged
<1> QED
  BY <1>1, <1>2, <1>3, <1>4, <1>5, <1>6, <1>7 DEF Next

(* The rows are valid and the projections say what the rows say, through   *)
(* mutations, copies of a request, cancellations, terminal runs, archives  *)
(* and crashes: the inductive invariant of the queue.                      *)
THEOREM SteeringTheorem == Spec => []SteeringInv
<1>1. Init => SteeringInv
  BY SteeringInit
<1>2. SteeringInv /\ [Next]_vars => SteeringInv'
  BY SteeringNext
<1> QED
  BY <1>1, <1>2, PTL DEF Spec

\* In every state a crash can leave, the next start accepts the history of the queue
\* and rebuilds the queue the clients have seen (validate_history and the rebuild).
THEOREM RebuildableTheorem == Spec => []QueueIsRebuildable
<1>1. SteeringInv => QueueIsRebuildable
  <2> SUFFICES ASSUME SteeringInv PROVE QueueIsRebuildable
    OBVIOUS
  <2>1. /\ SteeringTypeOK /\ RowsAreOwned /\ HistoryIsValid /\ QueueIsCurrent /\ PendingIsCurrent
    BY DEF SteeringInv
  <2>2. queue = RebuiltQueue
    BY <2>1, QueueIsRebuilt
  <2>3. DOMAIN pending = RebuiltItems
    BY <2>1 DEF PendingIsCurrent
  <2>4. ASSUME NEW i \in DOMAIN pending
        PROVE  [pending[i] EXCEPT !.slot = 0] = [RebuiltPending[i] EXCEPT !.slot = 0]
    <3>1. pending[i] \in PendingRows
      BY <2>1 DEF SteeringTypeOK
    <3>2. pending[i] = [slot |-> pending[i].slot, enqueued |-> EnqueuedAt(i),
                        revision |-> history[LatestOfItem(i)].itemRevision,
                        text |-> history[LatestOfItem(i)].request]
      BY <2>1, <3>1 DEF PendingIsCurrent, PendingRows
    <3>3. RebuiltPending[i] =
            [slot |-> Cardinality({j \in RebuiltItems : EnqueuedAt(j) <= EnqueuedAt(i)}),
             enqueued |-> EnqueuedAt(i),
             revision |-> history[LatestOfItem(i)].itemRevision,
             text |-> history[LatestOfItem(i)].request]
      BY <2>3 DEF RebuiltPending
    <3> QED
      BY <3>2, <3>3
  <2>5. \A i, j \in DOMAIN pending : pending[i].slot = pending[j].slot => i = j
    BY <2>1 DEF PendingIsCurrent
  <2> QED
    BY <2>1, <2>2, <2>3, <2>4, <2>5 DEF QueueIsRebuildable
<1> QED
  BY <1>1, SteeringTheorem, PTL

(* A request whose mutation was applied is answered with its receipt by    *)
(* every later copy, and changes nothing (the two lookups of               *)
(* execute_steering).                                                      *)
THEOREM RetryTheorem == Spec => AcceptedRetryIsAnswered
<1> DEFINE Retry(h) == answer'[h] # answer[h] /\ Receipt(h[1]) # 0 =>
                         answer'[h] = Receipt(h[1]) /\ UNCHANGED <<history, queue, pending>>
<1>1. ASSUME SteeringInv, [Next]_vars, NEW h \in Requests \X Copies PROVE Retry(h)
  <2>0. answer \in [Requests \X Copies -> Int]
    BY <1>1 DEF SteeringInv, SteeringTypeOK
  <2>1. CASE \E q \in Requests, c \in Copies : Receive(q, c) \/ Commit(q, c)
    <3>1. PICK q \in Requests, c \in Copies : Receive(q, c) \/ Commit(q, c)
      BY <2>1
    <3>2. ASSUME NEW value, Answer(<<q, c>>, value), h # <<q, c>> PROVE answer'[h] = answer[h]
      BY <2>0, <3>2 DEF Answer
    <3>3. \/ UNCHANGED answer \/ \E value : Answer(<<q, c>>, value)
      BY <3>1 DEF Receive, Commit
    <3>4. CASE h # <<q, c>>
      BY <3>2, <3>3, <3>4
    <3>5. CASE h = <<q, c>> /\ Receipt(q) # 0
      <4>1. Answer(<<q, c>>, Receipt(q)) /\ UNCHANGED <<history, queue, pending>>
        BY <3>1, <3>5 DEF Receive, Commit, tables
      <4> QED
        BY <2>0, <3>5, <4>1 DEF Answer
    <3>6. CASE h = <<q, c>> /\ Receipt(q) = 0
      BY <3>6
    <3> QED
      BY <3>4, <3>5, <3>6
  <2>2. CASE UNCHANGED answer
    BY <2>2
  <2>3. (\E q \in Requests, c \in Copies : Receive(q, c) \/ Commit(q, c)) \/ UNCHANGED answer
    BY <1>1 DEF Next, AcceptRun, CancelRun, EndRun, PrepareArchive, CompleteArchive, StopServer,
       Crash, Repair, RecoverSteering, Serve, clients, vars
  <2> QED
    BY <2>1, <2>2, <2>3
<1>2. SteeringInv /\ [Next]_vars =>
        [\A h \in Requests \X Copies :
           answer'[h] # answer[h] /\ Receipt(h[1]) # 0 =>
             answer'[h] = Receipt(h[1]) /\ UNCHANGED <<history, queue, pending>>]_vars
  BY <1>1
<1> QED
  BY <1>2, SteeringTheorem, PTL DEF Spec, AcceptedRetryIsAnswered
===============================================================================

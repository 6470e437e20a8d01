---------------------------- MODULE ImportProofs ----------------------------
(***************************************************************************)
(* Proofs about Import, for any tables and files, any number of writers,   *)
(* any sizes of a batch and of the queues and any number of faults.        *)
(*                                                                         *)
(* Everything rests on where a row is: not read yet, in one batch of the   *)
(* queue, in the hands of one writer, or in its table.                     *)
(***************************************************************************)
EXTENDS Import, FiniteSetTheorems, SequenceTheorems, TLAPS

Places == 1 .. Len(work_queue)
Carries(b, t, r) == b.table = t /\ r \in RowsOf(b)
AtHand(w, t, r) == writer[w] \in {"batch", "repair"} \cup Failing /\ Carries(batch[w], t, r)

(* One row.  It may be in its table already only when it is being repaired.*)
RowInv(t, r) ==
  /\ \A i, j \in Places : Carries(work_queue[i], t, r) /\ Carries(work_queue[j], t, r) => i = j
  /\ \A i \in Places : Carries(work_queue[i], t, r) =>
       /\ r <= rows_read[t] /\ stored[t][r] = 0
       /\ \A w \in Writer : ~AtHand(w, t, r)
  /\ \A w \in Writer : AtHand(w, t, r) =>
       /\ r <= rows_read[t]
       /\ writer[w] = "batch" => stored[t][r] = 0
       /\ \A v \in Writer : AtHand(v, t, r) => v = w
  /\ r > rows_read[t] => stored[t][r] = 0
  /\ stored[t][r] <= 1
  /\ ~exit_event /\ r <= rows_read[t] =>
       \/ stored[t][r] = 1
       \/ \E i \in Places : Carries(work_queue[i], t, r)
       \/ Holding(t, r) # {}
Rows == \A t \in Table : \A r \in Row(t) : RowInv(t, r)

(* The rows that are counted: in the table, and in nobody's hands.         *)
Settled(t) == {r \in Row(t) : stored[t][r] > 0 /\ Holding(t, r) = {}}
Counts ==
  \A t \in Table : /\ rows_written[t] <= Cardinality(Settled(t))
                   /\ ~exit_event => rows_written[t] = Cardinality(Settled(t))

(* A process that is about to set exit_event has put its error.            *)
Reported ==
  /\ \A t \in Table : reader[t] = "event" => errors \cup error_queue # {}
  /\ \A w \in Writer : writer[w] = "event" => errors \cup error_queue # {}

(* The processes, as the main process knows of them.                       *)
Phases ==
  /\ main = "start" => Cardinality(readers) < Cardinality(Writer)
  /\ main = "setup" => /\ readers = {} /\ file_iter = Table /\ error_queue = {}
                       /\ \A w \in Writer : writer[w] = "none"
  /\ main \in {"wait", "stops", "writers"} /\ ~exit_event => file_iter = {}
  /\ main \in {"stops", "writers"} => readers = {}
  /\ main # "done" => result = "none"
  /\ exit_event /\ interrupts = 0 => errors \cup error_queue # {}
  /\ Reported
ReaderPhases ==
  \A t \in Table :
    /\ reader[t] = "none" <=> t \in file_iter
    /\ reader[t] \in {"read", "put", "finish"} \cup Failing => t \in readers
    /\ reader[t] = "put" => rows_read[t] < RowCount[t]
    /\ reader[t] = "finish" => rows_read[t] = RowCount[t]
    /\ reader[t] = "dead" /\ ~exit_event => rows_read[t] = RowCount[t]

(* The StopIterations come last, and a writer ends because of one of them  *)
(* or because everything does.                                             *)
HasStop(w) == writer[w] = "batch" /\ batch[w] = Stop
Lineup ==
  /\ main \in {"setup", "start", "watch", "wait"} =>
       /\ \A i \in Places : work_queue[i] # Stop
       /\ \A w \in Writer : ~HasStop(w) /\ (writer[w] = "dead" => exit_event)
  /\ \A i, j \in Places : i < j /\ work_queue[i] = Stop => work_queue[j] = Stop
  /\ \A w \in Writer : HasStop(w) \/ (writer[w] = "dead" /\ ~exit_event) =>
       \A i \in Places : work_queue[i] = Stop
Repairs ==
  \A w \in Writer : writer[w] \in {"repair"} \cup Failing =>
    batch[w] # Stop /\ next_row[w] \in RowsOf(batch[w])

(* TypeOK, by the process that has the variables; stored is a function.    *)
MainTyped ==
  /\ main \in {"setup", "start", "watch", "wait", "stops", "writers", "done"}
  /\ force \in BOOLEAN /\ keyed \subseteq Table
  /\ {file_iter, readers, errors} \subseteq SUBSET Table
  /\ file_iter \cap readers = {} /\ Cardinality(readers) <= Cardinality(Writer)
  /\ stops_left \in 0 .. Cardinality(Writer) /\ interrupts \in 0 .. 2 /\ error_torn \in BOOLEAN
  /\ result \in {"none", "success", "errors", "warnings", "RuntimeError"}
SharedTyped ==
  /\ exit_event \in BOOLEAN /\ {error_queue, warning_queue} \subseteq SUBSET Table
  /\ work_queue \in Seq(Batch \cup {Stop}) /\ Len(work_queue) <= QueueSize
  /\ timing_queue \in 0 .. TimingSize /\ faults \in 0 .. MaxFaults
ReaderTyped ==
  /\ reader \in [Table -> {"none", "read", "put", "finish", "dead"} \cup Failing]
  /\ rows_read \in [Table -> Nat]
  /\ \A t \in Table : rows_read[t] <= RowCount[t]
WriterTyped ==
  /\ writer \in [Writer -> {"none", "get", "batch", "repair", "dead"} \cup Failing]
  /\ batch \in [Writer -> Batch \cup {Stop}]
  /\ next_row \in [Writer -> Nat] /\ rows_written \in [Table -> Nat]
  /\ stored = [t \in Table |-> stored[t]]
  /\ \A t \in Table : stored[t] \in [Row(t) -> Nat]
Typed == MainTyped /\ SharedTyped /\ ReaderTyped /\ WriterTyped

IInv == /\ Typed /\ Phases /\ ReaderPhases /\ Lineup /\ Repairs
        /\ Rows /\ Counts /\ NothingLeft /\ CompleteUnlessReported

-----------------------------------------------------------------------------
LEMMA Sizes ==
  /\ BatchSize \in Nat \ {0} /\ QueueSize \in Nat \ {0} /\ TimingSize \in Nat \ {0}
  /\ MaxFaults \in Nat /\ Cardinality(Writer) \in Nat \ {0}
<1>1. Cardinality(Writer) \in Nat /\ Cardinality(Writer) # 0
  BY ImportAssumption, FS_EmptySet, FS_CardinalityType
<1> QED BY <1>1, ImportAssumption

(* Batches and rows.                                                       *)
LEMMA StopRows == \A t : \A r \in Nat \ {0} : ~Carries(Stop, t, r)
BY DEF Carries, RowsOf, Stop

LEMMA BatchRows ==
  ASSUME NEW b \in Batch
  PROVE  /\ b # Stop /\ b.table \in Table
         /\ b.first \in Nat \ {0} /\ b.last \in Nat /\ b.first <= b.last
         /\ b.last <= RowCount[b.table]
         /\ RowsOf(b) \subseteq Row(b.table) /\ b.first \in RowsOf(b)
BY ImportAssumption DEF Batch, Stop, RowsOf, Row

LEMMA RowType ==
  ASSUME Typed, NEW t \in Table
  PROVE  /\ RowCount[t] \in Nat /\ Row(t) \subseteq Nat \ {0}
         /\ rows_read[t] \in Nat /\ rows_read[t] <= RowCount[t]
         /\ rows_written[t] \in Nat
         /\ \A r \in Row(t) : stored[t][r] \in Nat
BY ImportAssumption DEF Typed, ReaderTyped, WriterTyped, Row

LEMMA RowsFinite ==
  ASSUME NEW t \in Table, NEW S, S \subseteq Row(t)
  PROVE  IsFiniteSet(S) /\ Cardinality(S) \in Nat
<1>1. RowCount[t] \in Int /\ 1 \in Int
  BY ImportAssumption
<1>2. IsFiniteSet(Row(t))
  BY <1>1, FS_Interval DEF Row
<1> QED BY <1>2, FS_Subset, FS_CardinalityType

LEMMA TypedOK == Typed => TypeOK
BY Zenon DEF Typed, MainTyped, SharedTyped, ReaderTyped, WriterTyped, TypeOK

LEMMA InitImport == Init => IInv
<1> SUFFICES ASSUME Init PROVE IInv
  OBVIOUS
<1> USE ImportAssumption DEF Init
<1>1. Typed
  <2>1. MainTyped
    <3>1. Cardinality({}) = 0 /\ Cardinality(Writer) \in Nat
      BY FS_EmptySet, Sizes
    <3>2. /\ force \in BOOLEAN /\ error_torn \in BOOLEAN /\ interrupts \in 0 .. 2
          /\ keyed \subseteq Table
      <4>1. force \in BOOLEAN /\ interrupts \in 0 .. 2
        OBVIOUS
      <4>2. error_torn \in BOOLEAN
        BY Zenon
      <4>3. keyed \subseteq Table
        OBVIOUS
      <4> QED BY <4>1, <4>2, <4>3
    <3>3. file_iter \cap readers = {} /\ {file_iter, readers, errors} \subseteq SUBSET Table
      OBVIOUS
    <3>4. stops_left \in 0 .. Cardinality(Writer) /\ Cardinality(readers) <= Cardinality(Writer)
      BY <3>1
    <3> QED BY <3>2, <3>3, <3>4 DEF MainTyped
  <2>2. SharedTyped
    <3>1. work_queue \in Seq(Batch \cup {Stop}) /\ Len(work_queue) = 0
      OBVIOUS
    <3>2. timing_queue \in 0 .. TimingSize /\ faults \in 0 .. MaxFaults /\ 0 <= QueueSize
      BY Sizes
    <3> QED BY <3>1, <3>2 DEF SharedTyped
  <2>3. ReaderTyped
    BY DEF ReaderTyped
  <2>4. WriterTyped
    BY DEF WriterTyped
  <2> QED BY <2>1, <2>2, <2>3, <2>4 DEF Typed
<1>2. Phases /\ ReaderPhases
  <2>1. Cardinality({}) = 0 /\ Cardinality(Writer) \in Nat
    BY FS_EmptySet, FS_CardinalityType
  <2>2. Reported
    BY DEF Reported
  <2> QED BY <2>1, <2>2 DEF Phases, ReaderPhases, Failing
<1>3. Lineup /\ Repairs
  BY DEF Lineup, Repairs, Places, HasStop, Failing
<1>4. Rows
  BY RowType, <1>1 DEF Rows, RowInv, Places, AtHand, Failing
<1>5. Counts
  <2> SUFFICES ASSUME NEW t \in Table
               PROVE  rows_written[t] = 0 /\ Cardinality(Settled(t)) = 0
    BY DEF Counts
  <2>1. Settled(t) = {}
    BY DEF Settled
  <2> QED BY <2>1, FS_EmptySet
<1>6. NothingLeft /\ CompleteUnlessReported
  BY DEF NothingLeft, CompleteUnlessReported
<1> QED BY <1>1, <1>2, <1>3, <1>4, <1>5, <1>6 DEF IInv

-----------------------------------------------------------------------------
(* A step that moves no row: a writer may begin, or end with none in hand, *)
(* or end when everything does.                                            *)
LEMMA RowsQuiet ==
  ASSUME Typed, Rows, Counts, Repairs,
         UNCHANGED <<work_queue, batch, next_row, rows_read, rows_written, stored>>,
         exit_event' \in BOOLEAN, exit_event => exit_event',
         \A w \in Writer :
           \/ writer'[w] = writer[w]
           \/ writer[w] = "none" /\ writer'[w] = "get"
           \/ writer[w] \in Failing /\ writer'[w] \in Failing
           \/ writer'[w] = "dead" /\ (exit_event' \/ writer[w] = "get" \/ HasStop(w))
  PROVE  Rows' /\ Counts' /\ Repairs'
<1>1. Repairs'
  BY DEF Repairs, Failing
<1>2. ASSUME NEW t \in Table, NEW r \in Row(t)
      PROVE  /\ \A w \in Writer : AtHand(w, t, r)' =>
                  AtHand(w, t, r) /\ (writer'[w] = "batch" => writer[w] = "batch")
             /\ Holding(t, r)' \subseteq Holding(t, r)
             /\ ~exit_event' => Holding(t, r)' = Holding(t, r)
  <2>1. ~Carries(Stop, t, r)
    BY StopRows, RowType, <1>2
  <2>2. \A w \in Writer : AtHand(w, t, r)' =>
           AtHand(w, t, r) /\ (writer'[w] = "batch" => writer[w] = "batch")
    BY DEF AtHand, Failing
  <2>3. Holding(t, r)' \subseteq Holding(t, r)
    BY DEF Holding, Failing
  <2>4. ASSUME ~exit_event', NEW w \in Holding(t, r) PROVE w \in Holding(t, r)'
    BY <2>1, <2>4 DEF Holding, Carries, HasStop, Failing
  <2> QED BY <2>2, <2>3, <2>4
<1>3. Rows'
  <2> SUFFICES ASSUME NEW t \in Table, NEW r \in Row(t) PROVE RowInv(t, r)'
    BY DEF Rows, Row
  <2>1. RowInv(t, r)
    BY DEF Rows
  <2>2. Places' = Places
    BY DEF Places
  <2> QED BY <1>2, <2>1, <2>2 DEF RowInv
<1>4. Counts'
  <2> SUFFICES ASSUME NEW t \in Table
               PROVE  /\ rows_written[t] <= Cardinality(Settled(t)')
                      /\ ~exit_event' => rows_written[t] = Cardinality(Settled(t)')
    BY DEF Counts
  <2>1. Settled(t) \subseteq Settled(t)' /\ Settled(t)' \subseteq Row(t)
    BY <1>2 DEF Settled, Row
  <2>2. ~exit_event' => Settled(t)' = Settled(t)
    BY <1>2 DEF Settled, Row
  <2>3. IsFiniteSet(Settled(t)')
    BY <2>1, RowsFinite
  <2>4. Cardinality(Settled(t)) <= Cardinality(Settled(t)') /\ Cardinality(Settled(t)') \in Nat
    BY <2>1, <2>3, FS_Subset, FS_CardinalityType
  <2> QED BY <2>1, <2>2, <2>4, RowType, RowsFinite DEF Counts
<1> QED BY <1>1, <1>3, <1>4

(* Nobody's hands, no table: only the queue changes.                       *)
LEMMA SettledSame ==
  ASSUME Counts, UNCHANGED <<exit_event, rows_written, stored>>,
         \A t \in Table : \A r \in Row(t) :
           stored[t][r] > 0 => (Holding(t, r)' = {} <=> Holding(t, r) = {})
  PROVE  Counts'
<1>1. \A t \in Table : Settled(t)' = Settled(t)
  BY DEF Settled, Row
<1> QED BY <1>1 DEF Counts

(* The main process empties the queue or puts a StopIteration.             *)
LEMMA RowsInQueue ==
  ASSUME Typed, Rows, Counts, Repairs,
         UNCHANGED <<exit_event, batch, next_row, rows_written, stored, rows_read>>,
         \A w \in Writer : writer'[w] = writer[w] \/ (writer[w] = "blocked" /\ writer'[w] = "event"),
         \/ exit_event /\ work_queue' = <<>>
         \/ work_queue' = Append(work_queue, Stop)
  PROVE  Rows' /\ Counts' /\ Repairs'
<1>1. Repairs'
  BY DEF Repairs, Failing
<1>2. \A t, r : Holding(t, r)' = Holding(t, r) /\ \A w \in Writer : AtHand(w, t, r)' = AtHand(w, t, r)
  BY DEF Holding, AtHand, Failing
<1>3. Counts'
  BY <1>2, SettledSame
<1>4. ASSUME NEW t \in Table, NEW r \in Row(t)
      PROVE  /\ \A i \in Places' : Carries(work_queue'[i], t, r) =>
                  i \in Places /\ Carries(work_queue[i], t, r)
             /\ ~exit_event => \A i \in Places : Carries(work_queue[i], t, r) =>
                  i \in Places' /\ Carries(work_queue'[i], t, r)
  <2>1. ~Carries(Stop, t, r)
    BY StopRows, RowType, <1>4
  <2>2. CASE work_queue' = <<>> /\ exit_event
    BY <2>2 DEF Places
  <2>3. CASE work_queue' = Append(work_queue, Stop)
    <3>1. /\ Len(work_queue') = Len(work_queue) + 1 /\ Len(work_queue) \in Nat
          /\ \A i \in 1 .. Len(work_queue) : work_queue'[i] = work_queue[i]
          /\ work_queue'[Len(work_queue) + 1] = Stop
      BY <2>3, AppendProperties, LenProperties DEF Typed, SharedTyped
    <3> QED BY <2>1, <3>1 DEF Places
  <2> QED BY <2>2, <2>3
<1>5. Rows'
  <2> SUFFICES ASSUME NEW t \in Table, NEW r \in Row(t) PROVE RowInv(t, r)'
    BY DEF Rows, Row
  <2>1. RowInv(t, r)
    BY DEF Rows
  <2>2. \A w \in Writer : writer'[w] = "batch" => writer[w] = "batch"
    OBVIOUS
  <2> QED BY <1>2, <1>4, <2>1, <2>2 DEF RowInv
<1> QED BY <1>1, <1>3, <1>5

LEMMA NextBatchType ==
  ASSUME Typed, ReaderPhases, NEW t \in Table, reader[t] = "put"
  PROVE  /\ NextBatch(t) \in Batch /\ NextBatch(t).table = t
         /\ NextBatch(t).first = rows_read[t] + 1
         /\ NextBatch(t).last \in Nat /\ rows_read[t] <= NextBatch(t).last
         /\ NextBatch(t).last <= RowCount[t]
<1>1. rows_read[t] < RowCount[t] /\ rows_read[t] \in Nat /\ RowCount[t] \in Nat
  BY RowType DEF ReaderPhases
<1> DEFINE last == Least(rows_read[t] + BatchSize, RowCount[t])
<1>2. /\ last \in Nat /\ rows_read[t] + 1 <= last /\ last <= RowCount[t]
      /\ rows_read[t] + 1 \in Nat \ {0} /\ rows_read[t] <= last
  BY <1>1, Sizes DEF Least
<1> HIDE DEF last
<1>3. NextBatch(t) = [table |-> t, first |-> rows_read[t] + 1, last |-> last]
  BY DEF NextBatch, last
<1> QED BY <1>2, <1>3 DEF Batch

LEMMA RowsPut ==
  ASSUME Typed, Rows, Counts, Repairs, ReaderPhases, NEW u \in Table, PutBatch(u)
  PROVE  Rows' /\ Counts' /\ Repairs'
<1> DEFINE b == NextBatch(u)
<1>1. /\ UNCHANGED writerVars /\ exit_event' = exit_event /\ reader[u] = "put"
      /\ work_queue' = Append(work_queue, b)
      /\ rows_read' = [rows_read EXCEPT ![u] = b.last]
  BY DEF PutBatch
<1>2. Repairs'
  BY <1>1 DEF Repairs, writerVars
<1>3. \A t, r : Holding(t, r)' = Holding(t, r) /\ \A w : AtHand(w, t, r)' = AtHand(w, t, r)
  BY <1>1 DEF Holding, AtHand, writerVars
<1>4. Counts'
  BY <1>1, <1>3, SettledSame DEF writerVars
<1>5. /\ b \in Batch /\ b.table = u /\ b.first = rows_read[u] + 1
      /\ b.last \in Nat /\ rows_read[u] <= b.last
  BY <1>1, NextBatchType
<1> HIDE DEF b
<1>6. /\ Len(work_queue') = Len(work_queue) + 1 /\ Len(work_queue) \in Nat
      /\ \A i \in 1 .. Len(work_queue) : work_queue'[i] = work_queue[i]
      /\ work_queue'[Len(work_queue) + 1] = b
  BY <1>1, <1>5, AppendProperties, LenProperties DEF Typed, SharedTyped
<1>7. Rows'
  <2> SUFFICES ASSUME NEW t \in Table, NEW r \in Row(t) PROVE RowInv(t, r)'
    BY DEF Rows, Row
  <2>1. RowInv(t, r) /\ r \in Nat /\ rows_read[t] \in Nat
    BY RowType DEF Rows
  <2>2. CASE Carries(b, t, r)
    <3>1. t = u /\ r > rows_read[t] /\ r <= b.last /\ rows_read'[t] = b.last
      BY <1>1, <1>5, <2>1, <2>2 DEF Carries, RowsOf, Typed, ReaderTyped
    <3>2. /\ \A i \in Places : ~Carries(work_queue[i], t, r)
          /\ \A w \in Writer : ~AtHand(w, t, r)
          /\ stored[t][r] = 0
      BY <2>1, <3>1 DEF RowInv
    <3>3. /\ \A i \in Places' : Carries(work_queue'[i], t, r) <=> i = Len(work_queue) + 1
          /\ Len(work_queue) + 1 \in Places'
      BY <1>6, <2>2, <3>2 DEF Places
    <3>4. /\ r <= rows_read'[t] /\ ~(r > rows_read'[t]) /\ stored'[t][r] = 0
          /\ stored'[t][r] <= 1
      BY <1>1, <1>5, <2>1, <3>1, <3>2 DEF writerVars
    <3>5. \A w \in Writer : ~AtHand(w, t, r)'
      BY <1>3, <3>2
    <3> QED BY <3>3, <3>4, <3>5, Zenon DEF RowInv
  <2>3. CASE ~Carries(b, t, r)
    <3>1. rows_read[t] <= rows_read'[t] /\ rows_read'[t] \in Nat
      BY <1>1, <1>5, <2>1 DEF Typed, ReaderTyped
    <3>2. r <= rows_read'[t] => r <= rows_read[t]
      BY <1>1, <1>5, <2>1, <2>3 DEF Typed, ReaderTyped, Carries, RowsOf
    <3>3. /\ \A i \in Places' : Carries(work_queue'[i], t, r) =>
               i \in Places /\ Carries(work_queue[i], t, r)
          /\ \A i \in Places : Carries(work_queue[i], t, r) =>
               i \in Places' /\ Carries(work_queue'[i], t, r)
      BY <1>6, <2>3 DEF Places
    <3>4. /\ r <= rows_read[t] => r <= rows_read'[t]
          /\ r > rows_read'[t] => r > rows_read[t]
          /\ exit_event' = exit_event /\ stored' = stored /\ writer' = writer
      BY <1>1, <2>1, <3>1 DEF writerVars
    <3>5. /\ \A w \in Writer : AtHand(w, t, r)' <=> AtHand(w, t, r)
          /\ Holding(t, r)' = Holding(t, r)
      BY <1>3
    <3> QED BY <2>1, <3>2, <3>3, <3>4, <3>5 DEF RowInv
  <2> QED BY <2>2, <2>3
<1> QED BY <1>2, <1>4, <1>7

LEMMA RowsTaken ==
  ASSUME Typed, Rows, Counts, Repairs, NEW w \in Writer, TakeBatch(w)
  PROVE  Rows' /\ Counts' /\ Repairs'
<1> DEFINE b == Head(work_queue)
<1>1. /\ UNCHANGED <<exit_event, rows_read, next_row, rows_written, stored>>
      /\ writer[w] = "get" /\ work_queue # <<>> /\ work_queue' = Tail(work_queue)
      /\ writer' = [writer EXCEPT ![w] = "batch"] /\ batch' = [batch EXCEPT ![w] = b]
  BY DEF TakeBatch, ToWrite, readerVars
<1>2. /\ writer'[w] = "batch" /\ batch'[w] = b
      /\ \A v \in Writer \ {w} : writer'[v] = writer[v] /\ batch'[v] = batch[v]
  BY <1>1 DEF Typed, WriterTyped
<1>3. /\ 1 \in Places /\ work_queue[1] = b
      /\ \A i \in Places' : i + 1 \in Places /\ work_queue'[i] = work_queue[i + 1]
      /\ \A i \in Places : i # 1 => i - 1 \in Places' /\ work_queue'[i - 1] = work_queue[i]
  <2>1. /\ work_queue \in Seq(Batch \cup {Stop}) /\ Len(work_queue) \in Nat \ {0}
    BY <1>1, EmptySeq DEF Typed, SharedTyped
  <2>2. /\ Len(work_queue') = Len(work_queue) - 1
        /\ \A i \in 1 .. Len(work_queue') : work_queue'[i] = work_queue[i + 1]
    BY <1>1, <2>1, HeadTailProperties
  <2> QED BY <2>1, <2>2 DEF Places
<1> HIDE DEF b
<1>4. Repairs'
  BY <1>1, <1>2 DEF Repairs, Failing
<1>5. ASSUME NEW t, NEW r
      PROVE  /\ ~AtHand(w, t, r) /\ w \notin Holding(t, r)
             /\ AtHand(w, t, r)' <=> Carries(b, t, r)
             /\ w \in Holding(t, r)' <=> Carries(b, t, r)
             /\ \A v \in Writer \ {w} : /\ AtHand(v, t, r)' <=> AtHand(v, t, r)
                                        /\ v \in Holding(t, r)' <=> v \in Holding(t, r)
  BY <1>1, <1>2 DEF AtHand, Holding, Carries, Failing
<1>6. Rows'
  <2> SUFFICES ASSUME NEW t \in Table, NEW r \in Row(t) PROVE RowInv(t, r)'
    BY DEF Rows, Row
  <2>1. RowInv(t, r)
    BY DEF Rows
  <2>2. CASE Carries(b, t, r)
    <3>1. /\ r <= rows_read[t] /\ stored[t][r] = 0 /\ \A v \in Writer : ~AtHand(v, t, r)
          /\ \A i \in Places : Carries(work_queue[i], t, r) => i = 1
      BY <1>3, <2>1, <2>2 DEF RowInv
    <3>2. \A i \in Places' : ~Carries(work_queue'[i], t, r)
      BY <1>3, <3>1 DEF Places
    <3>3. \A v \in Writer : AtHand(v, t, r)' => v = w
      BY <1>5, <3>1
    <3>4. Holding(t, r)' # {}
      BY <1>5, <2>2
    <3> QED BY <1>1, <2>1, <3>1, <3>2, <3>3, <3>4 DEF RowInv
  <2>3. CASE ~Carries(b, t, r)
    <3>1. \A v \in Writer : AtHand(v, t, r)' => AtHand(v, t, r) /\ writer'[v] = writer[v]
      BY <1>2, <1>5, <2>3
    <3>2. Holding(t, r)' = Holding(t, r)
      BY <1>5, <2>3 DEF Holding
    <3>3. /\ \A i \in Places' : Carries(work_queue'[i], t, r) =>
               i + 1 \in Places /\ Carries(work_queue[i + 1], t, r)
          /\ \A i \in Places : Carries(work_queue[i], t, r) =>
               i - 1 \in Places' /\ Carries(work_queue'[i - 1], t, r)
      BY <1>3, <2>3
    <3>4. \A i, j \in Places' : i \in Int /\ (i + 1 = j + 1 => i = j)
      BY DEF Places
    <3>5. /\ \A i, j \in Places' : Carries(work_queue'[i], t, r) /\ Carries(work_queue'[j], t, r) => i = j
          /\ \A i \in Places' : Carries(work_queue'[i], t, r) =>
               \E j \in Places : Carries(work_queue[j], t, r)
          /\ (\E i \in Places : Carries(work_queue[i], t, r)) =>
               \E i \in Places' : Carries(work_queue'[i], t, r)
      BY <2>1, <3>3, <3>4 DEF RowInv
    <3> QED BY <1>1, <2>1, <3>1, <3>2, <3>5 DEF RowInv
  <2> QED BY <2>2, <2>3
<1>7. Counts'
  <2>1. ASSUME NEW t \in Table, NEW r \in Row(t), stored[t][r] > 0
        PROVE  Holding(t, r)' = Holding(t, r)
    <3>1. ~Carries(b, t, r)
      BY <1>3, <2>1 DEF Rows, RowInv
    <3> QED BY <1>5, <3>1 DEF Holding
  <2> QED BY <1>1, <2>1, SettledSame
<1> QED BY <1>4, <1>6, <1>7

-----------------------------------------------------------------------------
(* A writer at work: the rows its hands still hold, and what storing some  *)
(* rows of a table makes of the tables.                                    *)
Held(w) ==
  {r \in RowsOf(batch[w]) : \/ writer[w] = "batch"
                            \/ writer[w] \in {"repair"} \cup Failing /\ r >= next_row[w]}
StoredAs(u, rows) ==
  \A t \in Table : \A r \in Row(t) :
    stored'[t][r] = IF t = u /\ r \in rows THEN IF t \in keyed THEN 1 ELSE stored[t][r] + 1
                    ELSE stored[t][r]

LEMMA HeldIs ==
  \A w \in Writer : \A t, r : w \in Holding(t, r) <=> batch[w].table = t /\ r \in Held(w)
BY DEF Holding, Held

LEMMA StoredType ==
  ASSUME Typed, NEW u \in Table, NEW rows, Stored(u, rows)
  PROVE  /\ StoredAs(u, rows)
         /\ stored' = [t \in Table |-> stored'[t]]
         /\ \A t \in Table : stored'[t] \in [Row(t) -> Nat]
<1> DEFINE f == [r \in Row(u) |-> IF r \notin rows THEN stored[u][r]
                                   ELSE IF u \in keyed THEN 1 ELSE stored[u][r] + 1]
<1>1. stored = [t \in Table |-> stored[t]] /\ \A t \in Table : stored[t] \in [Row(t) -> Nat]
  BY DEF Typed, WriterTyped
<1>2. stored' = [stored EXCEPT ![u] = f]
  BY DEF Stored
<1>3. f \in [Row(u) -> Nat]
  BY <1>1
<1>4. \A r \in Row(u) : f[r] = IF r \in rows THEN IF u \in keyed THEN 1 ELSE stored[u][r] + 1
                               ELSE stored[u][r]
  OBVIOUS
<1> HIDE DEF f
<1>5. stored'[u] = f /\ \A t \in Table \ {u} : stored'[t] = stored[t]
  BY <1>1, <1>2
<1>6. stored' = [t \in Table |-> stored'[t]]
  BY <1>1, <1>2
<1> QED BY <1>1, <1>3, <1>4, <1>5, <1>6 DEF StoredAs

(* It stores the rows in X, and counts those in Y and lets go of them.  Of *)
(* all others it lets go only when everything is to end.                   *)
LEMMA RowsStored ==
  ASSUME Typed, Rows, Counts, NEW w \in Writer, NEW X, NEW Y,
         writer[w] \in {"batch", "repair"}, batch[w] \in Batch,
         writer[w] = "batch" \/ batch[w].table \in keyed \/ X = {},
         UNCHANGED <<work_queue, rows_read>>,
         exit_event' \in BOOLEAN, exit_event => exit_event',
         writer'[w] # "batch", writer'[w] \in {"get", "dead"} \/ batch'[w] = batch[w],
         \A v \in Writer \ {w} : /\ writer'[v] = writer[v] /\ batch'[v] = batch[v]
                                  /\ next_row'[v] = next_row[v],
         X \subseteq Held(w), Y \subseteq X, Held(w)' \subseteq Held(w) \ Y,
         ~exit_event' => Held(w)' = Held(w) \ Y,
         StoredAs(batch[w].table, X),
         \A t \in Table : rows_written'[t] = rows_written[t] + (IF t = batch[w].table THEN Cardinality(Y) ELSE 0)
  PROVE  Rows' /\ Counts'
<1> DEFINE u == batch[w].table
<1>1. u \in Table /\ RowsOf(batch[w]) \subseteq Row(u) /\ Held(w) \subseteq RowsOf(batch[w])
  BY BatchRows DEF Held
<1>2. ASSUME NEW t, NEW r
      PROVE  /\ AtHand(w, t, r) <=> Carries(batch[w], t, r)
             /\ \A v \in Writer : AtHand(v, t, r)' => AtHand(v, t, r)
             /\ \A v \in Writer \ {w} : /\ AtHand(v, t, r)' <=> AtHand(v, t, r)
                                        /\ v \in Holding(t, r)' <=> v \in Holding(t, r)
             /\ w \in Holding(t, r) <=> u = t /\ r \in Held(w)
             /\ w \in Holding(t, r)' => u = t /\ r \in Held(w)'
             /\ u = t /\ r \in Held(w)' => w \in Holding(t, r)'
  BY DEF AtHand, Holding, Held, Failing
<1>3. ASSUME NEW t \in Table, NEW r \in Row(t)
      PROVE  /\ RowInv(t, r) /\ r \in Nat \ {0} /\ stored[t][r] \in Nat
             /\ t = u /\ r \in X => stored'[t][r] = 1 /\ AtHand(w, t, r)
             /\ ~(t = u /\ r \in X) => stored'[t][r] = stored[t][r]
  <2>1. RowInv(t, r) /\ r \in Nat \ {0} /\ stored[t][r] \in Nat
    BY RowType DEF Rows
  <2>2. t = u /\ r \in X => Carries(batch[w], t, r)
    BY <1>1 DEF Carries
  <2>3. t = u /\ r \in X /\ writer[w] = "batch" => stored[t][r] = 0
    BY <1>2, <2>1, <2>2 DEF RowInv
  <2> QED BY <1>2, <2>1, <2>2, <2>3 DEF StoredAs
<1> HIDE DEF u
<1>4. Rows'
  <2> SUFFICES ASSUME NEW t \in Table, NEW r \in Row(t) PROVE RowInv(t, r)'
    BY DEF Rows, Row
  <2>1. RowInv(t, r)
    BY DEF Rows
  <2>2. Places' = Places
    BY DEF Places
  <2>3. CASE AtHand(w, t, r)
    <3>1. /\ \A i \in Places : ~Carries(work_queue[i], t, r)
          /\ r <= rows_read[t] /\ \A v \in Writer : AtHand(v, t, r) => v = w
          /\ stored'[t][r] <= 1
      BY <1>3, <2>1, <2>3 DEF RowInv
    <3>2. ~exit_event' => stored'[t][r] = 1 \/ Holding(t, r)' # {}
      <4> SUFFICES ASSUME ~exit_event', Holding(t, r)' = {} PROVE stored'[t][r] = 1
        OBVIOUS
      <4>1. stored[t][r] = 1 \/ Holding(t, r) # {}
        BY <2>1, <3>1 DEF RowInv
      <4>2. \A v \in Writer : v \in Holding(t, r) => v = w
        BY <1>2
      <4>3. w \in Holding(t, r) => t = u /\ r \in Held(w) /\ r \notin Held(w)'
        BY <1>2
      <4>4. Holding(t, r) # {} => w \in Holding(t, r)
        BY <4>2 DEF Holding
      <4> QED BY <1>3, <4>1, <4>3, <4>4
    <3>3. ~(r > rows_read[t])
      BY <1>3, <3>1, RowType
    <3> QED BY <1>2, <2>2, <3>1, <3>2, <3>3 DEF RowInv
  <2>4. CASE ~AtHand(w, t, r)
    <3>1. stored'[t][r] = stored[t][r] /\ w \notin Holding(t, r) /\ w \notin Holding(t, r)'
      <4>1. ~(t = u /\ r \in Held(w))
        BY <1>1, <1>2, <2>4 DEF Carries, u
      <4> QED BY <1>2, <1>3, <4>1
    <3>2. Holding(t, r)' = Holding(t, r)
      BY <1>2, <3>1 DEF Holding
    <3>3. \A v \in Writer : AtHand(v, t, r)' => AtHand(v, t, r) /\ writer'[v] = writer[v]
      BY <1>2, <2>4
    <3> QED BY <2>1, <2>2, <3>1, <3>2, <3>3 DEF RowInv
  <2> QED BY <2>3, <2>4
<1>5. ASSUME NEW t \in Table
      PROVE  /\ rows_written'[t] <= Cardinality(Settled(t)')
             /\ ~exit_event' => rows_written'[t] = Cardinality(Settled(t)')
  <2> DEFINE Z == IF t = u THEN Y ELSE {}
  <2>1. Z \subseteq Row(t) /\ Settled(t) \subseteq Row(t) /\ Settled(t)' \subseteq Row(t)
    BY <1>1 DEF Settled, Row
  <2>2. Z \cap Settled(t) = {}
    BY <1>1, <1>2 DEF Settled
  <2>3. Settled(t) \subseteq Settled(t)'
    <3> SUFFICES ASSUME NEW r \in Row(t), stored[t][r] > 0, Holding(t, r) = {}
                 PROVE  stored'[t][r] > 0 /\ Holding(t, r)' = {}
      BY DEF Settled, Row
    <3>1. Holding(t, r)' = {}
      BY <1>2 DEF Holding
    <3> QED BY <1>3, <3>1
  <2>4. Z \subseteq Settled(t)'
    <3> SUFFICES ASSUME t = u, NEW r \in Y PROVE r \in Settled(t)'
      OBVIOUS
    <3>1. r \in Row(t) /\ r \in X /\ r \notin Held(w)'
      BY <1>1
    <3>2. stored'[t][r] = 1 /\ AtHand(w, t, r)
      BY <1>3, <3>1
    <3>3. \A v \in Writer : AtHand(v, t, r) => v = w
      BY <1>3, <3>1, <3>2 DEF RowInv
    <3>4. Holding(t, r)' \subseteq {w}
      BY <1>2, <3>3 DEF Holding, AtHand, Carries, Failing
    <3>5. Holding(t, r)' = {}
      BY <1>2, <3>1, <3>4
    <3> QED BY <3>1, <3>2, <3>5 DEF Settled, Row
  <2>5. ~exit_event' => Settled(t)' \subseteq Settled(t) \cup Z
    <3> SUFFICES ASSUME ~exit_event', NEW r \in Row(t), stored'[t][r] > 0, Holding(t, r)' = {},
                        ~(t = u /\ r \in Y)
                 PROVE  stored[t][r] > 0 /\ Holding(t, r) = {}
      BY DEF Settled, Row
    <3>1. Holding(t, r) = {}
      BY <1>2 DEF Holding
    <3>2. ~(t = u /\ r \in X)
      BY <1>2, <3>1
    <3> QED BY <1>3, <3>1, <3>2
  <2> HIDE DEF Z
  <2>6. /\ Cardinality(Settled(t) \cup Z) = Cardinality(Settled(t)) + Cardinality(Z)
        /\ Cardinality(Settled(t) \cup Z) <= Cardinality(Settled(t)')
        /\ {Cardinality(Z), Cardinality(Settled(t)), Cardinality(Settled(t)')} \subseteq Nat
    <3>1. /\ IsFiniteSet(Z) /\ IsFiniteSet(Settled(t)) /\ IsFiniteSet(Settled(t)')
          /\ {Cardinality(Z), Cardinality(Settled(t)), Cardinality(Settled(t)')} \subseteq Nat
      BY <2>1, RowsFinite
    <3>2. Cardinality(Settled(t) \cap Z) = 0
      BY <2>2, FS_EmptySet
    <3>3. Settled(t) \cup Z \subseteq Settled(t)'
      BY <2>3, <2>4
    <3>4. Cardinality(Settled(t) \cup Z) <= Cardinality(Settled(t)')
      BY <3>1, <3>3, FS_Subset
    <3>5. Cardinality(Settled(t) \cup Z)
             = Cardinality(Settled(t)) + Cardinality(Z) - Cardinality(Settled(t) \cap Z)
      BY <3>1, FS_Union
    <3> QED BY <3>1, <3>2, <3>4, <3>5
  <2>7. rows_written'[t] = rows_written[t] + Cardinality(Z)
    BY FS_EmptySet DEF Z, u
  <2>8. ~exit_event' => Settled(t)' = Settled(t) \cup Z
    BY <2>3, <2>4, <2>5
  <2>9. /\ rows_written[t] \in Nat /\ rows_written[t] <= Cardinality(Settled(t))
        /\ ~exit_event => rows_written[t] = Cardinality(Settled(t))
    BY RowType DEF Counts
  <2>10. rows_written'[t] <= Cardinality(Settled(t)')
    BY <2>6, <2>7, <2>9
  <2>11. ~exit_event' => rows_written'[t] = Cardinality(Settled(t)')
    BY <2>6, <2>7, <2>8, <2>9
  <2> QED BY <2>10, <2>11
<1>6. Counts'
  BY <1>5 DEF Counts
<1> QED BY <1>4, <1>6

LEMMA RowsInserted ==
  ASSUME Typed, Rows, Counts, Repairs, NEW w \in Writer, Insert(w)
  PROVE  Rows' /\ Counts' /\ Repairs'
<1> DEFINE b == batch[w]
<1>1. /\ writer[w] = "batch" /\ b \in Batch
      /\ UNCHANGED <<exit_event, work_queue, rows_read>> /\ exit_event \in BOOLEAN
  BY DEF Insert, readerVars, Typed, WriterTyped, SharedTyped
<1>2. /\ b.table \in Table /\ RowsOf(b) \subseteq Row(b.table) /\ b.first \in RowsOf(b)
      /\ RowsOf(b) \subseteq Nat /\ b.first \in Nat /\ \A r \in RowsOf(b) : r >= b.first
  BY <1>1, BatchRows, RowType DEF RowsOf
<1>3. Held(w) = RowsOf(b)
  BY <1>1 DEF Held
<1>4. CASE /\ Stored(b.table, RowsOf(b)) /\ Written(b.table, Cardinality(RowsOf(b)))
           /\ NextBatchOr(w) /\ UNCHANGED next_row
  <2>1. /\ writer'[w] \in {"get", "dead"}
        /\ \A v \in Writer \ {w} : /\ writer'[v] = writer[v] /\ batch'[v] = batch[v]
                                    /\ next_row'[v] = next_row[v]
    BY <1>4 DEF NextBatchOr, ToWrite, Typed, WriterTyped
  <2>2. \A t \in Table : rows_written'[t] =
           rows_written[t] + (IF t = b.table THEN Cardinality(RowsOf(b)) ELSE 0)
    BY <1>2, <1>4 DEF Written, Typed, WriterTyped
  <2>3. Held(w)' = Held(w) \ RowsOf(b)
    BY <1>3, <2>1 DEF Held, Failing
  <2>4. StoredAs(b.table, RowsOf(b))
    BY <1>2, <1>4, StoredType
  <2>5. Rows' /\ Counts'
    BY <1>1, <1>3, <2>1, <2>2, <2>3, <2>4, RowsStored
  <2>6. Repairs'
    BY <2>1 DEF Repairs, Failing
  <2> QED BY <2>5, <2>6
<1>5. CASE /\ \E rows \in SUBSET RowsOf(b) : Stored(b.table, rows)
           /\ \E place \in {"error", "repair"} : ToWrite(w, place)
           /\ next_row' = [next_row EXCEPT ![w] = b.first] /\ UNCHANGED <<batch, rows_written>>
  <2>1. /\ writer'[w] \in {"error", "repair"} /\ batch'[w] = b /\ next_row'[w] = b.first
        /\ \A v \in Writer \ {w} : /\ writer'[v] = writer[v] /\ batch'[v] = batch[v]
                                    /\ next_row'[v] = next_row[v]
    BY <1>5 DEF ToWrite, Typed, WriterTyped
  <2>2. \A t \in Table : rows_written'[t] =
           rows_written[t] + (IF t = b.table THEN Cardinality({}) ELSE 0)
    BY <1>5, FS_EmptySet, RowType
  <2>3. Held(w)' = Held(w) \ {}
    BY <1>1, <1>2, <1>3, <2>1 DEF Held, Failing
  <2>4. PICK X \in SUBSET RowsOf(b) : StoredAs(b.table, X)
    BY <1>2, <1>5, StoredType
  <2>5. Rows' /\ Counts'
    BY <1>1, <1>3, <2>1, <2>2, <2>3, <2>4, RowsStored
  <2>6. Repairs'
    BY <1>1, <1>2, <2>1, BatchRows DEF Repairs, Failing
  <2> QED BY <2>5, <2>6
<1> QED BY <1>4, <1>5 DEF Insert

LEMMA RowsRepaired ==
  ASSUME Typed, Rows, Counts, Repairs, NEW w \in Writer, RepairRow(w)
  PROVE  Rows' /\ Counts' /\ Repairs'
<1> DEFINE b == batch[w]
           r == next_row[w]
<1>1. /\ writer[w] = "repair" /\ b \in Batch /\ r \in RowsOf(b) /\ b.table \in keyed
      /\ UNCHANGED <<work_queue, rows_read, exit_event>> /\ exit_event \in BOOLEAN
  BY DEF RepairRow, queues, readerVars, Repairs, Typed, WriterTyped, SharedTyped
<1>2. /\ b.table \in Table /\ b.last \in Nat /\ b.first \in Nat /\ r \in Nat
      /\ b.first <= r /\ r <= b.last
  BY <1>1, BatchRows DEF RowsOf
<1>3. /\ Stored(b.table, {r}) /\ Written(b.table, 1)
      /\ next_row' = [next_row EXCEPT ![w] = r + 1]
      /\ IF r = b.last THEN NextBatchOr(w) ELSE UNCHANGED <<writer, batch>>
  BY DEF RepairRow
<1>4. /\ next_row'[w] = r + 1
      /\ \A v \in Writer \ {w} : /\ writer'[v] = writer[v] /\ batch'[v] = batch[v]
                                  /\ next_row'[v] = next_row[v]
      /\ IF r = b.last THEN writer'[w] \in {"get", "dead"}
         ELSE writer'[w] = "repair" /\ batch'[w] = b
  BY <1>1, <1>3 DEF NextBatchOr, ToWrite, Typed, WriterTyped
<1>5. /\ Held(w) = {n \in RowsOf(b) : n >= r}
      /\ Held(w)' = IF r = b.last THEN {} ELSE {n \in RowsOf(b) : n >= r + 1}
  BY <1>1, <1>4 DEF Held, Failing
<1>6. {r} \subseteq Held(w) /\ Held(w)' = Held(w) \ {r}
  BY <1>1, <1>2, <1>5 DEF RowsOf
<1>7. StoredAs(b.table, {r})
  BY <1>2, <1>3, StoredType
<1>8. \A t \in Table : rows_written'[t] = rows_written[t] + (IF t = b.table THEN Cardinality({r}) ELSE 0)
  <2>1. Cardinality({r}) = 1
    BY FS_Singleton
  <2> QED BY <1>2, <1>3, <2>1, RowType DEF Written, Typed, WriterTyped
<1>9. writer'[w] # "batch" /\ (writer'[w] \in {"get", "dead"} \/ batch'[w] = b)
  BY <1>4
<1>10. Repairs'
  BY <1>1, <1>2, <1>4 DEF Repairs, RowsOf, Failing
<1> HIDE DEF b, r
<1>11. Rows' /\ Counts'
  BY <1>1, <1>4, <1>6, <1>7, <1>8, <1>9, RowsStored DEF b
<1> QED BY <1>10, <1>11

(* The rows that were not repaired stay in the hands of the writer while   *)
(* it reports why.                                                         *)
LEMMA RowsGivenUp ==
  ASSUME Typed, Rows, Counts, Repairs, NEW w \in Writer, RepairFails(w)
  PROVE  Rows' /\ Counts' /\ Repairs'
<1> DEFINE b == batch[w]
           r == next_row[w]
<1>1. /\ writer[w] = "repair" /\ b \in Batch /\ r \in RowsOf(b) /\ exit_event \in BOOLEAN
      /\ UNCHANGED <<exit_event, work_queue, rows_read, batch, next_row, rows_written>>
  BY DEF RepairFails, readerVars, Repairs, Typed, WriterTyped, SharedTyped
<1>2. /\ writer'[w] = "error"
      /\ \A v \in Writer \ {w} : /\ writer'[v] = writer[v] /\ batch'[v] = batch[v]
                                  /\ next_row'[v] = next_row[v]
  BY <1>1 DEF RepairFails, ToWrite, Typed, WriterTyped
<1>3. b.table \in Table /\ r \in Held(w) /\ Held(w)' = Held(w) \ {}
  BY <1>1, <1>2, BatchRows DEF Held, RowsOf, Failing
<1>4. PICK X \in SUBSET {r} : StoredAs(b.table, X) /\ (b.table \in keyed \/ X = {})
  <2>1. stored' = stored \/ (Stored(b.table, {r}) /\ b.table \in keyed)
    BY DEF RepairFails
  <2>2. stored' = stored => StoredAs(b.table, {})
    BY DEF StoredAs
  <2>3. Stored(b.table, {r}) => StoredAs(b.table, {r})
    BY <1>3, StoredType
  <2> QED BY <2>1, <2>2, <2>3
<1>5. \A t \in Table : rows_written'[t] = rows_written[t] + (IF t = b.table THEN Cardinality({}) ELSE 0)
  BY <1>1, FS_EmptySet, RowType
<1>6. Repairs'
  BY <1>1, <1>2 DEF Repairs, Failing
<1> HIDE DEF b, r
<1>7. Rows' /\ Counts'
  BY <1>1, <1>2, <1>3, <1>4, <1>5, RowsStored DEF b
<1> QED BY <1>6, <1>7

-----------------------------------------------------------------------------
(* The steps of the main process.                                          *)
LEMMA Unfinished ==
  ASSUME Phases', main' # "done"
  PROVE  NothingLeft' /\ CompleteUnlessReported'
BY DEF Phases, NothingLeft, CompleteUnlessReported

LEMMA ReportedQuiet ==
  ASSUME Phases, errors \cup error_queue \subseteq errors' \cup error_queue',
         \A t \in Table : reader'[t] = "event" => reader[t] = "event",
         \A w \in Writer : writer'[w] = "event" => writer[w] = "event"
  PROVE  Reported'
BY DEF Phases, Reported

LEMMA LineupQuiet ==
  ASSUME Lineup, UNCHANGED work_queue,
         \A w \in Writer : batch'[w] = batch[w] \/ writer'[w] # "batch",
         exit_event' \in BOOLEAN, exit_event => exit_event',
         main' \in {"setup", "start", "watch", "wait"} => main \in {"setup", "start", "watch", "wait"},
         \A w \in Writer :
           \/ writer'[w] = writer[w]
           \/ writer'[w] \in {"none", "get", "repair"} \cup Failing
           \/ writer'[w] = "dead" /\ (exit_event' \/ HasStop(w))
  PROVE  Lineup'
<1>1. Places' = Places
  BY DEF Places
<1>2. \A w \in Writer : /\ HasStop(w)' => HasStop(w)
                        /\ writer'[w] = "dead" /\ ~exit_event' => HasStop(w) \/ (writer[w] = "dead" /\ ~exit_event)
  BY DEF HasStop, Failing
<1>3. main' \in {"setup", "start", "watch", "wait"} =>
        /\ \A i \in Places' : work_queue'[i] # Stop
        /\ \A w \in Writer : ~HasStop(w)' /\ (writer'[w] = "dead" => exit_event')
  BY <1>1, <1>2 DEF Lineup
<1>4. \A w \in Writer : HasStop(w)' \/ (writer'[w] = "dead" /\ ~exit_event') =>
        \A i \in Places' : work_queue'[i] = Stop
  BY <1>1, <1>2 DEF Lineup
<1> QED BY <1>1, <1>3, <1>4 DEF Lineup

LEMMA ReadersQuiet ==
  ASSUME ReaderPhases, UNCHANGED <<file_iter, readers, readerVars>>,
         exit_event' \in BOOLEAN, exit_event => exit_event'
  PROVE  ReaderPhases'
BY DEF ReaderPhases, readerVars

(* A step of the main process that touches no queue and no reader.         *)
LEMMA MainQuiet ==
  ASSUME IInv, UNCHANGED <<queues, readerVars, file_iter, readers, batch, next_row, rows_written, stored>>,
         errors' = errors,
         \A w \in Writer : writer'[w] = writer[w] \/ (writer[w] = "none" /\ writer'[w] = "get"),
         main' = "setup" => main = "setup",
         main' \in {"start", "watch", "wait"} => main \in {"setup", "start", "watch", "wait"}
  PROVE  ReaderPhases' /\ Reported' /\ Lineup' /\ Rows' /\ Counts' /\ Repairs'
<1>1. /\ exit_event' = exit_event /\ work_queue' = work_queue /\ exit_event \in BOOLEAN
      /\ error_queue' = error_queue
  BY DEF queues, IInv, Typed, SharedTyped
<1>2. ReaderPhases'
  BY <1>1, ReadersQuiet DEF IInv
<1>3. Lineup'
  BY <1>1, LineupQuiet DEF IInv
<1>4. Rows' /\ Counts' /\ Repairs'
  BY <1>1, RowsQuiet DEF IInv, readerVars
<1>5. Reported'
  BY <1>1, ReportedQuiet DEF IInv, readerVars
<1> QED BY <1>2, <1>3, <1>4, <1>5

LEMMA SetupStep == ASSUME IInv, Setup PROVE IInv'
<1>1. /\ main = "setup" /\ UNCHANGED <<queues, readerVars, batch, next_row, rows_written, stored>>
      /\ UNCHANGED <<force, keyed, file_iter, readers, stops_left, errors, interrupts, error_torn>>
      /\ \/ /\ main' = (IF exit_event THEN "wait" ELSE "start") /\ result' = result
            /\ writer' = [w \in Writer |-> "get"]
         \/ main' = "done" /\ result' = "RuntimeError" /\ writer' = writer
  BY DEF Setup, options
<1>2. /\ readers = {} /\ file_iter = Table /\ error_queue = {} /\ result = "none"
      /\ \A w \in Writer : writer[w] = "none"
  BY <1>1 DEF IInv, Phases
<1>3. Typed'
  <2>1. MainTyped'
    BY <1>1 DEF IInv, Typed, MainTyped
  <2>2. SharedTyped' /\ ReaderTyped'
    BY <1>1 DEF IInv, Typed, SharedTyped, ReaderTyped, queues, readerVars
  <2>3. WriterTyped'
    BY <1>1 DEF IInv, Typed, WriterTyped
  <2> QED BY <2>1, <2>2, <2>3 DEF Typed
<1>4. ReaderPhases' /\ Reported' /\ Lineup' /\ Rows' /\ Counts' /\ Repairs'
  BY <1>1, <1>2, MainQuiet
<1>5. Phases'
  <2>1. Cardinality(readers) < Cardinality(Writer)
    BY <1>2, Sizes, FS_EmptySet
  <2> QED BY <1>1, <1>2, <1>4, <2>1 DEF IInv, Phases, queues
<1>6. NothingLeft' /\ CompleteUnlessReported'
  <2>1. CASE main' = "done"
    <3>1. \A t \in Table : reader'[t] = "none"
      BY <1>1, <1>2 DEF IInv, ReaderPhases, readerVars
    <3>2. result' = "RuntimeError" /\ writer' = writer /\ error_queue' = {}
      BY <1>1, <1>2, <2>1 DEF queues
    <3> QED BY <1>2, <3>1, <3>2 DEF NothingLeft, CompleteUnlessReported
  <2>2. CASE main' # "done"
    BY <1>5, <2>2, Unfinished
  <2> QED BY <2>1, <2>2
<1> QED BY <1>3, <1>4, <1>5, <1>6 DEF IInv

(* The main process goes on to its next phase.                             *)
LEMMA PhaseStep ==
  ASSUME IInv, NoMoreReaders \/ LeaveWatch \/ ReadersDone \/ StopsDone
  PROVE  IInv'
<1>1. /\ main # "setup" /\ main # "done"
      /\ UNCHANGED <<queues, readerVars, writerVars, file_iter, readers, errors, interrupts, error_torn>>
      /\ UNCHANGED <<result, force, keyed>>
      /\ stops_left' \in {stops_left, Cardinality(Writer)}
      /\ (main' \in {"start", "wait"} /\ main \in {"start", "watch"}) \/ main' \in {"stops", "writers"}
  BY DEF NoMoreReaders, LeaveWatch, ReadersDone, StopsDone, options
<1>2. Typed'
  <2>1. MainTyped'
    BY <1>1, Sizes DEF IInv, Typed, MainTyped
  <2>2. SharedTyped' /\ ReaderTyped' /\ WriterTyped'
    BY <1>1 DEF IInv, Typed, SharedTyped, ReaderTyped, WriterTyped, queues, readerVars, writerVars
  <2> QED BY <2>1, <2>2 DEF Typed
<1>3. ReaderPhases' /\ Reported' /\ Lineup' /\ Rows' /\ Counts' /\ Repairs'
  BY <1>1, MainQuiet DEF writerVars
<1>4. Phases'
  BY <1>1, <1>3 DEF IInv, Phases, queues, NoMoreReaders, LeaveWatch, ReadersDone, StopsDone
<1>5. NothingLeft' /\ CompleteUnlessReported'
  BY <1>1, <1>4, Unfinished
<1> QED BY <1>2, <1>3, <1>4, <1>5 DEF IInv

LEMMA ReadersFinite ==
  ASSUME Typed, NEW S, S \subseteq readers \/ (\E t : S \subseteq readers \cup {t})
  PROVE  IsFiniteSet(S)
<1>1. IsFiniteSet(readers)
  BY ImportAssumption, FS_Subset DEF Typed, MainTyped
<1>2. \A t : IsFiniteSet(readers \cup {t})
  BY <1>1, FS_AddElement
<1> QED BY <1>1, <1>2, FS_Subset

LEMMA StartReaderStep == ASSUME IInv, StartReader PROVE IInv'
<1>1. PICK t \in file_iter : /\ file_iter' = file_iter \ {t} /\ readers' = readers \cup {t}
                             /\ reader' = [reader EXCEPT ![t] = "read"]
  BY DEF StartReader
<1>2. /\ main = "start" /\ main' = (IF Cardinality(readers') < Cardinality(Writer) THEN "start" ELSE "watch")
      /\ UNCHANGED <<queues, rows_read, writerVars, force, keyed, stops_left, errors, result>>
      /\ UNCHANGED <<interrupts, error_torn>>
      /\ exit_event' = exit_event /\ exit_event \in BOOLEAN
  BY DEF StartReader, options, queues, IInv, Typed, SharedTyped
<1>3. /\ t \in Table /\ t \notin readers
      /\ reader'[t] = "read" /\ \A u \in Table \ {t} : reader'[u] = reader[u]
  BY <1>1 DEF IInv, Typed, MainTyped, ReaderTyped
<1>4. Cardinality(readers') <= Cardinality(Writer)
  <2>1. IsFiniteSet(readers)
    BY ReadersFinite DEF IInv
  <2>2. /\ Cardinality(readers) \in Nat /\ Cardinality(readers) < Cardinality(Writer)
        /\ Cardinality(readers') = Cardinality(readers) + 1
    BY <1>1, <1>2, <1>3, <2>1, FS_AddElement, FS_CardinalityType DEF IInv, Phases
  <2> QED BY <2>2, Sizes
<1>5. Typed'
  <2>1. MainTyped'
    <3>1. file_iter' \subseteq Table /\ readers' \subseteq Table /\ file_iter' \cap readers' = {}
      BY <1>1, <1>3 DEF IInv, Typed, MainTyped
    <3> QED BY <1>2, <1>4, <3>1 DEF IInv, Typed, MainTyped
  <2>2. ReaderTyped'
    BY <1>1, <1>2, <1>3 DEF IInv, Typed, ReaderTyped
  <2>3. SharedTyped' /\ WriterTyped'
    BY <1>2 DEF IInv, Typed, SharedTyped, WriterTyped, queues, writerVars
  <2> QED BY <2>1, <2>2, <2>3 DEF Typed
<1>6. Phases'
  <2>1. Reported'
    BY <1>2, <1>3, ReportedQuiet DEF IInv, queues, writerVars
  <2> QED BY <1>2, <2>1 DEF IInv, Phases, queues
<1>7. ReaderPhases'
  BY <1>1, <1>2, <1>3 DEF IInv, ReaderPhases, Failing
<1>8. Lineup'
  BY <1>2, LineupQuiet DEF IInv, queues, writerVars
<1>9. Rows' /\ Counts' /\ Repairs'
  BY <1>2, RowsQuiet DEF IInv, queues, writerVars
<1>10. NothingLeft' /\ CompleteUnlessReported'
  BY <1>2, <1>6, Unfinished
<1> QED BY <1>5, <1>6, <1>7, <1>8, <1>9, <1>10 DEF IInv

LEMMA ReapStep == ASSUME IInv, Reap PROVE IInv'
<1>1. PICK t \in readers : reader[t] = "dead" /\ readers' = readers \ {t}
  BY DEF Reap
<1>2. /\ main \in {"watch", "wait"} /\ main' = main
      /\ UNCHANGED <<queues, readerVars, writerVars, file_iter, force, keyed, stops_left, errors, result>>
      /\ UNCHANGED <<interrupts, error_torn>>
      /\ exit_event' = exit_event /\ exit_event \in BOOLEAN
  BY DEF Reap, options, queues, IInv, Typed, SharedTyped
<1>3. Cardinality(readers') <= Cardinality(Writer)
  <2>1. /\ Cardinality(readers') <= Cardinality(readers)
        /\ Cardinality(readers') \in Nat /\ Cardinality(readers) \in Nat
    BY <1>1, ReadersFinite, FS_Subset, FS_CardinalityType DEF IInv
  <2> QED BY <2>1, Sizes DEF IInv, Typed, MainTyped
<1>4. Typed'
  <2>1. MainTyped'
    <3>1. readers' \subseteq Table /\ file_iter' \cap readers' = {}
      BY <1>1, <1>2 DEF IInv, Typed, MainTyped
    <3> QED BY <1>2, <1>3, <3>1 DEF IInv, Typed, MainTyped
  <2>2. SharedTyped' /\ ReaderTyped' /\ WriterTyped'
    BY <1>2 DEF IInv, Typed, SharedTyped, ReaderTyped, WriterTyped, queues, readerVars, writerVars
  <2> QED BY <2>1, <2>2 DEF Typed
<1>5. Phases'
  <2>1. Reported'
    BY <1>2, ReportedQuiet DEF IInv, queues, readerVars, writerVars
  <2> QED BY <1>2, <2>1 DEF IInv, Phases, queues
<1>6. ReaderPhases'
  BY <1>1, <1>2 DEF IInv, ReaderPhases, readerVars, Failing
<1>7. Lineup'
  BY <1>2, LineupQuiet DEF IInv, queues, writerVars
<1>8. Rows' /\ Counts' /\ Repairs'
  BY <1>2, RowsQuiet DEF IInv, queues, readerVars, writerVars
<1>9. NothingLeft' /\ CompleteUnlessReported'
  BY <1>2, <1>5, Unfinished
<1> QED BY <1>4, <1>5, <1>6, <1>7, <1>8, <1>9 DEF IInv

(* drain_queues: the errors that were blocked are among those it takes.    *)
LEMMA DrainStep == ASSUME IInv, Drain PROVE IInv'
<1>1. /\ main \in {"watch", "wait"} /\ main' = main /\ timing_queue' = 0
      /\ errors' = errors \cup error_queue \cup Blocked /\ error_queue' = {}
      /\ work_queue' = work_queue \/ (exit_event /\ work_queue' = <<>>)
      /\ UNCHANGED <<file_iter, readers, force, keyed, stops_left, result, interrupts, error_torn>>
      /\ UNCHANGED <<exit_event, warning_queue, faults>> /\ exit_event \in BOOLEAN
      /\ UNCHANGED <<rows_read, batch, next_row, rows_written, stored>>
  BY DEF Drain, DrainErrors, options, IInv, Typed, SharedTyped
<1>2. /\ reader' = [t \in Table |-> Unblocked(reader[t])]
      /\ writer' = [w \in Writer |-> Unblocked(writer[w])]
  BY DEF Drain, DrainErrors
<1>3. /\ \A t \in Table : reader'[t] = reader[t] \/ (reader[t] = "blocked" /\ reader'[t] = "event")
      /\ \A w \in Writer : writer'[w] = writer[w] \/ (writer[w] = "blocked" /\ writer'[w] = "event")
  BY <1>2 DEF Unblocked
<1>4. /\ Blocked \subseteq Table
      /\ \A t \in Table : reader[t] = "blocked" => t \in Blocked
      /\ \A w \in Writer : writer[w] = "blocked" => batch[w].table \in Blocked
  <2>1. \A w \in Writer : writer[w] = "blocked" => batch[w] \in Batch
    BY DEF IInv, Repairs, Failing, Typed, WriterTyped
  <2>2. \A w \in Writer : writer[w] = "blocked" => batch[w].table \in Table
    BY <2>1, BatchRows
  <2> QED BY <2>2 DEF Blocked
<1>5. Typed'
  <2>1. MainTyped'
    <3>1. errors' \subseteq Table
      BY <1>1, <1>4 DEF IInv, Typed, MainTyped, SharedTyped
    <3> QED BY <1>1, <3>1 DEF IInv, Typed, MainTyped
  <2>2. SharedTyped'
    <3>1. work_queue' \in Seq(Batch \cup {Stop}) /\ Len(work_queue') <= QueueSize
      <4>1. <<>> \in Seq(Batch \cup {Stop}) /\ Len(<<>>) = 0 /\ 0 <= QueueSize
        BY EmptySeq, Sizes
      <4>2. work_queue \in Seq(Batch \cup {Stop}) /\ Len(work_queue) <= QueueSize
        BY DEF IInv, Typed, SharedTyped
      <4> QED BY <1>1, <4>1, <4>2
    <3>2. timing_queue' \in 0 .. TimingSize
      BY <1>1, Sizes
    <3> QED BY <1>1, <3>1, <3>2 DEF IInv, Typed, SharedTyped
  <2>3. ReaderTyped'
    <3>1. reader' \in [Table -> {"none", "read", "put", "finish", "dead"} \cup Failing]
      BY <1>2, <1>3 DEF IInv, Typed, ReaderTyped, Failing
    <3> QED BY <1>1, <3>1 DEF IInv, Typed, ReaderTyped
  <2>4. WriterTyped'
    <3>1. writer' \in [Writer -> {"none", "get", "batch", "repair", "dead"} \cup Failing]
      BY <1>2, <1>3 DEF IInv, Typed, WriterTyped, Failing
    <3> QED BY <1>1, <3>1 DEF IInv, Typed, WriterTyped
  <2> QED BY <2>1, <2>2, <2>3, <2>4 DEF Typed
<1>6. Phases'
  <2>1. Reported'
    BY <1>1, <1>3, <1>4 DEF IInv, Phases, Reported
  <2> QED BY <1>1, <2>1 DEF IInv, Phases
<1>7. ReaderPhases'
  BY <1>1, <1>3 DEF IInv, ReaderPhases, Failing
<1>8. NothingLeft' /\ CompleteUnlessReported'
  BY <1>1, <1>6, Unfinished
<1>9. Lineup' /\ Rows' /\ Counts' /\ Repairs'
  <2>1. ASSUME work_queue' = work_queue PROVE Lineup' /\ Rows' /\ Counts' /\ Repairs'
    <3>1. \A w \in Writer : writer'[w] = writer[w] \/ (writer[w] \in Failing /\ writer'[w] \in Failing)
      BY <1>3 DEF Failing
    <3>2. Lineup'
      BY <1>1, <2>1, <3>1, LineupQuiet DEF IInv
    <3>3. Rows' /\ Counts' /\ Repairs'
      BY <1>1, <2>1, <3>1, RowsQuiet DEF IInv
    <3> QED BY <3>2, <3>3
  <2>2. ASSUME exit_event, work_queue' = <<>> PROVE Lineup' /\ Rows' /\ Counts' /\ Repairs'
    <3>1. Lineup'
      BY <1>1, <1>3, <2>2 DEF IInv, Lineup, HasStop, Places
    <3>2. Rows' /\ Counts' /\ Repairs'
      BY <1>1, <1>3, <2>2, RowsInQueue DEF IInv
    <3> QED BY <3>1, <3>2
  <2> QED BY <1>1, <2>1, <2>2
<1> QED BY <1>5, <1>6, <1>7, <1>8, <1>9 DEF IInv

LEMMA PutStopStep == ASSUME IInv, PutStop PROVE IInv'
<1>1. /\ main = "stops" /\ main' = main /\ Len(work_queue) < QueueSize
      /\ stops_left > 0 /\ stops_left' = stops_left - 1
      /\ work_queue' = Append(work_queue, Stop)
      /\ UNCHANGED <<readerVars, writerVars, file_iter, readers, errors, force, keyed, result>>
      /\ UNCHANGED <<interrupts, error_torn, exit_event, timing_queue, error_queue, warning_queue, faults>>
  BY DEF PutStop, options
<1>2. /\ work_queue' \in Seq(Batch \cup {Stop}) /\ Len(work_queue') = Len(work_queue) + 1
      /\ Len(work_queue) \in Nat
      /\ \A i \in 1 .. Len(work_queue) : work_queue'[i] = work_queue[i]
      /\ work_queue'[Len(work_queue) + 1] = Stop
  BY <1>1, AppendProperties, LenProperties DEF IInv, Typed, SharedTyped
<1>3. Typed'
  <2>1. MainTyped'
    BY <1>1, Sizes DEF IInv, Typed, MainTyped
  <2>2. SharedTyped'
    BY <1>1, <1>2, Sizes DEF IInv, Typed, SharedTyped
  <2>3. ReaderTyped' /\ WriterTyped'
    BY <1>1 DEF IInv, Typed, ReaderTyped, WriterTyped, readerVars, writerVars
  <2> QED BY <2>1, <2>2, <2>3 DEF Typed
<1>4. Phases' /\ ReaderPhases'
  <2>1. Reported'
    BY <1>1, ReportedQuiet DEF IInv, readerVars, writerVars
  <2> QED BY <1>1, <2>1 DEF IInv, Phases, ReaderPhases, readerVars
<1>5. NothingLeft' /\ CompleteUnlessReported'
  BY <1>1, <1>4, Unfinished
<1>6. Rows' /\ Counts' /\ Repairs'
  BY <1>1, RowsInQueue DEF IInv, readerVars, writerVars
<1>7. Lineup'
  <2>1. \A i \in Places' : IF i \in Places THEN work_queue'[i] = work_queue[i] ELSE work_queue'[i] = Stop
    BY <1>2 DEF Places
  <2>2. \A i, j \in Places' : i < j /\ j \in Places => i \in Places
    BY <1>2 DEF Places
  <2> QED BY <1>1, <2>1, <2>2 DEF IInv, Lineup, HasStop, writerVars
<1> QED BY <1>3, <1>4, <1>5, <1>6, <1>7 DEF IInv

(* The end.  If nothing told the import to end, every reader has read its  *)
(* file, the queue holds StopIterations only, and no writer anything.      *)
LEMMA FinishStep == ASSUME IInv, Finish PROVE IInv'
<1>1. /\ main = "writers" /\ main' = "done" /\ \A w \in Writer : writer[w] = "dead"
      /\ errors' = errors \cup error_queue /\ error_queue' = {}
      /\ UNCHANGED <<readerVars, writerVars, file_iter, readers, stops_left, force, keyed, interrupts>>
      /\ UNCHANGED <<error_torn, exit_event, work_queue, timing_queue, warning_queue, faults>>
      /\ exit_event \in BOOLEAN
      /\ result' \in {"success", "errors", "warnings"} /\ (errors' # {} => result' = "errors")
  BY DEF Finish, options, IInv, Typed, SharedTyped
<1>2. Typed'
  <2>1. MainTyped'
    BY <1>1 DEF IInv, Typed, MainTyped, SharedTyped
  <2>2. SharedTyped' /\ ReaderTyped' /\ WriterTyped'
    BY <1>1 DEF IInv, Typed, SharedTyped, ReaderTyped, WriterTyped, readerVars, writerVars
  <2> QED BY <2>1, <2>2 DEF Typed
<1>3. Phases' /\ ReaderPhases'
  <2>1. Reported'
    BY <1>1, ReportedQuiet DEF IInv, readerVars, writerVars
  <2> QED BY <1>1, <2>1 DEF IInv, Phases, ReaderPhases, readerVars
<1>4. Lineup'
  BY <1>1, LineupQuiet DEF IInv, writerVars
<1>5. Rows' /\ Counts' /\ Repairs'
  BY <1>1, RowsQuiet DEF IInv, readerVars, writerVars
<1>6. \A t \in Table : reader[t] \in {"none", "dead"}
  BY <1>1 DEF IInv, Typed, ReaderTyped, Phases, ReaderPhases, Failing
<1>7. NothingLeft'
  BY <1>1, <1>6 DEF NothingLeft, readerVars, writerVars
<1>8. CompleteUnlessReported'
  <2> SUFFICES ASSUME result' \in {"success", "warnings"}, interrupts' = 0, NEW t \in Table
               PROVE  rows_written[t] = RowCount[t] /\ \A r \in Row(t) : stored[t][r] = 1
    BY <1>1 DEF CompleteUnlessReported, writerVars, Row
  <2>1. ~exit_event
    BY <1>1 DEF IInv, Phases
  <2>2. rows_read[t] = RowCount[t]
    BY <1>1, <1>6, <2>1 DEF IInv, Phases, ReaderPhases
  <2>3. \A i \in Places : work_queue[i] = Stop
    BY <1>1, <2>1, ImportAssumption DEF IInv, Lineup
  <2>4. ASSUME NEW r \in Row(t) PROVE stored[t][r] = 1 /\ Holding(t, r) = {}
    <3>1. \A i \in Places : ~Carries(work_queue[i], t, r)
      BY <2>3, StopRows, RowType DEF IInv
    <3>2. Holding(t, r) = {}
      BY <1>1 DEF Holding, Failing
    <3>3. r <= rows_read[t]
      BY <2>2, RowType DEF Row, IInv
    <3> QED BY <2>1, <3>1, <3>2, <3>3 DEF IInv, Rows, RowInv
  <2>5. Settled(t) = Row(t)
    BY <2>4 DEF Settled
  <2>6. Cardinality(Row(t)) = RowCount[t]
    <3>1. RowCount[t] \in Nat /\ RowCount[t] \in Int /\ 1 \in Int
      BY ImportAssumption
    <3>2. Cardinality(1 .. RowCount[t]) = IF 1 > RowCount[t] THEN 0 ELSE RowCount[t] - 1 + 1
      BY <3>1, FS_Interval
    <3> QED BY <3>1, <3>2 DEF Row
  <2> QED BY <2>1, <2>4, <2>5, <2>6 DEF IInv, Counts
<1> QED BY <1>2, <1>3, <1>4, <1>5, <1>7, <1>8 DEF IInv

LEMMA InterruptStep == ASSUME IInv, Interrupt PROVE IInv'
<1>1. /\ main # "done" /\ interrupts < 2 /\ interrupts' = interrupts + 1 /\ exit_event' = TRUE
      /\ UNCHANGED <<main, file_iter, readers, stops_left, errors, result, force, keyed>>
      /\ UNCHANGED <<work_queue, timing_queue, error_queue, warning_queue, faults>>
      /\ UNCHANGED <<rows_read, batch, next_row, rows_written, stored>> /\ error_torn' \in BOOLEAN
  BY DEF Interrupt, options, IInv, Typed, MainTyped
<1>2. /\ \A t \in Table : reader'[t] = reader[t] \/ (t \in readers /\ reader'[t] = "dead")
      /\ reader' \in [Table -> {"none", "read", "put", "finish", "dead"} \cup Failing]
  BY DEF Interrupt, IInv, Typed, ReaderTyped
<1>3. /\ \A w \in Writer : writer'[w] = writer[w] \/ (writer[w] # "none" /\ writer'[w] = "dead")
      /\ writer' \in [Writer -> {"none", "get", "batch", "repair", "dead"} \cup Failing]
  BY DEF Interrupt, IInv, Typed, WriterTyped
<1>4. Typed'
  <2>1. MainTyped'
    BY <1>1 DEF IInv, Typed, MainTyped
  <2>2. SharedTyped'
    BY <1>1 DEF IInv, Typed, SharedTyped
  <2>3. ReaderTyped'
    BY <1>1, <1>2 DEF IInv, Typed, ReaderTyped
  <2>4. WriterTyped'
    BY <1>1, <1>3 DEF IInv, Typed, WriterTyped
  <2> QED BY <2>1, <2>2, <2>3, <2>4 DEF Typed
<1>5. Phases'
  <2>1. Reported'
    BY <1>1, <1>2, <1>3, ReportedQuiet DEF IInv
  <2> QED BY <1>1, <1>3, <2>1 DEF IInv, Phases, Typed, MainTyped
<1>6. ReaderPhases'
  <2>1. \A t \in Table : t \in readers => t \notin file_iter
    BY DEF IInv, Typed, MainTyped
  <2> QED BY <1>1, <1>2, <2>1 DEF IInv, ReaderPhases, Failing
<1>7. Lineup'
  BY <1>1, <1>3, LineupQuiet DEF IInv
<1>8. Rows' /\ Counts' /\ Repairs'
  BY <1>1, <1>3, RowsQuiet DEF IInv
<1>9. NothingLeft' /\ CompleteUnlessReported'
  BY <1>1, <1>5, Unfinished
<1> QED BY <1>4, <1>5, <1>6, <1>7, <1>8, <1>9 DEF IInv

-----------------------------------------------------------------------------
(* The steps of readers.                                                   *)
LEMMA ReaderAlive ==
  ASSUME IInv, NEW t \in Table, reader[t] \in {"read", "put", "finish"} \cup Failing
  PROVE  main \in {"start", "watch", "wait"} /\ t \in readers /\ t \notin file_iter
BY DEF IInv, Typed, MainTyped, Phases, ReaderPhases, NothingLeft, Failing

(* A reader goes on to a next place, and puts nothing into work_queue.     *)
LEMMA ReaderQuiet ==
  ASSUME IInv, NEW t \in Table, reader[t] \in {"read", "put", "finish"} \cup Failing,
         NEW place \in {"read", "put", "finish", "dead"} \cup Failing, ToRead(t, place),
         UNCHANGED <<mainVars, work_queue, rows_read, writerVars>>,
         exit_event' \in BOOLEAN, exit_event => exit_event',
         {error_queue', warning_queue'} \subseteq SUBSET Table, error_queue \subseteq error_queue',
         exit_event' /\ ~exit_event => errors \cup error_queue' # {},
         place = "event" => error_queue' # {},
         timing_queue' \in 0 .. TimingSize, faults' \in 0 .. MaxFaults,
         place = "put" => rows_read[t] < RowCount[t],
         place = "finish" => rows_read[t] = RowCount[t],
         place = "dead" /\ ~exit_event' => rows_read[t] = RowCount[t]
  PROVE  IInv'
<1>1. /\ main \in {"start", "watch", "wait"} /\ t \in readers /\ t \notin file_iter
      /\ UNCHANGED <<main, file_iter, readers, stops_left, errors, force, keyed, result>>
      /\ UNCHANGED <<interrupts, error_torn>>
  BY ReaderAlive DEF mainVars, options
<1>2. reader'[t] = place /\ \A u \in Table \ {t} : reader'[u] = reader[u]
  BY DEF ToRead, IInv, Typed, ReaderTyped
<1>3. Typed'
  <2>1. MainTyped'
    BY <1>1 DEF IInv, Typed, MainTyped
  <2>2. SharedTyped'
    BY DEF IInv, Typed, SharedTyped
  <2>3. ReaderTyped'
    BY DEF IInv, Typed, ReaderTyped, ToRead
  <2>4. WriterTyped'
    BY DEF IInv, Typed, WriterTyped, writerVars
  <2> QED BY <2>1, <2>2, <2>3, <2>4 DEF Typed
<1>4. Phases'
  <2>1. Reported'
    BY <1>1, <1>2 DEF IInv, Phases, Reported, writerVars
  <2> QED BY <1>1, <2>1 DEF IInv, Phases, Typed, SharedTyped
<1>5. ReaderPhases'
  BY <1>1, <1>2 DEF IInv, ReaderPhases, Failing
<1>6. Lineup'
  BY <1>1, LineupQuiet DEF IInv, writerVars
<1>7. Rows' /\ Counts' /\ Repairs'
  BY RowsQuiet DEF IInv, writerVars
<1>8. NothingLeft' /\ CompleteUnlessReported'
  BY <1>1, <1>4, Unfinished
<1> QED BY <1>3, <1>4, <1>5, <1>6, <1>7, <1>8 DEF IInv

LEMMA ReaderFailsStep == ASSUME IInv, NEW t \in Table, ReaderFails(t) PROVE IInv'
<1>1. /\ reader[t] \in {"read", "finish"} /\ ToRead(t, "error") /\ faults' = faults + 1
      /\ faults < MaxFaults
      /\ UNCHANGED <<mainVars, exit_event, work_queue, timing_queue, error_queue, warning_queue>>
      /\ UNCHANGED <<rows_read, writerVars>> /\ exit_event \in BOOLEAN
  BY DEF ReaderFails, Fault, IInv, Typed, SharedTyped
<1>2. /\ {error_queue', warning_queue'} \subseteq SUBSET Table /\ timing_queue' \in 0 .. TimingSize
      /\ faults' \in 0 .. MaxFaults
  BY <1>1, Sizes DEF IInv, Typed, SharedTyped
<1>3. "error" \in Failing
  BY DEF Failing
<1> QED BY <1>1, <1>2, <1>3, ReaderQuiet

(* What a step of a report may be, for a process at a place.               *)
LEMMA ReportCases ==
  ASSUME IInv, NEW t \in Table, NEW place, NEW next, Report(t, place, next),
         place = "event" => errors \cup error_queue # {}
  PROVE  /\ place \in Failing /\ next \in Failing \cup {"dead"}
         /\ exit_event \in BOOLEAN /\ exit_event' \in BOOLEAN /\ (exit_event => exit_event')
         /\ next = "dead" => exit_event'
         /\ error_queue \subseteq error_queue' /\ error_queue' \subseteq Table
         /\ next = "event" => error_queue' # {}
         /\ exit_event' /\ ~exit_event => errors \cup error_queue' # {}
<1>1. exit_event \in BOOLEAN /\ error_queue \subseteq Table
  BY DEF IInv, Typed, SharedTyped
<1>2. CASE /\ place = "error" /\ next \in {"blocked", "event"} /\ UNCHANGED exit_event
           /\ error_queue' = IF next = "event" THEN error_queue \cup {t} ELSE error_queue
  BY <1>1, <1>2 DEF Failing
<1>3. CASE place = "event" /\ next = "dead" /\ exit_event' = TRUE /\ UNCHANGED error_queue
  BY <1>1, <1>3 DEF Failing
<1> QED BY <1>2, <1>3 DEF Report

LEMMA ReaderReportsStep == ASSUME IInv, NEW t \in Table, ReaderReports(t) PROVE IInv'
<1>1. PICK next \in Failing \cup {"dead"} : Report(t, reader[t], next) /\ ToRead(t, next)
  BY DEF ReaderReports
<1>2. UNCHANGED <<mainVars, work_queue, timing_queue, warning_queue, faults, rows_read, writerVars>>
  BY DEF ReaderReports
<1>3. reader[t] = "event" => errors \cup error_queue # {}
  BY DEF IInv, Phases, Reported
<1>4. /\ reader[t] \in Failing /\ exit_event' \in BOOLEAN /\ (exit_event => exit_event')
      /\ next = "dead" => exit_event'
      /\ error_queue \subseteq error_queue' /\ error_queue' \subseteq Table
      /\ next = "event" => error_queue' # {}
      /\ exit_event' /\ ~exit_event => errors \cup error_queue' # {}
  BY <1>1, <1>3, ReportCases
<1>5. /\ {error_queue', warning_queue'} \subseteq SUBSET Table /\ timing_queue' \in 0 .. TimingSize
      /\ faults' \in 0 .. MaxFaults
  BY <1>2, <1>4 DEF IInv, Typed, SharedTyped
<1>6. next # "put" /\ next # "finish"
  BY <1>1 DEF Failing
<1> QED BY <1>1, <1>2, <1>4, <1>5, <1>6, ReaderQuiet

LEMMA ReadBatchStep == ASSUME IInv, NEW t \in Table, ReadBatch(t) PROVE IInv'
<1>1. /\ reader[t] = "read"
      /\ UNCHANGED <<mainVars, exit_event, work_queue, error_queue, warning_queue, faults, rows_read, writerVars>>
      /\ exit_event \in BOOLEAN /\ rows_read[t] <= RowCount[t]
      /\ {error_queue, warning_queue} \subseteq SUBSET Table /\ faults \in 0 .. MaxFaults
  BY DEF ReadBatch, IInv, Typed, SharedTyped, ReaderTyped
<1>2. timing_queue' \in 0 .. TimingSize
  BY Sizes DEF ReadBatch, IInv, Typed, SharedTyped
<1>3. CASE rows_read[t] = RowCount[t] /\ ToRead(t, "finish")
  BY <1>1, <1>2, <1>3, ReaderQuiet
<1>4. CASE rows_read[t] # RowCount[t] /\ ToRead(t, IF exit_event THEN "dead" ELSE "put")
  <2>1. rows_read[t] < RowCount[t]
    BY <1>1, <1>4, RowType DEF IInv
  <2> QED BY <1>1, <1>2, <1>4, <2>1, ReaderQuiet
<1> QED BY <1>3, <1>4 DEF ReadBatch

LEMMA ReaderEndsStep ==
  ASSUME IInv, NEW t \in Table, GiveUpPut(t) \/ FinishFile(t) PROVE IInv'
<1>1. /\ UNCHANGED <<mainVars, exit_event, work_queue, timing_queue, error_queue, rows_read, writerVars>>
      /\ ToRead(t, "dead") /\ exit_event \in BOOLEAN
      /\ (reader[t] = "put" /\ exit_event) \/ reader[t] = "finish"
  BY DEF GiveUpPut, FinishFile, queues, IInv, Typed, SharedTyped
<1>2. /\ {error_queue', warning_queue'} \subseteq SUBSET Table /\ timing_queue' \in 0 .. TimingSize
      /\ faults' \in 0 .. MaxFaults
  BY <1>1, Sizes DEF GiveUpPut, FinishFile, queues, Fault, IInv, Typed, SharedTyped
<1>3. ~exit_event => rows_read[t] = RowCount[t]
  BY <1>1 DEF IInv, ReaderPhases
<1> QED BY <1>1, <1>2, <1>3, ReaderQuiet

LEMMA PutBatchStep == ASSUME IInv, NEW t \in Table, PutBatch(t) PROVE IInv'
<1> DEFINE b == NextBatch(t)
<1>1. /\ reader[t] = "put" /\ Len(work_queue) < QueueSize
      /\ work_queue' = Append(work_queue, b)
      /\ rows_read' = [rows_read EXCEPT ![t] = b.last] /\ reader' = [reader EXCEPT ![t] = "read"]
      /\ UNCHANGED <<main, file_iter, readers, stops_left, errors, force, keyed, result>>
      /\ UNCHANGED <<interrupts, error_torn>>
      /\ UNCHANGED <<exit_event, timing_queue, error_queue, warning_queue, faults, writerVars>>
  BY DEF PutBatch, ToRead, mainVars, options
<1>2. main \in {"start", "watch", "wait"} /\ t \in readers /\ t \notin file_iter
  BY <1>1, ReaderAlive
<1>3. b \in Batch /\ b.last \in Nat /\ b.last <= RowCount[t] /\ b # Stop
  BY <1>1, NextBatchType, BatchRows DEF IInv
<1> HIDE DEF b
<1>4. /\ work_queue' \in Seq(Batch \cup {Stop}) /\ Len(work_queue') = Len(work_queue) + 1
      /\ Len(work_queue) \in Nat
      /\ \A i \in 1 .. Len(work_queue) : work_queue'[i] = work_queue[i]
      /\ work_queue'[Len(work_queue) + 1] = b
  BY <1>1, <1>3, AppendProperties, LenProperties DEF IInv, Typed, SharedTyped
<1>5. /\ rows_read'[t] = b.last /\ reader'[t] = "read"
      /\ \A u \in Table \ {t} : rows_read'[u] = rows_read[u] /\ reader'[u] = reader[u]
  BY <1>1 DEF IInv, Typed, ReaderTyped
<1>6. Typed'
  <2>1. MainTyped'
    BY <1>1 DEF IInv, Typed, MainTyped
  <2>2. SharedTyped'
    BY <1>1, <1>4, Sizes DEF IInv, Typed, SharedTyped
  <2>3. ReaderTyped'
    BY <1>1, <1>3, <1>5 DEF IInv, Typed, ReaderTyped
  <2>4. WriterTyped'
    BY <1>1 DEF IInv, Typed, WriterTyped, writerVars
  <2> QED BY <2>1, <2>2, <2>3, <2>4 DEF Typed
<1>7. Phases'
  <2>1. Reported'
    BY <1>1, <1>5, ReportedQuiet DEF IInv, writerVars
  <2> QED BY <1>1, <1>2, <2>1 DEF IInv, Phases
<1>8. ReaderPhases'
  BY <1>1, <1>2, <1>5 DEF IInv, ReaderPhases, Failing
<1>9. Lineup'
  <2>1. \A i \in Places' : work_queue'[i] # Stop
    BY <1>2, <1>3, <1>4 DEF IInv, Lineup, Places
  <2>2. \A w \in Writer : ~HasStop(w)' /\ (writer'[w] = "dead" => exit_event')
    BY <1>1, <1>2 DEF IInv, Lineup, HasStop, writerVars
  <2> QED BY <2>1, <2>2 DEF Lineup
<1>10. Rows' /\ Counts' /\ Repairs'
  BY RowsPut DEF IInv
<1>11. NothingLeft' /\ CompleteUnlessReported'
  BY <1>1, <1>2, <1>7, Unfinished
<1> QED BY <1>6, <1>7, <1>8, <1>9, <1>10, <1>11 DEF IInv

-----------------------------------------------------------------------------
(* The steps of writers.                                                   *)
LEMMA WriterAlive ==
  ASSUME IInv, NEW w \in Writer, writer[w] \in {"get", "batch", "repair"} \cup Failing
  PROVE  main \notin {"setup", "done"}
BY DEF IInv, Phases, NothingLeft, Failing

(* What a writer does to the rows aside.                                   *)
LEMMA WriterMoves ==
  ASSUME IInv, NEW w \in Writer, writer[w] \in {"get", "batch", "repair"} \cup Failing,
         UNCHANGED <<mainVars, readerVars>>,
         work_queue' \in Seq(Batch \cup {Stop}), Len(work_queue') <= QueueSize,
         exit_event' \in BOOLEAN, exit_event => exit_event',
         {error_queue', warning_queue'} \subseteq SUBSET Table, error_queue \subseteq error_queue',
         exit_event' /\ ~exit_event => errors \cup error_queue' # {},
         timing_queue' \in 0 .. TimingSize, faults' \in 0 .. MaxFaults,
         NEW place \in {"get", "batch", "repair", "dead"} \cup Failing,
         ToWrite(w, place) \/ (writer' = writer), place = "event" => error_queue' # {},
         batch' \in [Writer -> Batch \cup {Stop}], next_row' \in [Writer -> Nat],
         rows_written' \in [Table -> Nat],
         stored' = [t \in Table |-> stored'[t]], \A t \in Table : stored'[t] \in [Row(t) -> Nat],
         Rows' /\ Counts' /\ Repairs', Lineup'
  PROVE  IInv'
<1>1. /\ main \notin {"setup", "done"}
      /\ UNCHANGED <<main, file_iter, readers, stops_left, errors, force, keyed, result>>
      /\ UNCHANGED <<interrupts, error_torn>>
  BY WriterAlive DEF mainVars, options
<1>2. Typed'
  <2>1. MainTyped'
    BY <1>1 DEF IInv, Typed, MainTyped
  <2>2. SharedTyped'
    BY DEF IInv, Typed, SharedTyped
  <2>3. ReaderTyped'
    BY DEF IInv, Typed, ReaderTyped, readerVars
  <2>4. writer' \in [Writer -> {"none", "get", "batch", "repair", "dead"} \cup Failing]
    BY DEF ToWrite, IInv, Typed, WriterTyped
  <2>5. WriterTyped'
    BY <2>4, Zenon DEF WriterTyped, Row
  <2> QED BY <2>1, <2>2, <2>3, <2>5 DEF Typed
<1>3. Phases'
  <2>1. Reported'
    <3>1. \A v \in Writer : writer'[v] = writer[v] \/ writer'[v] = place
      BY DEF ToWrite, IInv, Typed, WriterTyped
    <3> QED BY <1>1, <3>1 DEF IInv, Phases, Reported, readerVars
  <2> QED BY <1>1, <2>1 DEF IInv, Phases, Typed, SharedTyped
<1>4. ReaderPhases'
  BY <1>1, ReadersQuiet DEF IInv
<1>5. NothingLeft' /\ CompleteUnlessReported'
  BY <1>1, <1>3, Unfinished
<1> QED BY <1>2, <1>3, <1>4, <1>5 DEF IInv

LEMMA TakeBatchStep == ASSUME IInv, NEW w \in Writer, TakeBatch(w) PROVE IInv'
<1>1. /\ writer[w] = "get" /\ work_queue # <<>> /\ work_queue' = Tail(work_queue)
      /\ ToWrite(w, "batch") /\ batch' = [batch EXCEPT ![w] = Head(work_queue)]
      /\ UNCHANGED <<mainVars, exit_event, timing_queue, error_queue, warning_queue, faults>>
      /\ UNCHANGED <<readerVars, next_row, rows_written, stored>>
  BY DEF TakeBatch
<1>2. /\ work_queue \in Seq(Batch \cup {Stop}) /\ Len(work_queue) \in Nat \ {0}
      /\ Len(work_queue) <= QueueSize
  BY <1>1, EmptySeq DEF IInv, Typed, SharedTyped
<1>3. /\ work_queue' \in Seq(Batch \cup {Stop}) /\ Len(work_queue') = Len(work_queue) - 1
      /\ \A i \in 1 .. Len(work_queue') : work_queue'[i] = work_queue[i + 1]
      /\ Head(work_queue) \in Batch \cup {Stop} /\ Head(work_queue) = work_queue[1]
  BY <1>1, <1>2, HeadTailProperties
<1>4. /\ writer'[w] = "batch" /\ batch'[w] = work_queue[1]
      /\ \A v \in Writer \ {w} : writer'[v] = writer[v] /\ batch'[v] = batch[v]
  BY <1>1, <1>3 DEF ToWrite, IInv, Typed, WriterTyped
<1>5. /\ 1 \in Places
      /\ \A i \in Places' : i + 1 \in Places /\ work_queue'[i] = work_queue[i + 1] /\ 1 < i + 1
      /\ \A i, j \in Places' : i < j => i + 1 < j + 1
  BY <1>2, <1>3 DEF Places
<1>6. Lineup'
  <2>1. main' \in {"setup", "start", "watch", "wait"} =>
          /\ \A i \in Places' : work_queue'[i] # Stop
          /\ \A v \in Writer : ~HasStop(v)' /\ (writer'[v] = "dead" => exit_event')
    <3>1. main' = main /\ exit_event' = exit_event
      BY <1>1 DEF mainVars
    <3> QED BY <1>4, <1>5, <3>1 DEF IInv, Lineup, HasStop
  <2>2. \A i, j \in Places' : i < j /\ work_queue'[i] = Stop => work_queue'[j] = Stop
    BY <1>5 DEF IInv, Lineup
  <2>3. ASSUME NEW v \in Writer, HasStop(v)' \/ (writer'[v] = "dead" /\ ~exit_event'), NEW i \in Places'
        PROVE  work_queue'[i] = Stop
    <3>1. CASE v = w
      BY <1>4, <1>5, <2>3, <3>1 DEF IInv, Lineup, HasStop
    <3>2. CASE v # w
      BY <1>1, <1>4, <1>5, <2>3, <3>2 DEF IInv, Lineup, HasStop
    <3> QED BY <3>1, <3>2
  <2> QED BY <2>1, <2>2, <2>3 DEF Lineup
<1>7. Rows' /\ Counts' /\ Repairs'
  BY RowsTaken DEF IInv
<1>8. /\ batch' \in [Writer -> Batch \cup {Stop}] /\ Len(work_queue') <= QueueSize
      /\ timing_queue' \in 0 .. TimingSize /\ faults' \in 0 .. MaxFaults /\ exit_event \in BOOLEAN
      /\ {error_queue', warning_queue'} \subseteq SUBSET Table
      /\ next_row' \in [Writer -> Nat] /\ rows_written' \in [Table -> Nat]
      /\ stored' = [t \in Table |-> stored'[t]] /\ \A t \in Table : stored'[t] \in [Row(t) -> Nat]
  BY <1>1, <1>2, <1>3, Sizes DEF IInv, Typed, SharedTyped, WriterTyped
<1> QED BY <1>1, <1>3, <1>6, <1>7, <1>8, WriterMoves

LEMMA WriterEndsStep ==
  ASSUME IInv, NEW w \in Writer, LeaveGet(w) \/ Stopped(w) PROVE IInv'
<1>1. /\ ToWrite(w, "dead")
      /\ (writer[w] = "get" /\ exit_event) \/ HasStop(w)
      /\ UNCHANGED <<mainVars, exit_event, work_queue, error_queue, warning_queue, faults>>
      /\ UNCHANGED <<readerVars, batch, next_row, rows_written, stored>>
  BY DEF LeaveGet, Stopped, queues, HasStop
<1>2. /\ writer'[w] = "dead" /\ \A v \in Writer \ {w} : writer'[v] = writer[v]
      /\ writer[w] \in {"get", "batch"} /\ exit_event \in BOOLEAN
  BY <1>1 DEF ToWrite, HasStop, IInv, Typed, WriterTyped, SharedTyped
<1>3. timing_queue' \in 0 .. TimingSize
  BY Sizes DEF LeaveGet, Stopped, PutTiming, queues, IInv, Typed, SharedTyped
<1>4. Lineup'
  BY <1>1, <1>2, LineupQuiet DEF IInv, mainVars
<1>5. Rows' /\ Counts' /\ Repairs'
  BY <1>1, <1>2, RowsQuiet DEF IInv, readerVars
<1>6. /\ work_queue' \in Seq(Batch \cup {Stop}) /\ Len(work_queue') <= QueueSize
      /\ faults' \in 0 .. MaxFaults /\ {error_queue', warning_queue'} \subseteq SUBSET Table
  BY <1>1 DEF IInv, Typed, SharedTyped
<1>7. /\ batch' \in [Writer -> Batch \cup {Stop}] /\ next_row' \in [Writer -> Nat]
      /\ rows_written' \in [Table -> Nat]
      /\ stored' = [t \in Table |-> stored'[t]] /\ \A t \in Table : stored'[t] \in [Row(t) -> Nat]
  BY <1>1 DEF IInv, Typed, WriterTyped
<1> QED BY <1>1, <1>2, <1>3, <1>4, <1>5, <1>6, <1>7, WriterMoves

LEMMA InsertStep == ASSUME IInv, NEW w \in Writer, Insert(w) PROVE IInv'
<1> DEFINE b == batch[w]
<1>1. /\ writer[w] = "batch" /\ b \in Batch /\ PutTiming
      /\ UNCHANGED <<mainVars, exit_event, work_queue, error_queue, warning_queue, readerVars>>
      /\ exit_event \in BOOLEAN
  BY DEF Insert, IInv, Typed, WriterTyped, SharedTyped
<1>2. /\ b.table \in Table /\ Cardinality(RowsOf(b)) \in Nat /\ b.first \in Nat
  BY <1>1, BatchRows, RowsFinite
<1>3. PICK place \in {"get", "dead", "error", "repair"} :
         ToWrite(w, place) /\ (place = "dead" => exit_event)
  BY DEF Insert, NextBatchOr
<1>4. \E rows : Stored(b.table, rows)
  BY DEF Insert
<1>5. /\ rows_written' = rows_written \/ Written(b.table, Cardinality(RowsOf(b)))
      /\ next_row' = next_row \/ next_row' = [next_row EXCEPT ![w] = b.first]
      /\ batch' = batch \/ batch' = [batch EXCEPT ![w] = Stop]
      /\ faults' = faults \/ Fault
  BY DEF Insert, NextBatchOr
<1>6. batch' = batch \/ place \in {"get", "dead"}
  BY <1>3 DEF Insert, NextBatchOr, ToWrite, IInv, Typed, WriterTyped
<1> HIDE DEF b
<1>7. /\ stored' = [t \in Table |-> stored'[t]] /\ \A t \in Table : stored'[t] \in [Row(t) -> Nat]
  BY <1>2, <1>4, StoredType DEF IInv
<1>8. /\ rows_written' \in [Table -> Nat] /\ next_row' \in [Writer -> Nat]
      /\ batch' \in [Writer -> Batch \cup {Stop}]
  BY <1>2, <1>5 DEF Written, IInv, Typed, WriterTyped
<1>9. /\ timing_queue' \in 0 .. TimingSize /\ faults' \in 0 .. MaxFaults
      /\ {error_queue', warning_queue'} \subseteq SUBSET Table
      /\ work_queue' \in Seq(Batch \cup {Stop}) /\ Len(work_queue') <= QueueSize
  BY <1>1, <1>5, Sizes DEF PutTiming, Fault, IInv, Typed, SharedTyped
<1>10. writer'[w] = place /\ \A v \in Writer \ {w} : writer'[v] = writer[v]
  BY <1>3 DEF ToWrite, IInv, Typed, WriterTyped
<1>11. Lineup'
  <2>1. \A v \in Writer : batch'[v] = batch[v] \/ writer'[v] # "batch"
    BY <1>5, <1>10 DEF IInv, Typed, WriterTyped
  <2>2. "error" \in Failing
    BY DEF Failing
  <2> QED BY <1>1, <1>3, <1>10, <2>1, <2>2, LineupQuiet DEF IInv, mainVars
<1>12. Rows' /\ Counts' /\ Repairs'
  BY RowsInserted DEF IInv
<1>13. place \in {"get", "batch", "repair", "dead"} \cup Failing /\ place # "event"
  BY DEF Failing
<1> QED BY <1>1, <1>3, <1>7, <1>8, <1>9, <1>11, <1>12, <1>13, WriterMoves

LEMMA RepairRowStep == ASSUME IInv, NEW w \in Writer, RepairRow(w) PROVE IInv'
<1>1. /\ writer[w] = "repair" /\ batch[w] \in Batch
      /\ UNCHANGED <<mainVars, queues, readerVars>>
      /\ exit_event' = exit_event /\ exit_event \in BOOLEAN
  BY DEF RepairRow, queues, IInv, Repairs, Typed, WriterTyped, SharedTyped
<1>2. batch[w].table \in Table
  BY <1>1, BatchRows
<1>3. /\ Stored(batch[w].table, {next_row[w]}) /\ Written(batch[w].table, 1)
      /\ next_row' = [next_row EXCEPT ![w] = @ + 1]
      /\ NextBatchOr(w) \/ UNCHANGED <<writer, batch>>
  BY DEF RepairRow
<1>4. PICK place \in {"get", "dead"} : (ToWrite(w, place) \/ writer' = writer) /\ (place = "dead" => exit_event)
  BY <1>3 DEF NextBatchOr
<1>5. /\ stored' = [t \in Table |-> stored'[t]] /\ \A t \in Table : stored'[t] \in [Row(t) -> Nat]
  BY <1>2, <1>3, StoredType DEF IInv
<1>6. /\ rows_written' \in [Table -> Nat] /\ next_row' \in [Writer -> Nat]
      /\ batch' \in [Writer -> Batch \cup {Stop}]
  BY <1>2, <1>3 DEF Written, NextBatchOr, IInv, Typed, WriterTyped
<1>7. /\ \A v \in Writer : writer'[v] = writer[v] \/ writer'[v] = "get" \/ (writer'[v] = "dead" /\ exit_event')
      /\ \A v \in Writer : batch'[v] = batch[v] \/ writer'[v] # "batch"
  BY <1>1, <1>3 DEF NextBatchOr, ToWrite, IInv, Typed, WriterTyped
<1>8. Lineup'
  BY <1>1, <1>7, LineupQuiet DEF IInv, queues, mainVars
<1>9. Rows' /\ Counts' /\ Repairs'
  BY RowsRepaired DEF IInv
<1>10. /\ work_queue' \in Seq(Batch \cup {Stop}) /\ Len(work_queue') <= QueueSize
       /\ timing_queue' \in 0 .. TimingSize /\ faults' \in 0 .. MaxFaults
       /\ {error_queue', warning_queue'} \subseteq SUBSET Table /\ error_queue \subseteq error_queue'
  BY <1>1 DEF queues, IInv, Typed, SharedTyped
<1> QED BY <1>1, <1>4, <1>5, <1>6, <1>8, <1>9, <1>10, WriterMoves

LEMMA RepairFailsStep == ASSUME IInv, NEW w \in Writer, RepairFails(w) PROVE IInv'
<1>1. /\ writer[w] = "repair" /\ batch[w] \in Batch /\ ToWrite(w, "error")
      /\ UNCHANGED <<mainVars, exit_event, work_queue, timing_queue, error_queue, warning_queue>>
      /\ UNCHANGED <<readerVars, batch, next_row, rows_written>> /\ exit_event \in BOOLEAN
  BY DEF RepairFails, IInv, Repairs, Typed, WriterTyped, SharedTyped
<1>2. batch[w].table \in Table
  BY <1>1, BatchRows
<1>3. /\ stored' = stored \/ Stored(batch[w].table, {next_row[w]})
      /\ faults' = faults \/ Fault
  BY DEF RepairFails
<1>4. /\ stored' = [t \in Table |-> stored'[t]] /\ \A t \in Table : stored'[t] \in [Row(t) -> Nat]
  <2>1. CASE stored' = stored
    BY <2>1 DEF IInv, Typed, WriterTyped
  <2>2. CASE Stored(batch[w].table, {next_row[w]})
    BY <1>2, <2>2, StoredType DEF IInv
  <2> QED BY <1>3, <2>1, <2>2
<1>5. "error" \in Failing /\ \A v \in Writer : writer'[v] = writer[v] \/ writer'[v] \in Failing
  BY <1>1 DEF ToWrite, Failing, IInv, Typed, WriterTyped
<1>6. Lineup'
  BY <1>1, <1>5, LineupQuiet DEF IInv, mainVars
<1>7. Rows' /\ Counts' /\ Repairs'
  BY RowsGivenUp DEF IInv
<1>8. /\ work_queue' \in Seq(Batch \cup {Stop}) /\ Len(work_queue') <= QueueSize
      /\ timing_queue' \in 0 .. TimingSize /\ faults' \in 0 .. MaxFaults
      /\ {error_queue', warning_queue'} \subseteq SUBSET Table
  BY <1>1, <1>3, Sizes DEF Fault, IInv, Typed, SharedTyped
<1>9. /\ batch' \in [Writer -> Batch \cup {Stop}] /\ next_row' \in [Writer -> Nat]
      /\ rows_written' \in [Table -> Nat]
  BY <1>1 DEF IInv, Typed, WriterTyped
<1> QED BY <1>1, <1>4, <1>5, <1>6, <1>7, <1>8, <1>9, WriterMoves

LEMMA WriterReportsStep == ASSUME IInv, NEW w \in Writer, WriterReports(w) PROVE IInv'
<1>1. PICK next \in Failing \cup {"dead"} : Report(batch[w].table, writer[w], next) /\ ToWrite(w, next)
  BY DEF WriterReports
<1>2. /\ UNCHANGED <<mainVars, work_queue, timing_queue, warning_queue, faults, readerVars>>
      /\ UNCHANGED <<batch, next_row, rows_written, stored>>
  BY DEF WriterReports
<1>3. writer[w] \in Failing /\ batch[w].table \in Table
  <2>1. writer[w] \in Failing
    BY <1>1 DEF Report, Failing
  <2>2. batch[w] \in Batch
    BY <2>1 DEF IInv, Repairs, Typed, WriterTyped
  <2> QED BY <2>1, <2>2, BatchRows
<1>4. writer[w] = "event" => errors \cup error_queue # {}
  BY DEF IInv, Phases, Reported
<1>5. /\ exit_event \in BOOLEAN /\ exit_event' \in BOOLEAN /\ (exit_event => exit_event')
      /\ next = "dead" => exit_event'
      /\ error_queue \subseteq error_queue' /\ error_queue' \subseteq Table
      /\ next = "event" => error_queue' # {}
      /\ exit_event' /\ ~exit_event => errors \cup error_queue' # {}
  BY <1>1, <1>3, <1>4, ReportCases
<1>6. /\ {error_queue', warning_queue'} \subseteq SUBSET Table /\ timing_queue' \in 0 .. TimingSize
      /\ faults' \in 0 .. MaxFaults
      /\ work_queue' \in Seq(Batch \cup {Stop}) /\ Len(work_queue') <= QueueSize
  BY <1>2, <1>5 DEF IInv, Typed, SharedTyped
<1>7. /\ writer'[w] = next /\ \A v \in Writer \ {w} : writer'[v] = writer[v]
      /\ \A v \in Writer : batch'[v] = batch[v]
  BY <1>1, <1>2 DEF ToWrite, IInv, Typed, WriterTyped
<1>8. Lineup'
  BY <1>2, <1>5, <1>7, LineupQuiet DEF IInv, mainVars
<1>9. Rows' /\ Counts' /\ Repairs'
  BY <1>2, <1>3, <1>5, <1>7, RowsQuiet DEF IInv, readerVars
<1>10. /\ batch' \in [Writer -> Batch \cup {Stop}] /\ next_row' \in [Writer -> Nat]
       /\ rows_written' \in [Table -> Nat]
       /\ stored' = [t \in Table |-> stored'[t]] /\ \A t \in Table : stored'[t] \in [Row(t) -> Nat]
  BY <1>2 DEF IInv, Typed, WriterTyped
<1> QED BY <1>1, <1>2, <1>3, <1>5, <1>6, <1>8, <1>9, <1>10, WriterMoves

LEMMA StutterImport == ASSUME IInv, UNCHANGED vars PROVE IInv'
<1>1. /\ UNCHANGED <<main, force, keyed, file_iter, readers, stops_left, errors, result, interrupts>>
      /\ UNCHANGED <<error_torn, exit_event, work_queue, timing_queue, error_queue, warning_queue, faults>>
      /\ UNCHANGED <<reader, rows_read, writer, batch, next_row, rows_written, stored>>
  BY DEF vars, mainVars, options, queues, readerVars, writerVars
<1>2. Typed'
  BY <1>1 DEF IInv, Typed, MainTyped, SharedTyped, ReaderTyped, WriterTyped
<1>3. Phases' /\ ReaderPhases'
  BY <1>1 DEF IInv, Phases, Reported, ReaderPhases
<1>4. Lineup' /\ Repairs'
  BY <1>1 DEF IInv, Lineup, Repairs, HasStop, Places
<1>5. Rows' /\ Counts'
  <2>1. exit_event \in BOOLEAN
    BY DEF IInv, Typed, SharedTyped
  <2> QED BY <1>1, <2>1, RowsQuiet DEF IInv
<1>6. NothingLeft' /\ CompleteUnlessReported'
  BY <1>1 DEF IInv, NothingLeft, CompleteUnlessReported, Row
<1> QED BY <1>2, <1>3, <1>4, <1>5, <1>6 DEF IInv

LEMMA NextImport == IInv /\ [Next]_vars => IInv'
<1> SUFFICES ASSUME IInv, [Next]_vars PROVE IInv'
  OBVIOUS
<1>1. CASE MainStep \/ Interrupt
  BY <1>1, SetupStep, StartReaderStep, PhaseStep, PutStopStep, FinishStep, DrainStep, ReapStep,
     InterruptStep DEF MainStep
<1>2. ASSUME NEW t \in Table, ReaderStep(t) PROVE IInv'
  BY <1>2, ReaderFailsStep, ReadBatchStep, PutBatchStep, ReaderEndsStep, ReaderReportsStep
     DEF ReaderStep
<1>3. ASSUME NEW w \in Writer, WriterStep(w) PROVE IInv'
  BY <1>3, TakeBatchStep, WriterEndsStep, InsertStep, RepairRowStep, RepairFailsStep,
     WriterReportsStep DEF WriterStep
<1>4. CASE UNCHANGED vars
  BY <1>4, StutterImport
<1> QED BY <1>1, <1>2, <1>3, <1>4 DEF Next

LEMMA ImportInvariants == Spec => []IInv
BY InitImport, NextImport, PTL DEF Spec

-----------------------------------------------------------------------------
(* import_tables, batches and table_writer: the work queue keeps to its    *)
(* bound, the tables never have fewer rows than rows_written says, and     *)
(* when the import ends no process and no unread error is left.            *)
THEOREM ImportInvariant == Spec => []ImportInv
<1>1. ASSUME IInv, NEW t \in Table
      PROVE  rows_written[t] <= Cardinality({r \in Row(t) : stored[t][r] > 0})
  <2> DEFINE S == {r \in Row(t) : stored[t][r] > 0}
  <2>1. Settled(t) \subseteq S /\ S \subseteq Row(t)
    BY DEF Settled
  <2>2. IsFiniteSet(S) /\ {Cardinality(S), Cardinality(Settled(t))} \subseteq Nat
    BY <2>1, RowsFinite
  <2>3. Cardinality(Settled(t)) <= Cardinality(S)
    BY <2>1, <2>2, FS_Subset
  <2>4. rows_written[t] <= Cardinality(Settled(t)) /\ rows_written[t] \in Nat
    BY <1>1, RowType DEF IInv, Counts
  <2> QED BY <2>2, <2>3, <2>4
<1>2. IInv => ImportInv
  BY <1>1, TypedOK DEF IInv, ImportInv, WrittenIsStored
<1> QED BY <1>2, ImportInvariants, PTL

(* table_writer: whatever is repaired, and after any fault, no row is in   *)
(* its table twice.                                                        *)
THEOREM NoRowTwice == Spec => []NoDuplicate
<1>1. IInv => NoDuplicate
  BY DEF IInv, Rows, RowInv, NoDuplicate
<1> QED BY <1>1, ImportInvariants, PTL

LEMMA AtMostOne ==
  ASSUME NEW S, \A x, y \in S : x = y
  PROVE  Cardinality(S) \in 0 .. 1 /\ (S = {} => Cardinality(S) = 0)
<1>1. CASE S = {}
  <2>1. Cardinality(S) = 0
    BY <1>1, FS_EmptySet
  <2> QED BY <2>1
<1>2. CASE S # {}
  <2>1. PICK x : S = {x}
    <3>1. PICK x \in S : TRUE
      BY <1>2
    <3>2. S = {x}
      BY <3>1
    <3> QED BY <3>2
  <2>2. Cardinality({x}) = 1
    BY FS_Singleton
  <2>3. Cardinality(S) = 1
    BY <2>1, <2>2
  <2> QED BY <1>2, <2>3
<1> QED BY <1>1, <1>2

(* read_to_queue and table_writer: until the import is told to end, a row  *)
(* that was read is in one place: a batch of work_queue, the hands of one  *)
(* writer, or its table.                                                   *)
THEOREM EveryRowAccounted == Spec => []RowsAccounted
<1>1. ASSUME IInv, ~exit_event, NEW t \in Table, NEW r \in 1 .. rows_read[t]
      PROVE  /\ Cardinality(Holding(t, r)) + Cardinality(Queued(t, r)) <= 1
             /\ Holding(t, r) = {} /\ Queued(t, r) = {} => stored[t][r] = 1
  <2>1. RowInv(t, r) /\ r <= rows_read[t]
    <3>1. r \in Row(t) /\ r <= rows_read[t]
      BY <1>1, RowType DEF Row, IInv
    <3> QED BY <1>1, <3>1 DEF IInv, Rows
  <2>2. Queued(t, r) = {i \in Places : Carries(work_queue[i], t, r)}
    BY DEF Queued, Places, Carries
  <2>3. \A w \in Holding(t, r) : w \in Writer /\ AtHand(w, t, r)
    BY DEF Holding, AtHand, Carries, Failing
  <2>4. \A i, j \in Queued(t, r) : i = j
    BY <2>1, <2>2 DEF RowInv
  <2>5. \A v, w \in Holding(t, r) : v = w
    BY <2>1, <2>3 DEF RowInv
  <2>6. Holding(t, r) = {} \/ Queued(t, r) = {}
    BY <2>1, <2>2, <2>3 DEF RowInv
  <2>8. Cardinality(Holding(t, r)) + Cardinality(Queued(t, r)) <= 1
    BY <2>4, <2>5, <2>6, AtMostOne
  <2>9. Holding(t, r) = {} /\ Queued(t, r) = {} => stored[t][r] = 1
    BY <1>1, <2>1, <2>2 DEF RowInv
  <2> QED BY <2>8, <2>9
<1>2. IInv => RowsAccounted
  BY <1>1 DEF RowsAccounted
<1> QED BY <1>2, ImportInvariants, PTL

(* import_tables: unless it reports an error or was interrupted, it ends   *)
(* with every row of every file in its table, and each of them counted.    *)
THEOREM ImportComplete == Spec => []CompleteUnlessReported
<1>1. IInv => CompleteUnlessReported
  BY DEF IInv
<1> QED BY <1>1, ImportInvariants, PTL
=============================================================================

------------------------------- MODULE Import -------------------------------
(***************************************************************************)
(* The import tool, _import.py: import_tables() in the main process, one   *)
(* reader process per table (SourceFile.read_to_queue) and a fixed number  *)
(* of writer processes (table_writer).  Readers put batches of rows into a *)
(* bounded queue, writers insert them; a batch that was written in part is *)
(* written again row by row.                                               *)
(*                                                                         *)
(* A row is its position in the file.  A query of RetryQuery is executed   *)
(* once or fails (see RetryQuery); an insert that fails may have written   *)
(* some of its rows.                                                       *)
(***************************************************************************)
EXTENDS Naturals, Sequences, FiniteSets

CONSTANTS
    Table,
    Writer,           \* the writer processes, options.clients of them
    RowCount,         \* rows of the file of each table
    BatchSize,
    QueueSize,        \* max_queue_size: batches that fit into work_queue
    TimingSize,       \* timings that fit into the pipe of timing_queue
    MaxFaults         \* bound: queries and files that fail

ASSUME ImportAssumption ==
    /\ Table # {} /\ IsFiniteSet(Table)
    /\ Writer # {} /\ IsFiniteSet(Writer)
    /\ RowCount \in [Table -> Nat] /\ MaxFaults \in Nat
    /\ {BatchSize, QueueSize, TimingSize} \subseteq Nat \ {0}

VARIABLES
    \* The main process
    main,            \* "setup", "start", "watch", "wait", "stops", "writers", then "done"
    force,           \* options.force: rows that exist are replaced
    keyed,           \* tables whose rows have their primary key in the file
    file_iter,       \* tables no reader has been started for
    readers,         \* tables whose readers have not been reaped
    stops_left,      \* StopIterations still to be appended
    errors,          \* errors taken from error_queue, by table
    result,          \* "none", "success", "errors", "warnings" or "RuntimeError"
    interrupts,      \* signals handled, counted up to 2
    error_torn,      \* the second of them has left a part of an error in its pipe
    \* Shared
    exit_event,
    work_queue,      \* of batches
    timing_queue,    \* the number of timings in the pipe
    error_queue,     \* errors that are in the pipe as a whole
    warning_queue,
    faults,
    \* Readers
    reader,          \* "none", "read", "put", "finish", a place of Failing, or "dead"
    rows_read,
    \* Writers
    writer,          \* "none", "get", "batch", "repair", a place of Failing, or "dead"
    batch,           \* the batch a writer has in hand, or Stop
    next_row,        \* of a batch that is being repaired or has failed
    rows_written,    \* by table
    stored           \* the server: how often each row is in its table

options    == <<force, keyed>>
mainVars   == <<main, options, file_iter, readers, stops_left, errors, result, interrupts,
                error_torn>>
queues     == <<exit_event, work_queue, timing_queue, error_queue, warning_queue, faults>>
readerVars == <<reader, rows_read>>
writerVars == <<writer, batch, next_row, rows_written, stored>>
vars == <<mainVars, queues, readerVars, writerVars>>

Row(t) == 1 .. RowCount[t]
Least(m, n) == IF m < n THEN m ELSE n

(* A batch: the rows first .. last of a table.  Stop is StopIteration().   *)
Batch == {b \in [table : Table, first : Nat \ {0}, last : Nat] :
              b.first <= b.last /\ b.last <= RowCount[b.table]}
Stop  == [table |-> "StopIteration", first |-> 0, last |-> 0]
RowsOf(b) == b.first .. b.last

Init ==
    /\ force \in BOOLEAN /\ keyed \in SUBSET {t \in Table : RowCount[t] > 0}
    /\ main = "setup" /\ file_iter = Table /\ readers = {}
    /\ stops_left = 0 /\ errors = {} /\ result = "none"
    /\ interrupts = 0 /\ error_torn = FALSE
    /\ exit_event = FALSE /\ work_queue = <<>> /\ timing_queue = 0
    /\ error_queue = {} /\ warning_queue = {} /\ faults = 0
    /\ reader = [t \in Table |-> "none"]
    /\ rows_read = [t \in Table |-> 0]
    /\ writer = [w \in Writer |-> "none"]
    /\ batch = [w \in Writer |-> Stop]
    /\ next_row = [w \in Writer |-> 0]
    /\ rows_written = [t \in Table |-> 0]
    /\ stored = [t \in Table |-> [r \in Row(t) |-> 0]]

-----------------------------------------------------------------------------
(* The end of a process with an exception: it puts an error into           *)
(* error_queue and sets exit_event, in that order.  The queue is a pipe.   *)
(* An error that does not fit, for its traceback or the documents it       *)
(* quotes, is "blocked" with a part of it written, and keeps the lock on   *)
(* the queue, until the main process reads it.                             *)
Failing == {"error", "blocked", "event"}

Blocked ==
    {t \in Table : reader[t] = "blocked"}
    \cup {batch[w].table : w \in {v \in Writer : writer[v] = "blocked"}}
Unblocked(place) == IF place = "blocked" THEN "event" ELSE place

(* A step of that for an error of table t, from a place to the next one.   *)
Report(t, place, next) ==
    \/ /\ place = "error" /\ next \in {"blocked", "event"}
       /\ Blocked = {} /\ ~error_torn
       /\ error_queue' = IF next = "event" THEN error_queue \cup {t} ELSE error_queue
       /\ UNCHANGED exit_event
    \/ /\ place = "event" /\ next = "dead"
       /\ exit_event' = TRUE
       /\ UNCHANGED error_queue

-----------------------------------------------------------------------------
(* import_tables.                                                          *)

(* The checks before the import: databases, existing tables, primary keys. *)
(* The writers are started with the first readers.                         *)
Setup ==
    /\ main = "setup"
    /\ \/ /\ main' = IF exit_event THEN "wait" ELSE "start"
          /\ writer' = [w \in Writer |-> "get"]
          /\ UNCHANGED result
       \/ main' = "done" /\ result' = "RuntimeError" /\ UNCHANGED writer
    /\ UNCHANGED <<options, file_iter, readers, stops_left, errors, interrupts, error_torn, queues,
                   readerVars, batch, next_row, rows_written, stored>>

(* The inner loop, which does not look at exit_event.                      *)
StartReader ==
    /\ main = "start"
    /\ \E t \in file_iter :
          /\ file_iter' = file_iter \ {t}
          /\ readers' = readers \cup {t}
          /\ reader' = [reader EXCEPT ![t] = "read"]
    /\ main' = IF Cardinality(readers') < Cardinality(Writer) THEN "start" ELSE "watch"
    /\ UNCHANGED <<options, stops_left, errors, result, interrupts, error_torn, queues, rows_read,
                   writerVars>>

(* next(file_iter) raises StopIteration.                                   *)
NoMoreReaders ==
    /\ main = "start" /\ file_iter = {}
    /\ main' = "wait"
    /\ UNCHANGED <<options, file_iter, readers, stops_left, errors, result, interrupts, error_torn,
                   queues, readerVars, writerVars>>

(* The outer loop, which does; it goes round while nothing is reaped.      *)
LeaveWatch ==
    /\ main = "watch" /\ (exit_event \/ Cardinality(readers) < Cardinality(Writer))
    /\ main' = IF exit_event THEN "wait" ELSE "start"
    /\ UNCHANGED <<options, file_iter, readers, stops_left, errors, result, interrupts, error_torn,
                   queues, readerVars, writerVars>>

(* drain_queues takes the errors out of their pipe, and the rest of one    *)
(* whose process is blocked.  It does not return from one that is torn.    *)
DrainErrors ==
    /\ ~error_torn
    /\ errors' = errors \cup error_queue \cup Blocked /\ error_queue' = {}
    /\ reader' = [t \in Table |-> Unblocked(reader[t])]
    /\ writer' = [w \in Writer |-> Unblocked(writer[w])]

(* Mutant: the timings are not drained before the end.                     *)
DrainKeepsTimings ==
    /\ main \in {"watch", "wait"} /\ readers # {}
    /\ main = "watch" => Cardinality(readers) = Cardinality(Writer)
    /\ DrainErrors
    /\ work_queue' = IF main = "wait" /\ exit_event THEN <<>> ELSE work_queue
    /\ UNCHANGED <<main, options, file_iter, readers, stops_left, result, interrupts, error_torn,
                   exit_event, timing_queue, warning_queue, faults, rows_read, batch, next_row,
                   rows_written, stored>>

(* drain_queues; when the import is to end, the work queue is emptied too, *)
(* so that no reader stalls on it.                                         *)
Drain ==
    /\ main \in {"watch", "wait"} /\ readers # {}
    /\ main = "watch" => Cardinality(readers) = Cardinality(Writer)
    /\ DrainErrors
    /\ timing_queue' = 0
    /\ work_queue' = IF main = "wait" /\ exit_event THEN <<>> ELSE work_queue
    /\ UNCHANGED <<main, options, file_iter, readers, stops_left, result, interrupts, error_torn,
                   exit_event, warning_queue, faults, rows_read, batch, next_row, rows_written,
                   stored>>

(* Mutant: a reader is given up when join(0.1) has timed out.              *)
ReapEarly ==
    /\ main \in {"watch", "wait"}
    /\ \E t \in readers : readers' = readers \ {t}
    /\ UNCHANGED <<main, options, file_iter, stops_left, errors, result, interrupts, error_torn,
                   queues, readerVars, writerVars>>

Reap ==
    /\ main \in {"watch", "wait"}
    /\ \E t \in readers : reader[t] = "dead" /\ readers' = readers \ {t}
    /\ UNCHANGED <<main, options, file_iter, stops_left, errors, result, interrupts, error_torn,
                   queues, readerVars, writerVars>>

ReadersDone ==
    /\ main = "wait" /\ readers = {}
    /\ main' = "stops" /\ stops_left' = Cardinality(Writer)
    /\ UNCHANGED <<options, file_iter, readers, errors, result, interrupts, error_torn, queues,
                   readerVars, writerVars>>

PutStop ==
    /\ main = "stops" /\ stops_left > 0 /\ Len(work_queue) < QueueSize
    /\ work_queue' = Append(work_queue, Stop)
    /\ stops_left' = stops_left - 1
    /\ UNCHANGED <<main, options, file_iter, readers, errors, result, interrupts, error_torn,
                   exit_event, timing_queue, error_queue, warning_queue, faults, readerVars, writerVars>>

StopsDone ==
    /\ main = "stops" /\ (stops_left = 0 \/ exit_event)
    /\ main' = "writers"
    /\ UNCHANGED <<options, file_iter, readers, stops_left, errors, result, interrupts, error_torn,
                   queues, readerVars, writerVars>>

(* All writers have ended: the queues are drained for the last time, and   *)
(* what they held decides.  interrupt_event is never set.                  *)
Finish ==
    /\ main = "writers" /\ \A w \in Writer : writer[w] = "dead"
    /\ ~error_torn
    /\ main' = "done"
    /\ errors' = errors \cup error_queue /\ error_queue' = {}
    /\ result' = IF errors' # {} THEN "errors"
                 ELSE IF warning_queue # {} THEN "warnings" ELSE "success"
    /\ UNCHANGED <<options, file_iter, readers, stops_left, interrupts, error_torn, exit_event,
                   work_queue, timing_queue, warning_queue, faults, readerVars, writerVars>>

(* utils_common.abort: the first signal asks all processes to end, the     *)
(* second one terminates those that have been started and not reaped.      *)
Interrupt ==
    /\ main # "done" /\ interrupts < 2
    /\ interrupts' = interrupts + 1
    /\ exit_event' = TRUE
    /\ IF interrupts = 0
       THEN UNCHANGED <<error_torn, reader, writer>>
       ELSE /\ error_torn' = (error_torn \/ Blocked # {})
            /\ reader' = [t \in Table |-> IF t \in readers THEN "dead" ELSE reader[t]]
            /\ writer' = [w \in Writer |-> IF writer[w] = "none" THEN "none" ELSE "dead"]
    /\ UNCHANGED <<main, options, file_iter, readers, stops_left, errors, result, work_queue,
                   timing_queue, error_queue, warning_queue, faults, rows_read, batch,
                   next_row, rows_written, stored>>

-----------------------------------------------------------------------------
Fault == faults < MaxFaults /\ faults' = faults + 1

(* read_to_queue and batches.                                              *)
ToRead(t, place) == reader' = [reader EXCEPT ![t] = place]

(* Any exception of a reader: the table cannot be set up, the file is      *)
(* broken in the middle or at its end, a query of restore_indexes fails.   *)
ReaderFails(t) ==
    /\ reader[t] \in {"read", "finish"}
    /\ Fault /\ ToRead(t, "error")
    /\ UNCHANGED <<mainVars, exit_event, work_queue, timing_queue, error_queue, warning_queue,
                   rows_read, writerVars>>

ReaderReports(t) ==
    /\ \E next \in Failing \cup {"dead"} : Report(t, reader[t], next) /\ ToRead(t, next)
    /\ UNCHANGED <<mainVars, work_queue, timing_queue, warning_queue, faults, rows_read,
                   writerVars>>

(* The next batch, or the end of the file; the table is set up before the  *)
(* first one.  The timings of an iteration count as one.                   *)
ReadBatch(t) ==
    /\ reader[t] = "read"
    /\ IF rows_read[t] = RowCount[t]
       THEN ToRead(t, "finish") /\ UNCHANGED timing_queue
       ELSE /\ timing_queue < TimingSize /\ timing_queue' = timing_queue + 1
            /\ ToRead(t, IF exit_event THEN "dead" ELSE "put")
    /\ UNCHANGED <<mainVars, exit_event, work_queue, error_queue, warning_queue, faults,
                   rows_read, writerVars>>

NextBatch(t) ==
    [table |-> t, first |-> rows_read[t] + 1, last |-> Least(rows_read[t] + BatchSize, RowCount[t])]

PutBatch(t) ==
    /\ reader[t] = "put" /\ Len(work_queue) < QueueSize
    /\ work_queue' = Append(work_queue, NextBatch(t))
    /\ rows_read' = [rows_read EXCEPT ![t] = NextBatch(t).last]
    /\ ToRead(t, "read")
    /\ UNCHANGED <<mainVars, exit_event, timing_queue, error_queue, warning_queue, faults,
                   writerVars>>

(* A put that has timed out is not repeated once the event is set.         *)
GiveUpPut(t) ==
    /\ reader[t] = "put" /\ exit_event
    /\ ToRead(t, "dead")
    /\ UNCHANGED <<mainVars, queues, rows_read, writerVars>>

(* teardown and restore_indexes, which turns a RuntimeError into a warning.*)
FinishFile(t) ==
    /\ reader[t] = "finish"
    /\ ToRead(t, "dead")
    /\ \/ UNCHANGED <<warning_queue, faults>>
       \/ Fault /\ warning_queue' = warning_queue \cup {t}
    /\ UNCHANGED <<mainVars, exit_event, work_queue, timing_queue, error_queue, rows_read,
                   writerVars>>

-----------------------------------------------------------------------------
(* table_writer.                                                           *)
ToWrite(w, place) == writer' = [writer EXCEPT ![w] = place]
NextBatchOr(w) ==
    /\ ToWrite(w, IF exit_event THEN "dead" ELSE "get")
    /\ batch' = [batch EXCEPT ![w] = Stop]

TakeBatch(w) ==
    /\ writer[w] = "get" /\ work_queue # <<>>
    /\ work_queue' = Tail(work_queue)
    /\ ToWrite(w, "batch") /\ batch' = [batch EXCEPT ![w] = Head(work_queue)]
    /\ UNCHANGED <<mainVars, exit_event, timing_queue, error_queue, warning_queue, faults,
                   readerVars, next_row, rows_written, stored>>

LeaveGet(w) ==
    /\ writer[w] = "get" /\ exit_event
    /\ ToWrite(w, "dead")
    /\ UNCHANGED <<mainVars, queues, readerVars, batch, next_row, rows_written, stored>>

(* The server inserts rows of a table: a row with a key is there once.     *)
Stored(t, rows) ==
    stored' = [stored EXCEPT ![t] = [r \in Row(t) |->
                  IF r \notin rows THEN @[r] ELSE IF t \in keyed THEN 1 ELSE @[r] + 1]]

Written(t, n) == rows_written' = [rows_written EXCEPT ![t] = @ + n]

(* The timings of a batch also count as one; the pipe may be full.         *)
PutTiming == timing_queue < TimingSize /\ timing_queue' = timing_queue + 1

Stopped(w) ==
    /\ writer[w] = "batch" /\ batch[w] = Stop
    /\ PutTiming
    /\ ToWrite(w, "dead")
    /\ UNCHANGED <<mainVars, exit_event, work_queue, error_queue, warning_queue, faults,
                   readerVars, batch, next_row, rows_written, stored>>

(* Mutant: the rows are counted before the result has been looked at.      *)
InsertCountsFirst(w) ==
    /\ writer[w] = "batch" /\ batch[w] # Stop
    /\ PutTiming
    /\ LET b == batch[w] IN
       /\ Written(b.table, Cardinality(RowsOf(b)))
       /\ \/ /\ Stored(b.table, RowsOf(b))
             /\ NextBatchOr(w)
             /\ UNCHANGED <<faults, next_row>>
          \/ /\ Fault
             /\ \E rows \in SUBSET RowsOf(b) : Stored(b.table, rows)
             /\ \E place \in {"error", "repair"} : ToWrite(w, place)
             /\ next_row' = [next_row EXCEPT ![w] = b.first]
             /\ UNCHANGED batch
    /\ UNCHANGED <<mainVars, exit_event, work_queue, error_queue, warning_queue, readerVars>>

(* Mutant: a ReqlError of the insert is forgotten.                         *)
InsertForgets(w) ==
    /\ writer[w] = "batch" /\ batch[w] # Stop
    /\ PutTiming
    /\ LET b == batch[w] IN
       \/ /\ Stored(b.table, RowsOf(b))
          /\ Written(b.table, Cardinality(RowsOf(b)))
          /\ NextBatchOr(w)
          /\ UNCHANGED <<faults, next_row>>
       \/ /\ Fault
          /\ \E rows \in SUBSET RowsOf(b) : Stored(b.table, rows)
          /\ NextBatchOr(w) \/ (ToWrite(w, "error") /\ UNCHANGED batch)
          /\ next_row' = [next_row EXCEPT ![w] = b.first]
          /\ UNCHANGED rows_written
    /\ UNCHANGED <<mainVars, exit_event, work_queue, error_queue, warning_queue, readerVars>>

(* The whole batch is inserted.  A connection that is lost ends in a       *)
(* RuntimeError of RetryQuery, errors of single rows in one of the writer, *)
(* which it reports; any ReqlError makes it repair the batch.              *)
Insert(w) ==
    /\ writer[w] = "batch" /\ batch[w] # Stop
    /\ PutTiming
    /\ LET b == batch[w] IN
       \/ /\ Stored(b.table, RowsOf(b))
          /\ Written(b.table, Cardinality(RowsOf(b)))
          /\ NextBatchOr(w)
          /\ UNCHANGED <<faults, next_row>>
       \/ /\ Fault
          /\ \E rows \in SUBSET RowsOf(b) : Stored(b.table, rows)
          /\ \E place \in {"error", "repair"} : ToWrite(w, place)
          /\ next_row' = [next_row EXCEPT ![w] = b.first]
          /\ UNCHANGED <<batch, rows_written>>
    /\ UNCHANGED <<mainVars, exit_event, work_queue, error_queue, warning_queue, readerVars>>

(* Mutant: rows without a primary key are written again, too.              *)
RepairRowUnkeyed(w) ==
    /\ writer[w] = "repair"
    /\ LET t == batch[w].table
           r == next_row[w]
       IN /\ force \/ stored[t][r] = 0 \/ t \notin keyed
          /\ Stored(t, {r}) /\ Written(t, 1)
          /\ next_row' = [next_row EXCEPT ![w] = @ + 1]
          /\ IF r = batch[w].last THEN NextBatchOr(w) ELSE UNCHANGED <<writer, batch>>
    /\ UNCHANGED <<mainVars, queues, readerVars>>

(* One row of the repair.  With --force it is replaced; without, it is     *)
(* inserted unless it is there already.                                    *)
RepairRow(w) ==
    /\ writer[w] = "repair"
    /\ LET t == batch[w].table
           r == next_row[w]
       IN /\ t \in keyed
          /\ force \/ stored[t][r] = 0
          /\ Stored(t, {r}) /\ Written(t, 1)
          /\ next_row' = [next_row EXCEPT ![w] = @ + 1]
          /\ IF r = batch[w].last THEN NextBatchOr(w) ELSE UNCHANGED <<writer, batch>>
    /\ UNCHANGED <<mainVars, queues, readerVars>>

(* The repair ends with an exception, to be reported: the rows have no     *)
(* primary key; or the row is there, when res is None and res["errors"]    *)
(* raises TypeError; or a query fails again.                               *)
RepairFails(w) ==
    /\ writer[w] = "repair"
    /\ LET t == batch[w].table
           r == next_row[w]
       IN /\ \/ /\ t \notin keyed \/ (~force /\ stored[t][r] > 0)
                /\ UNCHANGED <<faults, stored>>
             \/ /\ t \in keyed
                /\ Fault
                /\ \/ Stored(t, {r}) /\ (force \/ stored[t][r] = 0)
                   \/ UNCHANGED stored
    /\ ToWrite(w, "error")
    /\ UNCHANGED <<mainVars, exit_event, work_queue, timing_queue, error_queue, warning_queue,
                   readerVars, batch, next_row, rows_written>>

WriterReports(w) ==
    /\ \E next \in Failing \cup {"dead"} :
          Report(batch[w].table, writer[w], next) /\ ToWrite(w, next)
    /\ UNCHANGED <<mainVars, work_queue, timing_queue, warning_queue, faults, readerVars, batch,
                   next_row, rows_written, stored>>

-----------------------------------------------------------------------------
MainStep ==
    \/ Setup \/ StartReader \/ NoMoreReaders \/ LeaveWatch
    \/ ReadersDone \/ PutStop \/ StopsDone \/ Finish \/ Drain \/ Reap
ReaderStep(t) ==
    \/ ReaderFails(t) \/ ReadBatch(t) \/ PutBatch(t) \/ GiveUpPut(t)
    \/ FinishFile(t) \/ ReaderReports(t)
WriterStep(w) ==
    \/ TakeBatch(w) \/ LeaveGet(w) \/ Stopped(w) \/ Insert(w) \/ RepairRow(w) \/ RepairFails(w)
    \/ WriterReports(w)

Next ==
    \/ MainStep \/ Interrupt
    \/ \E t \in Table : ReaderStep(t)
    \/ \E w \in Writer : WriterStep(w)

Spec == Init /\ [][Next]_vars

(* Every process is scheduled.                                             *)
FairSpec ==
    /\ Spec
    /\ WF_vars(MainStep)
    /\ \A t \in Table : WF_vars(ReaderStep(t))
    /\ \A w \in Writer : WF_vars(WriterStep(w))

-----------------------------------------------------------------------------
TypeOK ==
    /\ main \in {"setup", "start", "watch", "wait", "stops", "writers", "done"}
    /\ force \in BOOLEAN /\ exit_event \in BOOLEAN /\ keyed \subseteq Table
    /\ {file_iter, readers, errors, error_queue, warning_queue} \subseteq SUBSET Table
    /\ file_iter \cap readers = {} /\ Cardinality(readers) <= Cardinality(Writer)
    /\ stops_left \in 0 .. Cardinality(Writer) /\ interrupts \in 0 .. 2 /\ error_torn \in BOOLEAN
    /\ result \in {"none", "success", "errors", "warnings", "RuntimeError"}
    /\ work_queue \in Seq(Batch \cup {Stop}) /\ Len(work_queue) <= QueueSize
    /\ timing_queue \in 0 .. TimingSize /\ faults \in 0 .. MaxFaults
    /\ reader \in [Table -> {"none", "read", "put", "finish", "dead"} \cup Failing]
    /\ rows_read \in [Table -> Nat]
    /\ writer \in [Writer -> {"none", "get", "batch", "repair", "dead"} \cup Failing]
    /\ batch \in [Writer -> Batch \cup {Stop}]
    /\ next_row \in [Writer -> Nat]
    /\ rows_written \in [Table -> Nat]
    /\ \A t \in Table : rows_read[t] <= RowCount[t] /\ stored[t] \in [Row(t) -> Nat]

(* _import.py:1128: the repair of a batch guarantees the "absence of       *)
(* duplicates": no row is in its table twice, key or no key.               *)
NoDuplicate == \A t \in Table : \A r \in Row(t) : stored[t][r] <= 1

(* Until the import is told to end, every row that was read is in exactly  *)
(* one place: the queue, the hands of one writer, or its table.            *)
Holding(t, r) ==
    {w \in Writer : /\ batch[w].table = t /\ r \in RowsOf(batch[w])
                    /\ \/ writer[w] = "batch"
                       \/ writer[w] \in {"repair"} \cup Failing /\ r >= next_row[w]}
Queued(t, r) ==
    {i \in 1 .. Len(work_queue) : work_queue[i].table = t /\ r \in RowsOf(work_queue[i])}

RowsAccounted ==
    ~exit_event => \A t \in Table : \A r \in 1 .. rows_read[t] :
        /\ Cardinality(Holding(t, r)) + Cardinality(Queued(t, r)) <= 1
        /\ Holding(t, r) = {} /\ Queued(t, r) = {} => stored[t][r] = 1

(* An import that ends without an error and without a Ctrl-C has every row *)
(* of every file in the tables, and has counted each of them.              *)
CompleteUnlessReported ==
    result \in {"success", "warnings"} /\ interrupts = 0 => \A t \in Table :
        /\ rows_written[t] = RowCount[t]
        /\ \A r \in Row(t) : stored[t][r] = 1

(* The tables never have fewer rows than are reported as written.          *)
WrittenIsStored ==
    \A t \in Table : rows_written[t] <= Cardinality({r \in Row(t) : stored[t][r] > 0})

(* When the import ends no process is left that could still write, and no  *)
(* error is left unread.                                                   *)
NothingLeft ==
    main = "done" => /\ error_queue = {}
                     /\ \A t \in Table : reader[t] \in {"none", "dead"}
                     /\ \A w \in Writer : writer[w] \in {"none", "dead"}

(* The work queue keeps to its bound, the report counts no row that is not *)
(* stored, and the import leaves nothing behind.                           *)
ImportInv == TypeOK /\ WrittenIsStored /\ NothingLeft

(* The import ends, whatever fails; unless the timings of the last batches *)
(* have filled their pipe, or an error of a writer does not fit into its   *)
(* own: nobody reads either of them while the writers are waited for; or   *)
(* unless a process has been killed while its error was blocked.           *)
Stalled ==
    \/ main \in {"stops", "writers"} /\ (timing_queue = TimingSize \/ Blocked # {})
    \/ error_torn

ImportEnds == <>(main = "done") \/ <>[]Stalled
=============================================================================

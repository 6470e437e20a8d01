# A TLA+ model of the RethinkDB Python driver

This directory keeps formal models of `rethinkdb-python` beside its code: TLA+
modules, TLC configurations that check them on small instances, and proofs that
TLAPS checks for every value of the constants. `PROJECT.json` ties them to the
code: `map` gives, for each definition, the source lines it stands for.

    tlc -workers 2 -config MCNetCursors.cfg MCNet     # check one configuration
    tlapm NetProofs.tla                               # check a module's proofs

Line numbers are those of files below `src/rethinkdb/`.


## 1. The system

The library has three layers.

* **Terms** (`ast.py`, `query.py`): method calls build a tree that is encoded as
  JSON. Pure.
* **The driver** (`net.py`, `handshake.py`, and one variant per event loop): a
  `Connection` owns at most one `ConnectionInstance`, which owns a socket, a
  token counter and the cache of cursors. A query takes the next token; the
  answer carries it back. A stream query yields a `Cursor`, which requests its
  next batch with CONTINUE and is ended with STOP, on the same token.
* **The tools** (`_export.py`, `_import.py`, `_index_rebuild.py`, `_dump.py`,
  `_restore.py`): programs of several processes and threads over the blocking
  driver, all using `utils_common.RetryQuery`.

| Component | State | Operations | What is hard | What makes it correct | Module |
|---|---|---|---|---|---|
| Connection, instance, cursors (`net.py`) | `_instance`, `_next_token`, `_cursor_cache`, `_closing`, socket; per cursor `items`, `outstanding_requests`, `threshold`, `error` | `run`, noreply `run`, `noreply_wait`, `server`, `next`, `cursor.close`, `close`, `reconnect` | answers of several queries interleave on one socket; prefetching; a blocked call may be interrupted anywhere; cursors outlive their instance | every answer has an owner, requests are counted exactly, rows are neither lost nor repeated, old cursors cannot touch a new instance, calls end | `Net`, `ResultStream` |
| Response framing (`net.py` 448-487, 590-610) | `_read_buffer`, `_header_in_progress`, mode of the socket | `recvall`, `_read_response` | chunks of any size; a timeout between any two bytes, then a second call | no byte lost or read twice, frames aligned, deadlines | `Framing` |
| Handshake (`handshake.py`, `SocketWrapper.__init__`) | `_state`, nonce, expected signature, deadline | `next_message`, `reset`, the driver loop | one object serves all attempts; two responses to the first request; error codes | mutual authentication for this connection; failure closes the socket; ends | `Handshake` |
| `RetryQuery` (`utils_common.py` 43-147) | connection cache per process and thread | `conn()`, `__call__` | copied by `fork`, shared by threads; which failures may be repeated | connections are not shared; nothing executed twice | `RetryQuery` |
| Export (`_export.py`) | task queues, error queue, two events, process list, files | `run_clients`, `export_table`, the writers | processes and bounded pipes; resuming a table after a lost connection; Ctrl-C | files are exact prefixes; a loss is reported; everything ends | `Export` |
| asyncio driver (`asyncio_net/`) | as `net.py`, plus `_user_queries`, `new_response`, reader task, scheduled CONTINUEs | as `net.py`, for several tasks, with cancellation | every `await` lets other tasks change the connection; the reader is a task that may die | as above, and every waiter has something to wait for | `Asyncio`, `ResultStream` |
| trio, Tornado, gevent drivers (`trio_net/`, `tornado_net/`, `gevent_net/`) | as asyncio; trio has a nursery and `_closed` | `connect`, `run`, `next`, `fetch_next`, `cursor.close`, `close`, the reader | every await, switch or checkpoint; the reader may call `close()` itself | as asyncio; no stream is left open | `EventLoop`, `ResultStream` |
| Twisted driver (`twisted_net/`) | parser state, Deferreds of queries, items and `fetch_next`, a timer | the same, with `dataReceived`, `connectionLost`, `_handleHandshakeTimeout` | callbacks run inside other steps; a Deferred fires once only | as asyncio; every Deferred fires | `EventLoop`, `ResultStream` |
| trio's pool (`net_trio.py` 473-524) | `_connections`, `_lent_out`, `_closed` | `acquire`, `release`, `close` | awaits inside each of them, cancellation, idle connections that die | no connection has two owners, is lost or outlives the pool | `TrioPool` |
| Import (`_import.py`) | work queue, error, warning and timing queues, `exit_event`, rows read and written | `import_tables`, the readers, `table_writer`, `abort` | bounded queues between processes; a batch that was written in part is repaired row by row; errors and Ctrl-C from anywhere | no row lost without an error, none written twice; nothing left running; ends | `Import` |
| Files of a table (writers of `_export.py`, `JsonSourceFile` and `CsvSourceFile` of `_import.py`) | buffer, position, buffer size, `found_first` | the writers; `fill_buffer`, `get_line`, `setup_file`, `teardown` | a row may be cut anywhere by the end of the buffer, and a file anywhere | what was written is read; an array cut short is not taken for complete | `TableFile` |
| Export directory, dump, restore (`_export.run`, `_dump.py`, `_restore.py`, `parse_sources`) | which files are in a directory or an archive | choice of tables, pack, unpack, choice of sources | an error, Ctrl-C or crash at any file | the tables asked for, but for those the export lost in silence, each with its info file; or an error | `Archive` |
| Index rebuild (`_index_rebuild.py`) | temporary indexes on the server, lists of indexes to build and in progress | list, create, poll, rename | a crash between any two steps; owners drop indexes meanwhile | no index is lost or changed; success means that all is current; ends | `IndexRebuild` |
| Terms, errors, docs, option parsing, logging, backports, generator | none that changes over time | | | | not modelled (section 8) |

How they interact: `Handshake` is what `Connection` does before the state that
`Net` starts in; `Framing` is what `Net` abstracts into "one response is read";
`Asyncio` and `EventLoop` replace `Net` for event loops and share its
abstract specification; `TrioPool` lends out the connections of `EventLoop`;
`RetryQuery` sits between `Net` and the tools: all it uses of the driver is that a
query either answers or raises. Every tool query goes through it, which `Export`,
`Import` and `IndexRebuild` take as a step that is executed once or fails, as
`RetryQuery` shows (`ExecutedOnce`). `Export` writes and `Import` reads the files of
`TableFile`; `Archive` is how these files get from the one to the other.


## 2. The modules

**`ResultStream`** is the abstract specification of a cursor: no tokens, no
requests, no connection. The server's stream grows (`produced`); rows reach the
client as a gapless prefix (`available`) and are handed out one by one
(`delivered`); a stream is `complete` only when all of it has arrived; a
complete, closed or failed cursor receives nothing more, but hands out what it
has. `Net`, `Asyncio` and `EventLoop` are shown to implement it
(`ImplementsResultStream`, an `INSTANCE ... WITH` and a `PROPERTY` in the cfg): an
application sees the same stream with each of the six drivers.

**`Net`**: the blocking driver with one user thread, since a `Connection` may
not be shared. A call runs to the point where it blocks in `recvall`; the next
step is chosen by the server, the network, the clock or a Ctrl-C.

| Code | Model |
|---|---|
| `Connection._instance`, `_next_token`, `ConnectionInstance._closing`, `_cursor_cache` | `instance` (0: `None`), `next_token`, `closing`, `cached` |
| `SocketWrapper._socket` and its mode | `sock`, `blocking` |
| `Cursor.items`, `outstanding_requests`, `threshold`, `error` | functions over `Cursor == Gen \X Token` (instance, token) |
| the blocked call | `call` |
| the server: requests received and not answered, rows sent, last row sent | `awaiting`, `sent`, `done` (external) |
| `_start`, `noreply_wait`, `server`, `_close`, `reconnect` | `Start`, `StartNoreply`, `NoreplyWaitOrServer`, `CloseCall`, `CloseDetached`, `ReconnectDetached`, `Connect` |
| `Cursor.next`, `_get_next`, `_maybe_fetch_batch`, `_extend_internal`, `close` | `NextCall`, `GetNextItem`, `GetNextError`, `GetNextRead`, `ExtendInternal`, `CursorClose` |
| the dispatch of `_read_response`, by the token of the response and `_cursor_cache` (602-615) | `ForCursor`, `ForCall`, `ForNobody` |
| the server: which answer may come | `MayArrive`, `MayAnswer` (external) |
| the loop of `_read_response` | `ReadCursorFrame`, `ReadStream`, `ReadValue`, `ReadWaitComplete`, `ReadServerInfo`, `CloseCompletes`, `SkipWhileClosing`, `UnexpectedResponse`, `ReadTimeout`, `ConnectionLost`, `KeyboardInterrupt` |

**`Framing`** goes one level below: a byte is its position in the stream, so a
frame put together from wrong bytes is visibly wrong. `RecvChunk` takes any number
of the bytes that have arrived; `RecvallTimeout`, `RecvallWouldBlock` and
`RecvallFails` are the three ways out of `recvall` that leave bytes in `_read_buffer`
or close the socket. `Framing` shares no name with `Handshake`, the other half of
`SocketWrapper`, so that one module, `SocketProofs`, can extend both.

**`Handshake`** is the coroutine-like state machine `next_message` and the loop of
the `SocketWrapper` constructor. Cryptography is symbolic (a proof is the record of
what went into it): that HMAC and PBKDF2 are unforgeable is assumed. The server
(external) may send what it likes but signs with the password it has stored.

**`RetryQuery`**: actors are threads of control; `pid` says which process each
runs in, and `Fork` copies the cache while `StartThread` starts with an empty
one, as the thread-local cache keyed by `os.getpid()` does. A connection may die at any time.

**`Export`**: one process per table, one writer per process, a bounded pipe
between them, and the main loop. `MainStep`, `ClientStep` and `WriterStep` are
the program counters of the three; `Interrupt` is Ctrl-C once or twice.

**`Asyncio`**: a step runs from one suspending `await` to the next. Per instance
there is a reader (`ReadResponse`), per cursor a set of scheduled CONTINUEs
(`conts`), because `asyncio.ensure_future` runs `_continue` later. `task` holds
what each user task awaits: a future of `_user_queries` (`run`, `flush`), a
cursor's `new_response` (`wait`), the end of `close()` or of the handshake.
`Cancel` is a task cancelled while it awaits a query.

**`EventLoop`**: the other four drivers in one module, because they are four
rewrites of one class; `driver` says whose code runs, is chosen in `Init` and never
changes. A step runs from one point where other tasks may run to the next: an
await or a checkpoint (trio), a `yield` (Tornado, Twisted), a blocking call (gevent).

| Code | Model |
|---|---|
| `Connection._instance`, `_next_token`, `_closing`, trio's `_closed`, stream or transport, reader, handshake timer | `conn` (a record) |
| `_user_queries`, `_cursor_cache`, `outstanding_requests`, `threshold`, `items`, `error`, Twisted's `waiting` and `CursorItems` | `queries`, `cached`, `cursor` |
| CONTINUEs that trio starts in its nursery | `conts` |
| `connect`, the handshake, Twisted's `_handleHandshakeTimeout` | `ConnectCall`, `OpenStream`, `HandshakeDone`, `HandshakeFails`, `TimerFires`, `HandshakeLate` |
| `run_query` | `Run`, `Send`, `Register`: trio registers the query after the write, the others before it |
| `next`, `fetch_next`, `_get_next`, `CursorItems.get` | `NextCall`, `NextItem`, `NextError`, `NextWait`, `TwistedNext`, `TakeRow`, `NextTimeout` |
| `_continue`, `_maybe_fetch_batch`, `Cursor.close` | `Fetch`, `ContinueRuns`, `CursorClose` |
| `close` of the instance | `Close`, `Tell` (what cursors and queries are told), `CloseStream`, `Shut` |
| the reader | `ReadBatch`, `ReadValue`, `ReadStream`, `SkipWhileClosing`, `UnexpectedResponse`, `ReadNothing`, `ReadEnd`, `ConnectionLost` |
| a task or greenlet that is cancelled or killed | `Cancel` |
| the server and the network | `sent`, `done`, `awaiting`, `link`, `Drop` (external) |

**`TrioPool`**: one step per method of the pool, from await to await. A connection
is a state the pool can tell from others, and the ways in which its `close()` may end
as `EventLoop` has them (`Begins`, `Closes`, `Breaks`).

**`Import`**: the main process (`main` is its place in `import_tables`), a reader
per table, a writer per client. `work_queue` is the manager's bounded queue,
`timing_queue` counts what is in its pipe. `error_queue` is a pipe as well: an error
either fits, or its process is `"blocked"` in the middle of the `put`, with the lock
of the queue, until the main process reads. `exit_event` is set only after that.

| Code | Model |
|---|---|
| the checks before the import; writers are started | `Setup` |
| the two loops that start readers (1387-1417) | `StartReader`, `NoMoreReaders`, `LeaveWatch` |
| `drain_queues`, and the emptying of the work queue (1424-1430) | `DrainErrors`, `Drain` |
| `is_alive` and removal of readers | `Reap` |
| the StopIterations, the wait for the writers, the report | `ReadersDone`, `PutStop`, `StopsDone`, `Finish` |
| `read_to_queue` over `batches` | `ReadBatch`, `PutBatch`, `GiveUpPut`, `FinishFile`, `ReaderFails` |
| `table_writer` | `TakeBatch`, `LeaveGet`, `Stopped`, `Insert`; the repair (1129-1181): `RepairRow`, `RepairFails` |
| the `except` of both: the error, then the event (480-481, 1186-1187) | `Report`, `ReaderReports`, `WriterReports` |
| `utils_common.abort` | `Interrupt` |
| the server: which rows are in the tables | `stored` (external) |

**`IndexRebuild`**: one program counter, the lists `to_build` and `in_progress`,
and the server's indexes under their own and their temporary names. An index is
known by what it computes, so one that was replaced by something else shows.
`RunDies` may follow any step, and `Run` starts the tool again. Its state machine
(`RebuildInit`, `RebuildNext`, `RebuildSpec`) shares no name with that of `RetryQuery`,
on which every tool rests, so that one module, `ToolProofs`, can extend both.

**`TableFile`** and **`Archive`** have no state: they are algorithms, translated to
functions of a file (or of a server's tables and the place where a tool stops), with what
these should return. `JsonWritten` and `CsvWritten` are the writers of the export;
`JsonRead` runs `SetupFile`, `GetLine`, `FillBuffer` and `Teardown` over a text
that is a sequence of characters, with the buffer's position, size and doubling;
`CsvRead` is its sibling. `ExportRun`, `Dump`, `Restore` and `Sources` are the tools
around `Export` and `Import`, over sets and sequences of files. `MCImport` and
`MCExport` evaluate them for all inputs in their bounds once, in the state where an
import or an export begins (`RowsFound`, `TablesFound`).

**`NetProofs`, `SocketProofs`, `AsyncioProofs`, `EventLoopProofs`, `ToolProofs`,
`ExportProofs`, `ImportProofs`, `TrioPoolProofs`** hold theorems (section 7), each
about the module of its name; `SocketProofs` is about `Handshake` and `Framing`,
`ToolProofs` about `RetryQuery` and `IndexRebuild`.
The `MC*` modules add symmetry sets, inputs and constants that only TLC needs.


## 3. The runs

| Run | Configuration | What it shows |
|---|---|---|
| `net_cursors` | `MCNetCursors` | one instance, two queries (two streams of up to three rows, or one beside a noreply query or another call): no answer without an owner (`NoUnexpectedResponse`), exact counting (`RequestsAccounted`), no row lost (`NoRowLost`), a blocked `next` has a request in flight (`WaiterHasRequest`), `noreply_wait` and `close` take no answer to a cursor for that of their own NOREPLY_WAIT, so that a normal return follows all noreply queries (`FlushedMeansExecuted`) |
| `net_reconnect` | `MCNetReconnect` | two instances: cursors of a replaced one are inert (`StaleCursorInert`), the refinement of `ResultStream` (rows reach the application in order, none twice, across reconnects), every blocked call ends (`CallReturns`) |
| `framing` | `MCFraming` | frames cut at every byte, with timeouts, would-block and resets between: no byte is lost or read twice, each frame is made of its own bytes (`NoByteLost`, `FramesIntact` in `FramingInv`); a wait in which nothing arrives ends at its deadline (`SilenceTimesOut`) |
| `handshake` | `MCHandshake` | two attempts with one handshake object, right and wrong passwords, any server: `Authenticated`, `HonestServerConnects` (no failure without a fault), requests in order and no socket left by a failure (`HandshakeInv`), `AttemptEnds` |
| `retry` | `MCRetryQuery` | three actors: no connection is shared (`NoSharedConnection`), no query executed twice (`ExecutedOnce`) |
| `export` | `MCExport` | two tables and two clients: `FileFaithful`, `LossReported`, no process left at the end (`ExportInv`), and `ExportEnds`; what dump makes of the files, stopped anywhere or not, is restored as the tables that were asked for, less those that the export has lost in silence, none without its info file (`TablesFound`) |
| `asyncio` | `MCAsyncio` | two tasks, a stream of up to two rows, two faults anywhere: ownership and counting of requests although CONTINUEs are sent late (`AsyncioInv`), the refinement of `ResultStream`, and `CallEnds`: each call ends except in the three ways `Abandoned` names |
| `asyncio_reconnect` | `MCAsyncioReconnect` | two tasks that query, close and reconnect at once: no CONTINUE goes to another instance than its cursor's once that one is closed (`ContinuesOwnStream`) |
| `import` | `MCImport` | two readers, two writers, a query or a file that fails anywhere, errors that do not fit into their pipe, two Ctrl-C: the repair writes no row twice (`NoDuplicate`); until the end is asked for, a row that was read is in the queue, in the hands of one writer or in its table (`RowsAccounted`); a success without Ctrl-C has stored and counted every row (`CompleteUnlessReported`); no row is counted that is not stored, no process or error is left (`ImportInv`); the import ends but in the ways `Stalled` names (`ImportEnds`); what the readers take from a file is what the writers put there; a JSON array cut off anywhere is not taken for complete, and from other files come just the rows before the cut, and at most one CSV row whose last cell is cut (`RowsFound`) |
| `event_loops` | `MCEventLoop` | each of the four drivers with two tasks, from `connect()` to `close()`, one fault anywhere: ownership and counting of requests, no stream left open (`LoopInv`), the refinement of `ResultStream`, and `CallEnds`: each call ends except in the ways `Abandoned` names |
| `trio_pool` | `MCTrioPool` | two tasks that acquire, use, release and close, with connections that die and tasks that are cancelled anywhere: one owner each, none lost while open (`PoolInv`), none open after `close()` but late ones (`ClosedMeansClosed`), and `PoolCallEnds` |
| `index_rebuild` | `MCIndexRebuild` | two runs over three indexes, each may die anywhere: an index is never lost (`IndexSurvives`), success means that all is current (`SuccessMeansCurrent`), and `RunEnds` |

Each `...Inv` is a conjunction of named parts: the module's type invariant with
the invariants that its proof needs or will need beside it (`FramesIntact` in
`FramingInv`, `RequestsInOrder` and `FailureClosesSocket` in `HandshakeInv`,
`NoProcessLeft` in `ExportInv`, `WrittenIsStored` and `NothingLeft` in `ImportInv`,
`RequestsAccounted` in `AsyncioInv` and `LoopInv`, `OneOwner` in `PoolInv`). The
inductive `NetInv`, `RetryInv` and `RebuildInv` are proved (section 7) and no
longer checked by a run; the parts that say something to a reader are.

Every property of a passing run comes with a mutant in `PROJECT.json`: a
plausible bug in one definition (a forgotten uncount, a state not reset, a stale
check) that makes TLC find the property violated under the same configuration.
The mutated operators stand beside the definitions they change and are commented
as such.

Deadlock is checked in the `net` and `retry` runs. It is off where the system
may stop: the tools terminate, the tasks of an event loop may all be
abandoned, and in `framing` and `handshake` the bounds end the last call or
attempt; there `ExportEnds`, `ImportEnds`, `RunEnds`, `CallEnds`, `SilenceTimesOut` and
`AttemptEnds` say what must end.


## 4. Bounds

Bounds are constants named `Max...`; each occurs only in a guard of the step it
limits, and none in a property.

* **`MaxGen`** (instances of a connection): 2 is the least in which a cursor can be
  stale. What happens to an instance does not depend on how many came before, so
  a third adds nothing in `Net`. In `Asyncio` a third would matter for one case:
  two overlapping `reconnect()` calls can replace an instance that is open, and
  `ContinuesOwnStream` excepts such a cursor.
* **`MaxToken`** (tokens per instance; the last is kept for `close()`, so it is also
  the number of calls that take one): 2 in `net_cursors`. That is two streams whose
  answers interleave on one socket, or one stream beside a plain query, a noreply query,
  `noreply_wait()` or `server()`, or a noreply query and `noreply_wait()`; and in each case
  `close()`, whose NOREPLY_WAIT meets the answers of the others. A stream beside *two* other
  queries is not among them. 1 in `net_reconnect` and in both asyncio runs: each
  instance has one query of any kind and its `close()`. A stale cursor needs no
  more, as the query of the next instance has the token of the old one; and in
  asyncio two tasks then meet in one cursor and in `close()`, but no second
  query is under way beside the stream. More queries at once are the part of
  `net_cursors`, of `event_loops` and, for any number, of the theorems.
* **`MaxRows`** (rows of one stream): 3 lets a stream go through a first batch, a
  prefetched one and a rest; `threshold` doubles from 1 within that. In the
  asyncio runs 2 rows give two batches and one CONTINUE in flight while rows
  remain.
* **`MaxNoreply`** = 1: the property is about none being left.
* **`MaxFaults`** (asyncio: lost links, cancelled queries, stray answers): 2, so a
  cancelled query may be followed by a lost link, and a stray answer by either.
* **`MaxBytes`** 12, **`HeaderLen`** 2, **`BodyLen`** 3 (the code: 12, and what the
  header says): two frames and part of a third; two is the least length that can
  be cut, and header and body differ so that an exchanged length shows.
* **`MaxAttempt`** 2: the second attempt is the first that meets leftovers.
  **`ErrorCode`** 9, 10, 20, 21 are the two sides of both ends of the range
  `10..20` (`handshake.py` 221). **`MaxVersion`** 1: the driver's version 0 in and
  out of the server's range.
* **`Actor`**: three suffice for a child of a child beside a thread;
  **`Times`** 2 is a first try and a repeated one (the code: 5); **`MaxConn`** 2.
* `Export`: **`Table`** 2, **`Clients`** 2, **`RowCount`** 2, **`QueueSize`** 1, **`MaxLost`** 1:
  the pipe is full after one row, a table is resumed once in its middle or at its
  end, and with two clients a second process can fail while the first is waited
  for.
* `Import`: two files, one of three rows and one without any (`[]`); with
  **`BatchSize`** 2 that is a batch that can be written in part and one that
  cannot. **`Writer`** 2: both hold a batch at once. **`QueueSize`** 1: readers
  block on it as soon as a writer is slow. **`TimingSize`** 2: the pipe fills up.
  **`MaxFaults`** 1: a second failure meets a tool that is ending already; two
  in the repair of one batch are left out. There are as many clients as files,
  so that no reader is started after one has been reaped. An error fits into its
  pipe or not, whatever is in it already: one that fits alone may be blocked all the same.
* `EventLoop`: **`Task`** 2, the least that meet each other in a cursor, in `close()` and
  beside the reader. **`MaxToken`** 2 with **`MaxStream`** 1: a stream, a plain query
  and the query of `close()`. **`MaxRows`** 1: a batch, an empty batch and an end,
  so that a `next` may wait, be served, or find the end; counting two batches
  against each other is `net_cursors`' part. **`MaxFaults`** 1: a lost link, a cancelled
  task or a stray answer anywhere; that is 226 000 states for all four drivers, and
  two faults do not finish.
* `TrioPool`: **`Conn`** 3, **`Task`** 2, **`MaxIdle`** 1: there are never more
  connections in the pool than there were tasks at once, so with two tasks the
  deque is full, and `release()` closes, only if it holds one; the third is made after one
  has died, or while the pool is being closed. Longer deques are the proofs' part.
* `TableFile`: **`Docs`**, up to two documents of two to five characters, and the seven
  pairs of **`JsonSizes`** (the code: 128 kB and 128 MB) let a document end at, before and
  behind the end of the buffer, be larger than the first one, fit
  after one or more doublings, or never; each text is cut off at every character.
  **`CsvRows`**: two rows over two fields, each missing, empty or filled; the file is
  cut at every end of a line and in every cell.
* `Archive`: **`Servers`** and **`Filters`** have a database of two tables, tables of
  the same name in two databases, and filters that take all, one or none of them; **`Stops`** stop the
  dump at every file, at its beginning or in its midst, for every order of the files.
  **`Reach`**: of each table the export has written no file, the info file, or both.
* `IndexRebuild`: **`Index`** 3 with **`Concurrent`** 2, so that one has to wait;
  **`MaxRuns`** 2, a run and one after it. The theorems have no such bounds.

What the models leave out on purpose:

* `Asyncio` awaits a query where it is made. A coroutine that is created by
  `_start` and awaited later takes its token and its instance early and sends
  late (`net_asyncio.py` 290); noreply queries, which await nothing, and
  cancellation inside `connect()` and in the last part of `close()` are also left
  out. The component is therefore `partly` modelled.
* `EventLoop` has one connection from `connect()` to the end of `close()`;
  `reconnect()`, which is the two in sequence for a new instance, is checked in
  `Net` and `Asyncio` only. A write does not block, as requests are short; noreply
  queries and TLS are left out.
* `TrioPool` is given connections that come from the pool, once each, to `release`.
* `Export` models JSON and CSV writers as one (`TableFile` tells them apart), and
  starts where `run_clients` does; the check of the output directory comes before.
* `TableFile`: a document is in braces and has no white space in it; quoting is the
  `csv` module's affair. `Archive`: what `tarfile` makes of a torn archive is external,
  either of the two things it does; the check of the paths in it is left out.
* `Import` starts where `import_tables` does; keys within a file are distinct; tables of
  a forced import start without rows of the file. The two timings of an iteration count as one. A
  query and what the client does with its answer are one step. A warning is put in
  one step, because only readers warn, and while there are readers their queues
  are drained. That a process killed by a second Ctrl-C keeps the lock of a queue is left
  out, except for the torn error it leaves behind.
* `IndexRebuild` has one run at a time, and each table is named once.
* Data: a row is its position, a response its type and number of rows.


## 5. Deviations

These are in the models as the code has them; the properties are worded so as to
name them (`Abandoned`, `Hangs`, `Stalled`, `FailedLate`, `NothingLeftOpen`, `late` in
`ClosedMeansClosed`, `error_queue` in `LossReported`), or no sentence of the
repository speaks against them. No run checks a property that the code violates.

**The blocking driver**

* `next(wait=False)` sets the socket non-blocking; the branch for a would-block
  error raises without restoring it (`net.py` 475-477). The next request whose
  `send` would block is taken for a broken connection by `sendall` (505-506), which
  closes it, where `tests/integration/test_cursor.py:71` says that such a timeout
  "should not cause the underlying connection to close" (`blocking` in `Net`).
* `reconnect()` on a connection whose link is dead first closes with
  `noreply_wait=True`, which raises; `_instance` is already `None`, so a second
  call succeeds (`net.py` 693; compare `docs.py:26`).
* `recvall` drops the deadline once the first bytes of a response have come
  (`net.py` 465): the rest may be waited for forever, although 181-182 pass the
  deadline on for each response.

**The tools**

* When `conn()` raises in the first try, `RetryQuery.__call__` notes the error but
  runs the query all the same, with `conn` unbound: the call ends in
  `UnboundLocalError` instead of another try (`utils_common.py` 113, 120).
* `RetryQuery.__call__` sets `test_connection` to false (`utils_common.py` 107) and
  never sets it when the query itself fails, so that all five tries use the one
  dead connection, whatever line 80 says of bad connections. This is also what
  keeps a query from being executed twice: see the mutant of `ExecutedOnce`.
* Export: `export_table` checks the server's version outside its `try` (282); a
  client that fails there reports nothing, its exit code is not looked at, and
  the export succeeds without its table (the state `crashed` in `LossReported`). A dump of
  it then lacks the table, too, and reports success (`TablesFound`).
* Export: an error that arrives after the queue was looked at (`_export.py` 515)
  and before the dead process is filtered out (518) goes unread if it is the
  last; a table is still started after an error was seen (520); a writer that
  fails while closing its file, after it took the exit item, waits for a second
  one that never comes, and its client waits for it (224-225); each client
  counts its indexes twice, once without the lock (298, 313).
* Import: Ctrl-C ends with success, as nobody sets `interrupt_event` (1261, 1517):
  `abort` sets only `exit_event`. `CompleteUnlessReported` therefore excepts it.
* Import: the repair of a batch without `--force` stops at the first row that is
  there already, since `res` is `None` at 1171; the table is then incomplete, with
  an error. A lost connection never gets that far: `RetryQuery` turns it into a
  `RuntimeError`, which 1129 does not catch.
* Import: the writers' last timings are read by nobody (1453-1456), so that with some
  hundred clients the pipe may fill and the import hang (`Stalled`).
* Import: nor does anybody read `error_queue` then. A writer puts its error there before
  it sets `exit_event` (1186-1187); an error larger than the pipe, for its traceback or
  the two documents of a duplicate key (1167-1170), blocks it while the main process puts
  the StopIterations or joins the writers, and the import hangs. A second Ctrl-C kills
  the writer in the middle of its error; `drain_queues` then waits for the rest of it
  (both in `Stalled`).
* Import: a JSON file of single documents that is cut off between two of them, and a CSV
  file that is cut off at the end of a line or in the last cell of one, is imported
  with success, without what stands behind the cut (596-634, 687-704; `JsonFaithful`,
  `CsvFaithful`); so is a CSV file of which only a part of the header is left. Such
  files have nothing at their end that could be missed.
* Import: write hooks are restored only for tables with indexes (424); a JSON file
  of white space makes `setup_file` raise StopIteration inside a generator
  (575-580); the message of 511 needs an attribute that does not exist.
* JSON files: a document is "too large" also if it is up to two characters shorter than
  the largest buffer, since it needs what stands before and behind it
  (`JsonAccepted`; `_import.py` 510).
* CSV files: `--delimiter` of the export has no counterpart in the import, whose
  `csv.reader` always takes the default (670).
* `import -d` ignores `.ndjson` files, which `export --format ndjson` writes (1625). Its check
  for a table with two data files compares a name with sources, so it never fires (1677;
  1599 says "make sure no duplicated tables with different formats").
* Export: after an error the working directory with `_partial_` in its name stays.
* Dump: an error or Ctrl-C while the files are packed closes the archive like a
  complete one (`_dump.py` 226-230); restore takes it without complaint, but for a
  file in whose midst it stopped. A crash leaves the temporary directory as well.
* Index rebuild: `index_list()` returns names, so `index["db"]` raises `TypeError` at
  the first temporary index found (`_index_rebuild.py` 129), where 120 says "wipe out
  any indexes with the TMP_INDEX_PREFIX". Once a run has died between the creation
  of a copy and its rename, every later run over that table fails there, until somebody
  drops the index by hand (`Wipe`; `SuccessMeansCurrent` holds because of it).
* Index rebuild: `-r DB` deletes from a list by a pair and fails with `TypeError`
  (118); an index that its owner drops during its rebuild comes back with the rename
  (233).

**The event loops**

* asyncio: a query whose task was cancelled stays in `_user_queries`; resolving its
  cancelled future raises `InvalidStateError` (320), which 336-338 take for an error
  of the connection and close it for all tasks; compare the comment at 301-302.
* asyncio: `close(noreply_wait=True)` on an instance whose reader has ended, or
  whose connect failed, awaits a future nobody resolves (277, 336-338); an end of
  file right behind a first batch ends the reader with futures unresolved (325,
  against the comment at 302-303); a task waiting on a cursor that another task
  closes is not woken when the connection then goes away (111); overlapping
  `reconnect()` calls replace an open instance without closing it (366); a
  coroutine started late may wait forever, or send on another instance (290).
* trio: `close()` waits for the end of the reader also when the reader calls it, which
  is what the comment at 340-341 warns of (`ReaderStuck`; `net_trio.py` 342). The
  end of the stream is an empty read, after which `_read_exactly` reads again, for
  ever (239-246). A query is registered after it was sent (348-354): its answer may
  come first, and then is "unexpected" or, while the connection closes, skipped.
  `trio.TooSlow` does not exist, so a timeout raises `AttributeError` (108).
* trio and gevent: a `close()` that is cancelled while it waits for its NOREPLY_WAIT
  leaves the stream open; so does a cancelled trio `connect()`, and a cancelled
  `connect()` of Twisted until its handshake timer fires.
* trio's pool: `close()` hangs if an idle connection has died (`Hangs`); an
  `acquire()` that waits for its connection while the pool is closed lends it out all
  the same; a cancelled `release()` or `close()` leaves connections open, and the
  pool usable, as `_closed` is set last (`net_trio.py` 516-524).
* Twisted: `connectionLost` only notes it (`net_twisted.py` 80): queries and waiting
  cursors are never told. A `fetch_next` that timed out leaves its Deferred in
  `waiting`, and calling it again raises `AlreadyCalledError` in `_extend` and in `close()`
  (216-218), which then stops half-way.
* Twisted and Tornado: an error of a CONTINUE that was sent to fetch ahead goes to a
  future or Deferred that nobody looks at.
* gevent: the constructor of a cursor asks for its next batch; if that fails it raises
  in the reader, with the query still registered (`net_gevent.py` 320). The reader has no
  branch for the answer to `server()` (322-325).
* gevent and Twisted: `next()` asks for a batch once, before it waits (`net_gevent.py` 67,
  `net_twisted.py` 265): two tasks on one cursor may both wait when the batch has one
  row, and nobody asks for the next (`NobodyAsks`).
* All: `close()` leaves its own NOREPLY_WAIT unanswered if the link dies
  under it (`ReaderGone`).


## 6. Fairness

Safety runs use `Spec`. Liveness needs:

* `Net`: weak fairness of `GetNext` (the thread goes on running), `Read` and
  `ExecuteNoreply`. `Read` includes the server's answer to a request it has
  received and, on a dead link, the error the socket reports: `SocketWrapper`
  switches TCP keep-alive on (`net.py` 351), so the loss is noticed. Not assumed:
  that the user calls anything, that the link stays up, that a deadline passes.
* `Framing`: the driver runs and the clock ticks; bytes need not arrive.
* `Handshake`: the driver runs, `recv` returns what has arrived or times out, and
  the clock ticks. The server may stay silent.
* `Export`: each process is scheduled; no failure is assumed or excluded.
* `Import`: each process is scheduled, and the main process drains the queues and
  looks at the readers again and again: its steps, `Drain` and `Reap` included, are
  fair as one, which is enough because the loops they stand in go on while there
  are readers. No end of a query is assumed but that it answers or fails, which is the liveness of `Net` and `RetryQuery`.
* `IndexRebuild`: the tool goes on, and the server finishes each index it builds.
  Without the latter a run polls for ever, as it is meant to.
* `Asyncio`: the event loop runs what is ready, each scheduled CONTINUE is sent,
  the server answers on each instance, or its link, which has keep-alive too
  (`net_asyncio.py` 207), is reported dead.
* `EventLoop`: the loop runs each task that is ready (`Resume`), the CONTINUEs of
  trio's nursery and the reader; the server answers what it has received, or the
  loss of the link is reported; Twisted's handshake timer fires. Not assumed: that
  a task calls anything, is cancelled, or that a link is lost or stays.
* `TrioPool`: tasks run on, `make_connection` ends one way or the other, and a
  `close()` ends whose link holds (which is `CallEnds` of `EventLoop`).


## 7. What is proved

For every value of the constants that satisfies the assumptions of the modules:
bounds are natural numbers; tables, writers and indexes are finite sets, tables and
writers not empty ones; a pipe, a queue, a batch and the parts of a frame have room
for at least one item; `Root \in Actor` for `RetryQuery` and `UserPassword \in
Password` for `Handshake`. `TrioPool` has any sets of connections and tasks;
`EventLoop` has any finite set of tasks, since rows in their hands are counted, and
any of the four drivers.

| Theorem | States |
|---|---|
| `NetProofs!TypeCorrect` | `Spec => []TypeOK` |
| `NetProofs!NetInvariant` | `Spec => []NetInv` |
| `NetProofs!StaleCursors` | a cursor that may still send belongs to the current instance |
| `NetProofs!ExpectedResponses` | a server that keeps to the protocol never causes "Unexpected response received." |
| `NetProofs!Accounting` | `outstanding_requests` is the number of answers owed |
| `NetProofs!EveryRowKept` | a cursor has every row the server sent of its stream (`NoRowLost`) |
| `NetProofs!FlushedExecuted` | `noreply_wait()` and `close()` return normally only with the answer to their own NOREPLY_WAIT, when no noreply query is still to be executed |
| `NetProofs!WaiterIsServed` | on a live link, who waits in `next()` waits for an answer the server owes |
| `NetProofs!StreamRefinement` | `Net` implements `ResultStream`: no gap, no repetition, no row after the end |
| `SocketProofs!FramingInvariant` | `FramingSpec => []FramingInv`: frames reach `recv` whole and in order; bytes are forgotten by a dead socket only |
| `SocketProofs!HandshakeInvariant` | `Spec => []HandshakeInv` |
| `SocketProofs!MutualAuthentication` | a connection is made only with a server that knows the password and accepted this attempt's proof |
| `SocketProofs!HonestServer` | with the right password, only a fault makes `connect()` fail |
| `AsyncioProofs!AsyncioCorrect` | `Spec /\ NoOverlap => []AsyncioInv`: answers have owners, requests are counted, an instance and its cursors end together |
| `AsyncioProofs!ContinueGoesHome` | `Spec => ContinuesOwnStream`: no CONTINUE goes to another instance once its own is closed |
| `AsyncioProofs!AsyncioStreams` | `Asyncio` implements `ResultStream` |
| `EventLoopProofs!LoopCorrect` | `Spec => []LoopInv`: in each of the four drivers, answers have owners, requests are counted, `close()` and a failed `connect()` leave no stream open but as `NothingLeftOpen` says |
| `EventLoopProofs!LoopStreams` | `EventLoop` implements `ResultStream`, whichever driver runs |
| `ToolProofs!RetryInvariant` | `Spec => []RetryInv` |
| `ToolProofs!ConnectionsNotShared` | no two threads of control share a connection |
| `ToolProofs!QueriesExecutedOnce` | no query is executed twice |
| `ExportProofs!ExportInvariant` | `Spec => []ExportInv` |
| `ExportProofs!FilesFaithful` | a file and the pipe to its writer hold the rows read so far, once each and in order |
| `ExportProofs!LossesReported` | an export that reports success is complete, up to the deviations of section 5 |
| `ImportProofs!ImportInvariant` | `Spec => []ImportInv` |
| `ImportProofs!NoRowTwice` | no row is in its table twice |
| `ImportProofs!EveryRowAccounted` | until the import is told to end, a row that was read is in the queue, with one writer, or in its table |
| `ImportProofs!ImportComplete` | an import that reports no error and was not interrupted has stored and counted every row |
| `ToolProofs!RebuildInvariant` | `RebuildSpec => []RebuildInv` |
| `ToolProofs!IndexesSurvive` | an index its owner has not dropped is there, unchanged and usable |
| `ToolProofs!SuccessIsComplete` | success leaves no outdated and no temporary index behind |
| `ToolProofs!ConcurrencyBounded` | a run has at most `Concurrent` temporary indexes |
| `TrioPoolProofs!PoolInvariant` | `Spec => []PoolInv`: one owner for each connection, none lost while open, at most `MaxIdle` idle |
| `TrioPoolProofs!CloseCloses` | a closed pool has no open connection but those made while it closed |

**The driver.** None of the safety properties of `Net` is inductive alone. That an
answer has an owner (`NoUnexpectedResponse`) depends on a finished cursor leaving
the cache with its *last* answer, which is `RequestsAccounted`; counting survives
a new query only if the new token has no cursor yet (`TokenInv`), which in turn
fails after a reconnect resets `next_token` unless old cursors cannot send
(`StaleCursorInert`); and closing needs to know which instance is read and that a
closed socket owes nothing (`ControlInv`). So

    NetInv == TypeOK /\ StaleCursorInert /\ NoUnexpectedResponse
                     /\ RequestsAccounted /\ ControlInv /\ TokenInv

`NetProofs` proves `TypeOK` inductive by itself, one lemma per group of actions
(`TypeUserCall`, `TypeGetNext`, `TypeRead`, `TypeDisturbance`), then takes types
before and after the step for granted and proves the five other conjuncts in the
same shape; helpers shared by several calls (`ErrorCursors`, `Connect`,
`SendAndBlock`) have lemmas of their own. Three more invariants and
the refinement rest on `NetInv`:

* `FlushInv`: while `close()` or `reconnect()` waits, its NOREPLY_WAIT's token has one
  answer owed at most; for `noreply_wait()` this is in `TokenInv`. The server keeps that
  answer until the noreply queries have been executed, so nothing that arrives before
  has this token (`ArrivesOwed`); and a response with another token does not end the
  wait (`ForCall`), though it may be one that is skipped while closing (`FlushedStep`).
* `StreamInv` is `NoRowLost`, with the rows a cursor holds following those it has
  handed out without a gap, and a cursor that does not exist having had none.
* `WaitInv`: a live cursor has a request under way, or a threshold above zero, so
  that `next()` sends one before it reads; the cursor a thread is blocked on has a
  request under way. The answer that takes the count to zero is either followed by
  the next CONTINUE or ends the wait.
* `StreamRefinement` goes step by step: it maps `GetNextItem` to `Deliver`,
  `CursorClose` to `Close`, `ErrorCursors` to `Fail`, the reading of a frame to
  `Arrive` or `Miss`, and each other action to a stutter.

**asyncio.** A cursor is open only in the cache of an open instance that is read, a
token is used once, and what a reader finds for a query is the first that its cursor
hears of (`TaskInv`, `TokenInv`, `OpenInv`, `QueryInv`, together `BaseInv`). This holds
whatever calls overlap, and two theorems need no more, with the counting of rows
(`RowsInv`) for the second: `ContinueGoesHome` and `AsyncioStreams`. The counting of
requests needs that only the current instance is open, and that a CONTINUE is for
its cursor's own connection (`InstInv`). Both fail when an open instance is replaced,
which two overlapping calls of `reconnect()` do: TLC shows a counterexample to
`AsyncioInv` with three instances and two tasks that reconnect. `NoOverlap` says that this does not
happen, and is the condition of `AsyncioCorrect`; with the two instances of the runs it
cannot. `CountInv` counts what is on its way to the server: requests
there and CONTINUEs scheduled. While the link is up these are
`outstanding_requests`, and no more than that once it is lost. `WaitInv` is as in
`Net`. The inductive invariant is

    Inv == Typed /\ BaseInv /\ RowsInv /\ InstInv /\ CountInv /\ WaitInv

**The other event loops.** One proof covers the four drivers; it splits on `driver`
only where their code differs. Its first part, `Base`, is about the connection and
what is owed on it, and is inductive by itself:

* `ConnInv`: a place of a task goes with one operation; one task at most is
  connecting; and who has a stream still to close (`StageInv`, `OpenInv`). `NothingLeftOpen`
  is a conjunct.
* `OwnInv`, for each token: a cursor that is open is in the cache, a task about
  to send is the only one with its token (`CacheOf`, `AskOf`), and what the server
  owes, what a task is about to send and what trio's nursery is about to ask add up to
  `outstanding_requests` while nothing has gone wrong, and to no more afterwards
  (`CountOf`). Since a cursor in the cache has at most what was counted, its last answer
  cannot leave another one without an owner.
* `FreshInv`: the next token has neither cursor nor query nor answer, which is why
  a registration never replaces another.

The difficult steps are those in which one driver calls its own `close()` from
inside another handler: a reader that gets an exception while it feeds a cursor tells
every cursor and resumes their tasks, and Twisted does so half-way when a Deferred has
fired before. `Tell` and `Raises` say what they do in all cases, and one lemma about each
serves all steps that may end so.

`RowsInv` adds where a row is: taken by the application, in the queue of its cursor,
or in the hands of a task whose Deferred has been called back with it but that has not
run yet. Their sum never exceeds what was sent, and is equal to it while the cursor is
open and its connection is read. Twisted's `waiting` holds each task that waits for an
item once, and no other (`Lined`); so serving `n` of them moves `n` rows from the queue to
as many tasks (`ServeKeeps`). `RowsMove` says in five ways what any step of any
driver does to rows: it leaves them alone but perhaps fails cursors; a row is handed out; a
cursor is closed; a batch arrives; or it is dropped. `RowsStep` proves that each step does one
of these, which gives both the invariance of `RowsInv` and, as `Fail`, `Deliver`,
`Close`, `Arrive` and `Miss`, the refinement. The bounds in the types of `LoopInv`
are not inductive either: that no queue holds more than `MaxRows` follows from
`RowsInv`, that no more than two answers are owed from `CountOf` (`LoopBounded`).

    Inv == Base /\ RowsInv      Base == Typed /\ ConnInv /\ OwnInv /\ FreshInv

**Framing.** The bytes in hand (header and partial body) are those of one frame:
they lie between the last frame that was delivered and the bytes the socket has
handed out, unless the socket is dead and has nothing more to give (`HeldInv`).
This is inductive because `read_buffer`, though the code tests it, is always empty,
and the bytes of an unfinished read are kept only inside a blocking `recvall`, while
a header that was read stays for the next call (`BufferInv`, `PartInv`).

**The handshake.** That success means authentication needs where in the exchange
each attempt is (`Running`), that the server's acceptance concerns the proof of
this attempt and not of an earlier one with the same `HandshakeV1_0` object
(`OwnProof`), and that only a server that knows the password signs
(`ServerSigns`). That an honest server connects needs that an attempt without a
fault has not left the path (`Faultless`).

**The retry loop.** `RetryInv` adds to the two properties what makes them
inductive: a cache has entries only under pids in use, a thread's or child's is
fresh (`CacheInv`); and what was executed without an answer was sent on a
connection that is dead by now, so a repeated try on it cannot execute again
(`CallInv`). A connection that is not tested between tries keeps a query from
being executed twice.

**The export.** For each table, the file followed by the pipe holds the rows up to
the last one read, with the exit task only at the very end (`Pipe`); this ties the
reader's place, the writer's place and `lastPrimaryKey` of a resumed cursor together.
A table that may be incomplete has been reported, or everything stops (`Whole`).
`MainInv` says which tables are with a client, and that `run_clients` ends only
when no process is left and none is to be started.

**The import.** A row has one place: not read yet, in one batch of the queue, in the
hands of one writer, or in its table, where only a writer that repairs a batch may
have it too (`RowInv`); one that has failed and reports it still has the rest of its
batch in hand. A process that is about to set `exit_event` has put its error
(`Reported`). `NoDuplicate` and `RowsAccounted` are parts of that. That an
import that reports nothing is complete needs the order of the ends: readers have
ended before the StopIterations are put (`Phases`, `ReaderPhases`), these are the
last in the queue (`Lineup`), so a writer stops only behind the last batch; and
`rows_written` counts the rows that are in a table and in nobody's hands (`Counts`).

**The rebuild.** That an index survives needs that its copy computes the same
(`CopiesInv`) and is ready when it is renamed; that success is complete needs that
the temporary indexes are those in progress, and that what is outdated is in one
of the two lists (`ProgressInv`), which holds at the start only because a run with
leftovers ends at once. `ToolProofs` has one lemma for each group of
steps; `FS_AddElement` and `FS_Subset` of the library carry the bound.

**The pool.** That no connection has two owners depends on what each task has in
hand (`InHand`: the connection it is making is no one else's and not yet in the
deque) and on the pool knowing only connections that have been made (`Known`). That
`close()` closes needs that it has scheduled, from its first step on, each
connection that is open and not `late` (`Scheduled`), which holds because nothing
but `Made` opens one. `IInv` is `PoolInv /\ InHand /\ Known /\ Scheduled /\
ClosedMeansClosed`; each action has a lemma, and `PopLeft` says what is left of
the deque after `acquire()`.

Only model-checked:

* All liveness properties, and refinements as far as they need fairness: the prover
  has neither `WF` reasoning nor `ENABLED`.
* `TablesFound` and `RowsFound`: what `TableFile` and `Archive` compute for every
  file is an induction over data, and they use operators that take an operator
  (`SelectSeq`, folds), which the prover cannot instantiate.

No module uses `RECURSIVE`. Where a theorem speaks of a sequence of rows, it is a
function over `1 .. n` (`UpTo` in `FileFaithful`).


## 8. Not modelled, and why

* **Terms and encoding** (`ast.py`, `query.py`, `helpers.py`): a pure translation
  without protocol state. Candidates for operators checked against a reference
  over bounded inputs: the nesting of optional arguments, `_extend` of `bracket`,
  the decoding of pseudotypes.
* **Errors, docs, logging, version, module set-up**: no state; the modules use the
  exceptions' names as outcomes.
* **Option parsing**: input validation without later state. The progress the tools
  print is left out with it.
* **Backports, `convert_protofile.py`**: vendored code, build-time generation.


## 9. The plan

Order, most important behaviour first. The first twelve are done.

1. `Net` with `ResultStream`; 2. `Framing`; 3. `Handshake`; 4. `RetryQuery`;
5. `Export`; 6. `Asyncio`; 7. `Import`; 8. `IndexRebuild`; 9. `TrioPool`;
10. `EventLoop`; 11. `TableFile`; 12. `Archive`.

13. **Terms**: optional arguments, `expr` nesting depth, pseudotypes as operators.
14. `Asyncio`: coroutines that are started later than made, noreply queries.
15. `EventLoop`: a second instance, for a CONTINUE that outlives its own; noreply queries.
16. Two runs of the index rebuild at once.

As modules are added, questions that the same configuration can answer are put
into one run, and a run whose question is settled makes room for a new one.

Every safety property and every refinement that the runs check is proved, but for
the two that section 7 names. What a proof can still gain is width: each of the steps
14 to 16 adds actions to a module with theorems, and asks for its lemmas again.

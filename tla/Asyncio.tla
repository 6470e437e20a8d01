------------------------------ MODULE Asyncio -------------------------------
(***************************************************************************)
(* The asyncio driver, asyncio_net/net_asyncio.py: one Connection used by  *)
(* several tasks of an event loop.  A step runs from one await that        *)
(* suspends to the next.  Every ConnectionInstance has a reader task, and  *)
(* a CONTINUE is sent by a task of its own, which asyncio.ensure_future    *)
(* has scheduled.                                                          *)
(*                                                                         *)
(* A cursor and a query are named by <<instance number, token>>.  As in    *)
(* Net, the server (external) answers every request once, and its answer   *)
(* is decided when it is read.                                             *)
(***************************************************************************)
EXTENDS Integers, FiniteSets

CONSTANTS
    Task,         \* tasks of the application
    MaxGen,       \* bound: ConnectionInstances created
    MaxToken,     \* bound: the last token of an instance (kept for close())
    MaxRows,      \* bound: rows of one result stream
    MaxFaults     \* bound: lost links, cancelled queries, stray responses

ASSUME AsyncioAssumption ==
    /\ Task # {}
    /\ MaxGen \in Nat \ {0} /\ MaxToken \in Nat /\ MaxRows \in Nat /\ MaxFaults \in Nat

VARIABLES
    \* Connection
    instance,     \* _instance: 0 is None
    next_token,   \* _next_token
    gen,          \* instances created
    \* ConnectionInstances
    stream,       \* "none": _streamwriter is None; else has it been closed
    closing,      \* _closing
    cached,       \* the cursors in the _cursor_caches
    queries,      \* the entries of the _user_queries: "none", "start" or "plain"
    cancelled,    \* queries whose future has been cancelled
    reader,       \* _reader_task: "none", "run", "ended" or "failed"
    \* Cursors
    error, outstanding, threshold,
    items,        \* the number of rows in `items'
    held,         \* the cursors a task has a reference to
    got,          \* rows handed out
    conts,        \* scheduled CONTINUEs: <<instance, cursor>>
    \* The server and the network
    link,         \* "up"; "down" once the TCP connection is dead; "eof" if that is an
                  \* end of the stream with nothing before it in the buffer (at_eof)
    awaiting,     \* requests the server has received and not answered
    sent, done,   \* per stream: rows sent, and whether it has ended
    faults,
    \* The tasks of the application
    task

connVars   == <<instance, next_token, gen>>
instVars   == <<stream, closing, cached, queries, cancelled, reader>>
cursorVars == <<error, outstanding, threshold, items, held, got>>
srvVars    == <<link, sent, done>>
vars == <<connVars, instVars, cursorVars, conts, srvVars, awaiting, faults, task>>

Gen    == 1 .. MaxGen
Cursor == Gen \X (0 .. MaxToken)

CursorError == {"Absent", "None", "Empty", "Stopped", "Runtime", "Server"}

(* Where a task is: "run" and "flush" await a query's future, the latter   *)
(* in close(); "next" is at the head of the loop of _get_next or           *)
(* fetch_next, "wait" awaits new_response; "flushed" and "shut" are in the *)
(* rest of close(), "connect" and "handshake" in connect().                *)
Place == {"idle", "run", "next", "wait", "flush", "flushed", "shut",
          "connect", "handshake"}
Op    == {"none", "start", "plain", "next", "close", "reconnect"}

Idle       == [pc |-> "idle", op |-> "none", c |-> <<1, 0>>]
At(u, pc, op, c) == task' = [task EXCEPT ![u] = [pc |-> pc, op |-> op, c |-> c]]
Goto(u, pc)      == task' = [task EXCEPT ![u].pc = pc]
Return(u)        == task' = [task EXCEPT ![u] = Idle]

Init ==
    /\ instance = 1 /\ next_token = 0 /\ gen = 1
    /\ stream = [g \in Gen |-> IF g = 1 THEN "open" ELSE "none"]
    /\ closing = [g \in Gen |-> FALSE]
    /\ cached = {}
    /\ queries = [c \in Cursor |-> "none"]
    /\ cancelled = {}
    /\ reader = [g \in Gen |-> IF g = 1 THEN "run" ELSE "none"]
    /\ error = [c \in Cursor |-> "Absent"]
    /\ outstanding = [c \in Cursor |-> 0]
    /\ threshold = [c \in Cursor |-> 1]
    /\ items = [c \in Cursor |-> 0]
    /\ held = {}
    /\ got = [c \in Cursor |-> 0]
    /\ conts = {}
    /\ link = [g \in Gen |-> "up"]
    /\ awaiting = [c \in Cursor |-> 0]
    /\ sent = [c \in Cursor |-> 0]
    /\ done = [c \in Cursor |-> FALSE]
    /\ faults = 0
    /\ task = [u \in Task |-> Idle]

Fault == faults < MaxFaults /\ faults' = faults + 1

-----------------------------------------------------------------------------
(* Connection.is_open, which check_open demands (an instance without a     *)
(* stream raises AttributeError instead), with `l' for link.               *)
Usable(l) ==
    instance # 0 /\ stream[instance] # "none" /\ ~closing[instance] /\ l[instance] # "eof"

(* StreamWriter.write never raises; what is written to a closed or dead    *)
(* stream is lost.  A query without a reader will not be answered.         *)
Deliver(c) ==
    IF stream[c[1]] = "open" /\ link[c[1]] = "up" /\ reader[c[1]] \in {"none", "run"}
    THEN [awaiting EXCEPT ![c] = @ + 1] ELSE awaiting

(* The test of _maybe_fetch_batch, with `n' requests outstanding.          *)
WantsBatch(c, n) == error[c] = "None" /\ items[c] < threshold[c] /\ n = 0

Response == [type : {"SUCCESS_PARTIAL", "SUCCESS_SEQUENCE", "ERROR"}, rows : 0 .. MaxRows]
DataLen(r) == IF r.type = "ERROR" THEN 1 ELSE r.rows

(* What the server may answer for a stream (external), as in Net.          *)
MayAnswer(c, r) ==
    /\ sent[c] + r.rows <= MaxRows
    /\ r.type = "ERROR" => r.rows = 0
    /\ r.type = "SUCCESS_PARTIAL" => r.rows > 0 \/ error[c] = "Absent"
    /\ done[c] => r.type # "SUCCESS_PARTIAL" /\ r.rows = 0

Answered(c, r) ==
    /\ sent' = [sent EXCEPT ![c] = @ + r.rows]
    /\ done' = [done EXCEPT ![c] = @ \/ r.type # "SUCCESS_PARTIAL"]

EndOf(r) == CASE r.type = "SUCCESS_PARTIAL"  -> "None"
              [] r.type = "SUCCESS_SEQUENCE" -> "Empty"
              [] OTHER                       -> "Server"

-----------------------------------------------------------------------------
(* Calls of the application.                                               *)

(* Connection._start, noreply_wait and server, and run_query up to its     *)
(* await: the coroutine is awaited where it is made.                       *)
Run(u, op) ==
    LET c == <<instance, next_token>> IN
    /\ task[u] = Idle /\ Usable(link) /\ next_token < MaxToken
    /\ next_token' = next_token + 1
    /\ awaiting' = Deliver(c)
    /\ queries' = [queries EXCEPT ![c] = op]
    /\ At(u, "run", op, c)
    /\ UNCHANGED <<instance, gen, stream, closing, cached, cancelled, reader, cursorVars,
                   conts, srvVars, faults>>

(* check_open raises; or close() finds no instance.                        *)
Refused(u) == task[u] = Idle /\ ~Usable(link) /\ UNCHANGED vars

(* Mutant: the query is forgotten with its future.                         *)
CancelForgets(u) ==
    /\ task[u].pc \in {"run", "flush"}
    /\ queries' = [queries EXCEPT ![task[u].c] = "none"]
    /\ Return(u)
    /\ Fault
    /\ UNCHANGED <<connVars, stream, closing, cached, cancelled, reader, cursorVars,
                   conts, srvVars, awaiting>>

(* The task is cancelled, by wait_for or its owner, while it awaits the    *)
(* future of a query, which is cancelled as well and stays registered.     *)
Cancel(u) ==
    /\ task[u].pc \in {"run", "flush"}
    /\ cancelled' = cancelled \cup {task[u].c}
    /\ Return(u)
    /\ Fault
    /\ UNCHANGED <<connVars, stream, closing, cached, queries, reader, cursorVars,
                   conts, srvVars, awaiting>>

(* AsyncioCursor.next and fetch_next.                                      *)
NextCall(u, c) ==
    /\ task[u] = Idle /\ c \in held
    /\ At(u, "next", "next", c)
    /\ UNCHANGED <<connVars, instVars, cursorVars, conts, srvVars, awaiting, faults>>

(* A row is there: next() takes it, fetch_next() leaves it.                *)
NextItem(u) ==
    LET c == task[u].c IN
    /\ task[u].pc = "next" /\ items[c] > 0
    /\ \/ /\ items' = [items EXCEPT ![c] = @ - 1]
          /\ got' = [got EXCEPT ![c] = @ + 1]
       \/ UNCHANGED <<items, got>>
    /\ Return(u)
    /\ UNCHANGED <<connVars, instVars, error, outstanding, threshold, held, conts, srvVars,
                   awaiting, faults>>

NextError(u) ==
    /\ task[u].pc = "next" /\ items[task[u].c] = 0 /\ error[task[u].c] # "None"
    /\ Return(u)
    /\ UNCHANGED <<connVars, instVars, cursorVars, conts, srvVars, awaiting, faults>>

(* Await new_response, after _maybe_fetch_batch, whose check_open may      *)
(* raise.                                                                  *)
NextWait(u) ==
    LET c == task[u].c
        wants == WantsBatch(c, outstanding[c])
    IN
    /\ task[u].pc = "next" /\ items[c] = 0 /\ error[c] = "None"
    /\ outstanding' = [outstanding EXCEPT ![c] = IF wants THEN 1 ELSE @]
    /\ conts' = IF wants /\ Usable(link) THEN conts \cup {<<instance, c>>} ELSE conts
    /\ IF wants /\ ~Usable(link) THEN Return(u) ELSE Goto(u, "wait")
    /\ UNCHANGED <<connVars, instVars, error, threshold, items, held, got, srvVars, awaiting,
                   faults>>

(* A timeout or a cancellation; new_response is shielded.                  *)
NextTimeout(u) ==
    /\ task[u].pc = "wait"
    /\ Return(u)
    /\ UNCHANGED <<connVars, instVars, cursorVars, conts, srvVars, awaiting, faults>>

(* A scheduled CONTINUE is written: on the instance that was current when  *)
(* it was scheduled, with the token of its cursor.                         *)
ContinueRuns(k) ==
    /\ k \in conts
    /\ conts' = conts \ {k}
    /\ awaiting' = Deliver(<<k[1], k[2][2]>>)
    /\ UNCHANGED <<connVars, instVars, cursorVars, srvVars, task, faults>>

(* AsyncioCursor.close: if its own instance is open, a STOP on the         *)
(* parent's current one.  Nobody who waits for new_response is woken.      *)
CursorClose(u, c) ==
    /\ task[u] = Idle /\ c \in held /\ error[c] = "None"
    /\ error' = [error EXCEPT ![c] = "Stopped"]
    /\ IF ~closing[c[1]] /\ link[c[1]] # "eof"
       THEN /\ outstanding' = [outstanding EXCEPT ![c] = @ + 1]
            /\ awaiting' = IF Usable(link) THEN Deliver(<<instance, c[2]>>) ELSE awaiting
       ELSE UNCHANGED <<outstanding, awaiting>>
    /\ UNCHANGED <<connVars, instVars, threshold, items, held, got, conts, srvVars, task, faults>>

-----------------------------------------------------------------------------
(* Mutants: the cursors are not told; or they are told that their streams  *)
(* are complete.                                                           *)
DetachForgets(g, cache, err, out) ==
    /\ closing' = [closing EXCEPT ![g] = TRUE]
    /\ error' = err /\ outstanding' = out
    /\ cached' = {c \in cache : c[1] # g}

DetachCompletes(g, cache, err, out) ==
    LET failed == {c \in cache : c[1] = g /\ err[c] = "None"} IN
    /\ closing' = [closing EXCEPT ![g] = TRUE]
    /\ error' = [c \in Cursor |-> IF c \in failed THEN "Empty" ELSE err[c]]
    /\ outstanding' = out
    /\ cached' = {c \in cache : c[1] # g}

(* ConnectionInstance.close up to its first await: the cursors of the      *)
(* cache fail, their waiters are woken; so do the pending futures.         *)
Detach(g, cache, err, out) ==
    LET failed == {c \in cache : c[1] = g /\ err[c] = "None"} IN
    /\ closing' = [closing EXCEPT ![g] = TRUE]
    /\ error' = [c \in Cursor |-> IF c \in failed THEN "Runtime" ELSE err[c]]
    /\ outstanding' = [c \in Cursor |-> IF c \in failed THEN out[c] - 1 ELSE out[c]]
    /\ cached' = {c \in cache : c[1] # g}

Woken(g, cache, err, pending) ==
    [u \in Task |->
        CASE task[u].pc = "wait" /\ task[u].c[1] = g /\ task[u].c \in cache
                                 /\ err[task[u].c] = "None" -> [task[u] EXCEPT !.pc = "next"]
          [] task[u].pc \in {"run", "flush"} /\ task[u].c \in pending -> Idle
          [] OTHER -> task[u]]

Pending(g) == {c \in Cursor : c[1] = g /\ queries[c] # "none"}
Forget(g) ==
    /\ queries' = [c \in Cursor |-> IF c[1] = g THEN "none" ELSE queries[c]]
    /\ cancelled' = {c \in cancelled : c[1] # g}

(* ... and the NOREPLY_WAIT is the only query.                             *)
ForgetAllBut(g, c) ==
    /\ queries' = [d \in Cursor |-> IF d = c THEN "plain"
                                    ELSE IF d[1] = g THEN "none" ELSE queries[d]]
    /\ cancelled' = {d \in cancelled : d[1] # g}

(* The part of Connection.close and reconnect up to their first await.     *)
Close(u, op, noreply_wait) ==
    LET g == instance
        c == <<g, next_token>>
        after == Woken(g, cached, error, Pending(g))
        detached(pc) == [after EXCEPT ![u] = [pc |-> pc, op |-> op, c |-> c]]
    IN
    /\ task[u] = Idle /\ g # 0
    /\ instance' = 0 /\ next_token' = 0
    /\ Detach(g, cached, error, outstanding)
    /\ \/ /\ stream[g] = "none"
          /\ Forget(g) /\ task' = [after EXCEPT ![u] = Idle]
          /\ UNCHANGED <<stream, awaiting>>
       \/ /\ stream[g] # "none" /\ noreply_wait
          /\ ForgetAllBut(g, c) /\ awaiting' = Deliver(c)
          /\ task' = detached("flush")
          /\ UNCHANGED stream
       \/ /\ stream[g] # "none" /\ ~noreply_wait
          /\ Forget(g) /\ stream' = [stream EXCEPT ![g] = "closed"]
          /\ task' = detached("shut")
          /\ UNCHANGED awaiting
    /\ UNCHANGED <<gen, reader, threshold, items, held, got, conts, srvVars, faults>>

(* After the answer to its NOREPLY_WAIT.                                   *)
CloseStream(u) ==
    /\ task[u].pc = "flushed"
    /\ stream' = [stream EXCEPT ![task[u].c[1]] = "closed"]
    /\ Goto(u, "shut")
    /\ UNCHANGED <<connVars, closing, cached, queries, cancelled, reader, cursorVars,
                   conts, srvVars, awaiting, faults>>

(* The new instance of a reconnect(), before its open_connection.          *)
NewInstance(u) ==
    /\ gen < MaxGen
    /\ gen' = gen + 1 /\ instance' = gen + 1
    /\ At(u, "connect", "reconnect", <<gen + 1, 0>>)

(* The stream is closed and the reader has ended: both may raise, when the *)
(* connection was reset or the reader failed.  (At the bound on instances  *)
(* a reconnect() ends here, too.)                                          *)
Shut(u) ==
    LET g == task[u].c[1] IN
    /\ task[u].pc = "shut" /\ reader[g] # "run"
    /\ \/ /\ reader[g] = "failed" \/ link[g] # "up" \/ task[u].op = "close"
             \/ gen = MaxGen
          /\ Return(u)
          /\ UNCHANGED <<gen, instance>>
       \/ /\ reader[g] # "failed" /\ task[u].op = "reconnect"
          /\ NewInstance(u)
    /\ UNCHANGED <<next_token, instVars, cursorVars, conts, srvVars, awaiting, faults>>

ReconnectDetached(u) ==
    /\ task[u] = Idle /\ instance = 0
    /\ NewInstance(u)
    /\ UNCHANGED <<next_token, instVars, cursorVars, conts, srvVars, awaiting, faults>>

(* ConnectionInstance.connect.                                             *)
OpenConnection(u, ok) ==
    /\ task[u].pc = "connect"
    /\ IF ok THEN /\ stream' = [stream EXCEPT ![task[u].c[1]] = "open"]
                  /\ Goto(u, "handshake")
             ELSE Return(u) /\ UNCHANGED stream
    /\ UNCHANGED <<connVars, closing, cached, queries, cancelled, reader, cursorVars,
                   conts, srvVars, awaiting, faults>>

HandshakeDone(u) ==
    /\ task[u].pc = "handshake"
    /\ reader' = [reader EXCEPT ![task[u].c[1]] = "run"]
    /\ Return(u)
    /\ UNCHANGED <<connVars, stream, closing, cached, queries, cancelled, cursorVars,
                   conts, srvVars, awaiting, faults>>

HandshakeFails(u) ==
    LET g == task[u].c[1] IN
    /\ task[u].pc = "handshake"
    /\ Detach(g, cached, error, outstanding)
    /\ Forget(g)
    /\ stream' = [stream EXCEPT ![g] = "closed"]
    /\ task' = [Woken(g, cached, error, Pending(g)) EXCEPT ![u] = Idle]
    /\ UNCHANGED <<connVars, reader, threshold, items, held, got, conts,
                   srvVars, awaiting, faults>>

-----------------------------------------------------------------------------
(* The reader task.  What is read may be the last thing in the buffer of a *)
(* stream that has ended: then at_eof() holds as soon as it has been read. *)

Reads(c) ==
    /\ reader[c[1]] = "run" /\ link[c[1]] # "eof" /\ awaiting[c] > 0
    /\ \/ UNCHANGED link
       \/ link[c[1]] = "down" /\ link' = [link EXCEPT ![c[1]] = "eof"]

Left(c) == [awaiting EXCEPT ![c] = @ - 1]

(* An exception in the reader of instance g: it closes the instance,       *)
(* unless that has been done; waiting for the end of the stream may raise  *)
(* once more.                                                              *)
Raises(g, cache, err, out) ==
    IF closing[g]
    THEN /\ error' = err /\ outstanding' = out /\ cached' = cache
         /\ reader' = [reader EXCEPT ![g] = "ended"]
         /\ UNCHANGED <<closing, queries, cancelled, stream, task>>
    ELSE /\ Detach(g, cache, err, out)
         /\ Forget(g)
         /\ task' = Woken(g, cache, err, Pending(g))
         /\ stream' = [stream EXCEPT ![g] = "closed"]
         /\ \E end \in {"ended"} \cup (IF link[g] = "down" THEN {"failed"} ELSE {}) :
               reader' = [reader EXCEPT ![g] = end]

(* Mutant: a new new_response is made before the old one is resolved.      *)
WakeNobody(c) == task' = task

(* AsyncioCursor._extend: who waits for new_response looks again.          *)
Wake(c) ==
    task' = [u \in Task |-> IF task[u].pc = "wait" /\ task[u].c = c
                            THEN [task[u] EXCEPT !.pc = "next"] ELSE task[u]]

(* A batch for a cached cursor: Cursor._extend schedules the next CONTINUE *)
(* first; when check_open fails there, the batch is lost with the          *)
(* connection.                                                             *)
ReadBatch(c, r) ==
    LET n     == outstanding[c] - 1
        wants == WantsBatch(c, n)
        out   == [outstanding EXCEPT ![c] = IF wants THEN 1 ELSE n]
    IN
    /\ c \in cached /\ MayAnswer(c, r) /\ Reads(c) /\ Answered(c, r)
    /\ awaiting' = Left(c)
    /\ IF wants /\ ~Usable(link')
       THEN /\ Raises(c[1], cached, error, out)
            /\ UNCHANGED <<threshold, items, conts>>
       ELSE /\ outstanding' = out
            /\ conts' = IF wants THEN conts \cup {<<instance, c>>} ELSE conts
            /\ threshold' = [threshold EXCEPT ![c] = DataLen(r)]
            /\ items' = [items EXCEPT ![c] = IF error[c] = "None" THEN @ + r.rows ELSE @]
            /\ error' = [error EXCEPT ![c] = IF @ = "None" THEN EndOf(r) ELSE @]
            /\ cached' = IF out[c] = 0 /\ error'[c] # "None" THEN cached \ {c} ELSE cached
            /\ Wake(c)
            /\ UNCHANGED <<closing, queries, cancelled, stream, reader>>
    /\ UNCHANGED <<connVars, held, got, faults>>

(* The answer to a query that is not a stream.  set_result raises when the *)
(* future has been cancelled.                                              *)
ReadValue(c) ==
    /\ c \notin cached /\ queries[c] # "none" /\ Reads(c)
    /\ awaiting' = Left(c)
    /\ IF c \in cancelled
       THEN Raises(c[1], cached, error, outstanding)
       ELSE /\ queries' = [queries EXCEPT ![c] = "none"]
            /\ task' = [u \in Task |->
                  CASE task[u].pc = "run" /\ task[u].c = c   -> Idle
                    [] task[u].pc = "flush" /\ task[u].c = c -> [task[u] EXCEPT !.pc = "flushed"]
                    [] OTHER -> task[u]]
            /\ UNCHANGED <<closing, cancelled, error, outstanding, cached, stream, reader>>
    /\ UNCHANGED <<connVars, threshold, items, held, got, conts, sent, done, faults>>

(* The answer to a query that is one: the constructor of AsyncioCursor     *)
(* enters the cache, schedules a CONTINUE, takes the first batch and makes *)
(* new_response.  When check_open fails in it, the cursor is left behind   *)
(* without new_response; close() then fails at it, after it has told the   *)
(* other cursors, and before it gets to the futures and the stream.        *)
ReadStream(c, r) ==
    LET g     == c[1]
        out   == [outstanding EXCEPT ![c] = 1]
        begun == [error EXCEPT ![c] = "None"]
        cache == cached \cup {c}
    IN
    /\ c \notin cached /\ queries[c] = "start" /\ r.type # "ERROR" /\ MayAnswer(c, r)
    /\ Reads(c) /\ Answered(c, r)
    /\ awaiting' = Left(c)
    /\ \/ /\ ~Usable(link')
          /\ Detach(g, cache, begun, out)
          /\ task' = Woken(g, cache, begun, {})
          /\ reader' = [reader EXCEPT ![g] = "failed"]
          /\ UNCHANGED <<queries, cancelled, stream, threshold, items, held, conts>>
       \/ /\ Usable(link')
          /\ conts' = conts \cup {<<instance, c>>}
          /\ threshold' = [threshold EXCEPT ![c] = DataLen(r)]
          /\ items' = [items EXCEPT ![c] = r.rows]
          /\ IF c \in cancelled
             THEN /\ Raises(g, cache, [error EXCEPT ![c] = EndOf(r)], out)
                  /\ UNCHANGED held
             ELSE /\ error' = [error EXCEPT ![c] = EndOf(r)]
                  /\ outstanding' = out
                  /\ cached' = cache
                  /\ queries' = [queries EXCEPT ![c] = "none"]
                  /\ held' = held \cup {c}
                  /\ task' = [u \in Task |-> IF task[u].pc = "run" /\ task[u].c = c
                                             THEN Idle ELSE task[u]]
                  /\ UNCHANGED <<closing, cancelled, stream, reader>>
    /\ UNCHANGED <<connVars, got, faults>>

(* A response that belongs to nobody is skipped while closing, ...         *)
SkipWhileClosing(c) ==
    /\ closing[c[1]] /\ c \notin cached /\ queries[c] = "none" /\ Reads(c)
    /\ awaiting' = Left(c)
    /\ UNCHANGED <<connVars, stream, closing, cached, queries, cancelled, reader, cursorVars,
                   conts, sent, done, task, faults>>

(* ... and an error otherwise.                                             *)
UnexpectedResponse(g) ==
    /\ reader[g] = "run" /\ link[g] # "eof" /\ ~closing[g]
    /\ Raises(g, cached, error, outstanding)
    /\ Fault
    /\ UNCHANGED <<connVars, threshold, items, held, got, conts, srvVars,
                   awaiting>>

(* The stream has ended, been reset or been closed.                        *)
ReadEnd(g) ==
    /\ link[g] # "up" \/ stream[g] = "closed"
    /\ reader[g] = "run"
    /\ Raises(g, cached, error, outstanding)
    /\ awaiting' = [c \in Cursor |-> IF c[1] = g THEN 0 ELSE awaiting[c]]
    /\ UNCHANGED <<connVars, threshold, items, held, got, conts, srvVars, faults>>

-----------------------------------------------------------------------------
(* The network.                                                            *)

Drop(g) ==
    /\ stream[g] = "open" /\ link[g] = "up"
    /\ link' = [link EXCEPT ![g] = "down"]
    /\ Fault
    /\ UNCHANGED <<connVars, instVars, cursorVars, conts, sent, done, awaiting, task>>

(* The end of the stream is in the buffer, and nothing before it.          *)
Eof(g) ==
    /\ stream[g] = "open" /\ link[g] = "down"
    /\ link' = [link EXCEPT ![g] = "eof"]
    /\ UNCHANGED <<connVars, instVars, cursorVars, conts, sent, done, awaiting, task, faults>>

-----------------------------------------------------------------------------
Call(u) ==
    \/ Refused(u)
    \/ \E op \in {"start", "plain"} : Run(u, op)
    \/ \E c \in Cursor : NextCall(u, c) \/ CursorClose(u, c)
    \/ \E op \in {"close", "reconnect"}, noreply_wait \in BOOLEAN :
          /\ op = "reconnect" => gen < MaxGen
          /\ Close(u, op, noreply_wait)
    \/ ReconnectDetached(u)
    \/ Cancel(u)
    \/ NextTimeout(u)

Resume(u) ==
    \/ NextItem(u) \/ NextError(u) \/ NextWait(u)
    \/ CloseStream(u) \/ Shut(u)
    \/ \E ok \in BOOLEAN : OpenConnection(u, ok)
    \/ HandshakeDone(u) \/ HandshakeFails(u)

ReadResponse(g) ==
    \/ \E c \in Cursor, r \in Response : c[1] = g /\ (ReadBatch(c, r) \/ ReadStream(c, r))
    \/ \E c \in Cursor : c[1] = g /\ (ReadValue(c) \/ SkipWhileClosing(c))
    \/ ReadEnd(g)

Next ==
    \/ \E u \in Task : Call(u) \/ Resume(u)
    \/ \E k \in conts : ContinueRuns(k)
    \/ \E g \in Gen : ReadResponse(g) \/ UnexpectedResponse(g) \/ Drop(g) \/ Eof(g)

Spec == Init /\ [][Next]_vars

(* The event loop runs what is ready; the server answers what it received, *)
(* and the keep-alive of the stream reports a dead link.                   *)
FairSpec ==
    /\ Spec
    /\ \A u \in Task : WF_vars(Resume(u))
    /\ WF_vars(\E k \in conts : ContinueRuns(k))
    /\ \A g \in Gen : WF_vars(ReadResponse(g))

-----------------------------------------------------------------------------
(* Types, and that only the tokens of started queries are in use.          *)
TypeOK ==
    /\ instance \in 0 .. gen /\ gen \in Gen /\ next_token \in 0 .. MaxToken
    /\ stream \in [Gen -> {"none", "open", "closed"}]
    /\ closing \in [Gen -> BOOLEAN]
    /\ cached \subseteq Cursor /\ held \subseteq Cursor /\ cancelled \subseteq Cursor
    /\ queries \in [Cursor -> {"none", "start", "plain"}]
    /\ reader \in [Gen -> {"none", "run", "ended", "failed"}]
    /\ error \in [Cursor -> CursorError]
    /\ outstanding \in [Cursor -> -1 .. 2]
    /\ threshold \in [Cursor -> 0 .. MaxRows + 1]
    /\ items \in [Cursor -> 0 .. MaxRows] /\ got \in [Cursor -> 0 .. MaxRows]
    /\ conts \subseteq Gen \X Cursor
    /\ link \in [Gen -> {"up", "down", "eof"}]
    /\ awaiting \in [Cursor -> 0 .. 2]
    /\ sent \in [Cursor -> 0 .. MaxRows] /\ done \in [Cursor -> BOOLEAN]
    /\ faults \in 0 .. MaxFaults
    /\ task \in [Task -> [pc : Place, op : Op, c : Cursor]]
    /\ \A c \in cached \cup held : error[c] # "Absent"

(* A server that keeps to the protocol does not cause "Unexpected response *)
(* received.": an answer that is owed on an instance that is read finds a  *)
(* cursor or a query, or the instance is closing.                          *)
NoUnexpectedResponse ==
    \A c \in Cursor : awaiting[c] > 0 /\ reader[c[1]] = "run" =>
        c \in cached \/ queries[c] # "none" \/ closing[c[1]]

(* outstanding_requests counts the CONTINUEs that are scheduled and the    *)
(* answers that are owed, no more and no less, on a live connection.       *)
RequestsAccounted ==
    \A c \in cached : link[c[1]] = "up" /\ ~closing[c[1]] =>
        outstanding[c] = awaiting[c] + Cardinality({k \in conts : k[2] = c})

(* A CONTINUE goes to the server on the connection its cursor came from,   *)
(* unless that connection was replaced while it was open (which only two   *)
(* overlapping calls of reconnect() bring about).                          *)
ContinuesOwnStream ==
    [][\A k \in conts' \ conts : k[1] = k[2][1] \/ ~closing[k[2][1]]]_vars

(* A task that waits for new_response has something to wait for: a request *)
(* in flight or the end of the connection.                                 *)
WaiterHasRequest ==
    \A u \in Task : task[u].pc = "wait" =>
        LET c == task[u].c IN
        /\ items[c] = 0
        /\ error[c] = "None" => /\ c \in cached
                                /\ reader[c[1]] = "run"
                                /\ outstanding[c] > 0

(* The condition of the invariant: no open connection is replaced.  Two    *)
(* overlapping calls of reconnect() would do that: the one that comes last *)
(* replaces the instance the other has connected.                          *)
NoOverlap == [][instance' # instance => instance = 0 \/ closing'[instance]]_vars

(* The state invariant of the driver: every answer has an owner, requests  *)
(* are counted exactly, and who waits has something to wait for.           *)
AsyncioInv == TypeOK /\ NoUnexpectedResponse /\ RequestsAccounted /\ WaiterHasRequest

Stream == INSTANCE ResultStream WITH
    produced  <- sent,
    finished  <- done,
    available <- [c \in Cursor |-> IF c \in held THEN got[c] + items[c] ELSE 0],
    delivered <- got,
    status    <- [c \in Cursor |->
        IF c \notin held THEN "absent"
        ELSE CASE error[c] = "None"    -> "open"
               [] error[c] = "Empty"   -> "complete"
               [] error[c] = "Stopped" -> "closed"
               [] OTHER                -> "failed"]

(* What the tasks see of a cursor is the behaviour of a gapless result     *)
(* stream, whatever they do to it and to the connection at the same time.  *)
ImplementsResultStream == Stream!Spec

(* A task is stuck: the reader that should resolve its future has ended or *)
(* was never started, or the cursor it waits on was closed by another task *)
(* and its connection then went away.                                      *)
Abandoned(u) ==
    LET c == task[u].c IN
    \/ task[u].pc \in {"run", "flush"} /\ reader[c[1]] \in {"ended", "failed"}
    \/ task[u].pc \in {"run", "flush"} /\ reader[c[1]] = "none" /\ stream[c[1]] = "closed"
    \/ task[u].pc = "wait" /\ error[c] = "Stopped" /\ (closing[c[1]] \/ link[c[1]] # "up")

(* Every call ends, unless it is abandoned in one of these ways.           *)
CallEnds == \A u \in Task : (task[u] # Idle) ~> (task[u] = Idle \/ Abandoned(u))
=============================================================================

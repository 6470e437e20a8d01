----------------------------- MODULE EventLoop ------------------------------
(***************************************************************************)
(* The drivers of four event loops: trio_net, twisted_net, tornado_net and *)
(* gevent_net.  Each is a rewrite of the ConnectionInstance of net.py with *)
(* futures and a reader; they differ in where they can be interrupted and  *)
(* in how they fail.  The module models all of them, as one Connection     *)
(* from connect() to the end of close(), which several tasks use; `driver' *)
(* says which code runs.  reconnect() is close() and connect() of a new    *)
(* instance: what two instances do to each other is the subject of Asyncio.*)
(*                                                                         *)
(* Requests are short: a write never blocks, it is taken or it fails.  So  *)
(* only Trio, which has a checkpoint after a write, can be interrupted     *)
(* between the write and the registration of the query.  As in Net and     *)
(* Asyncio, the server (external) answers every request once, and its      *)
(* answer is decided when it is read.                                      *)
(***************************************************************************)
EXTENDS Integers, SequencesExt

CONSTANTS
    Driver,       \* which of "trio", "twisted", "tornado", "gevent"
    Task,         \* tasks (greenlets, coroutines) of the application
    MaxToken,     \* bound: the last token (kept for close())
    MaxStream,    \* bound: the tokens below it may be those of result streams
    MaxRows,      \* bound: rows of one result stream
    MaxFaults     \* bound: lost links, cancelled tasks, stray responses

ASSUME EventLoopAssumption ==
    /\ Driver \subseteq {"trio", "twisted", "tornado", "gevent"} /\ IsFiniteSet(Task)
    /\ MaxToken \in Nat /\ MaxStream \in Nat /\ MaxRows \in Nat /\ MaxFaults \in Nat

VARIABLES
    driver,
    conn,      \* Connection and ConnectionInstance, see ConnType
    queries,   \* the entries of _user_queries: "none", "start" or "plain"
    cached,    \* the cursors of _cursor_cache
    cursor,    \* see CursorType; a cursor is named by its token
    held,      \* cursors the application has a reference to
    conts,     \* Trio: CONTINUEs started in the nursery and not yet sent
    link,      \* "up", "eof" (the server is gone) or "reset"
    awaiting,  \* requests the server has received and not answered
    sent, done,\* per stream: rows sent, and whether it has ended
    faults,
    task       \* where each task is

srvVars == <<link, sent, done>>
vars == <<driver, conn, queries, cached, cursor, held, conts, srvVars, awaiting, faults, task>>

Token == 0 .. MaxToken

(* attached: Connection._instance is not None; closed: Trio's _closed;     *)
(* timer: the handshake timeout of Twisted; reader: the reader task, or    *)
(* whether Twisted's transport is read from.  "draining": loseConnection() *)
(* was called.  "spin": Trio reads the end of the stream again and again;  *)
(* "stuck": its reader waits for its own end.  cut records that connect()  *)
(* or close() was cancelled before it got to the stream.                   *)
ConnType == [
    attached : BOOLEAN, next_token : 0 .. MaxToken + 1,
    stage    : {"new", "connecting", "handshake", "ready", "failed"},
    stream   : {"none", "open", "draining", "closed"},
    closing  : BOOLEAN, closed : BOOLEAN, timer : BOOLEAN, cut : BOOLEAN,
    reader   : {"none", "run", "spin", "stuck", "ended"}]

(* waiting: the tasks whose Deferred of Twisted's fetch_next is in the     *)
(* list `waiting', in order, up to the first that has timed out; stale:    *)
(* there is such a one, and nobody behind it is ever called back.          *)
(* getters: the tasks in CursorItems.get().                                *)
CursorType == [
    error : {"Absent", "None", "Empty", "Stopped", "Runtime", "Server"},
    outstanding : -1 .. 2, threshold : 0 .. MaxRows + 1,
    items : 0 .. MaxRows, got : 0 .. MaxRows,
    waiting : Seq(Task), stale : BOOLEAN, getters : Seq(Task)]

Place == {"idle", "connect", "handshake", "send", "sent", "run", "next", "wait", "get",
          "fetch", "taken", "flush", "flushed", "shut"}

Idle           == [pc |-> "idle", op |-> "none", t |-> 0]
At(u, pc, op, t) == task' = [task EXCEPT ![u] = [pc |-> pc, op |-> op, t |-> t]]
Goto(u, pc)    == task' = [task EXCEPT ![u].pc = pc]
Return(u)      == task' = [task EXCEPT ![u] = Idle]
Fault          == faults < MaxFaults /\ faults' = faults + 1

Init ==
    /\ driver \in Driver
    /\ conn = [attached |-> TRUE, next_token |-> 0, stage |-> "new", stream |-> "none",
               closing |-> FALSE, closed |-> FALSE, timer |-> FALSE, cut |-> FALSE,
               reader |-> "none"]
    /\ queries = [t \in Token |-> "none"]
    /\ cached = {} /\ held = {} /\ conts = {}
    /\ cursor = [t \in Token |-> [error |-> "Absent", outstanding |-> 0, threshold |-> 1,
                                  items |-> 0, got |-> 0, waiting |-> <<>>, stale |-> FALSE,
                                  getters |-> <<>>]]
    /\ link = "up"
    /\ awaiting = [t \in Token |-> 0]
    /\ sent = [t \in Token |-> 0] /\ done = [t \in Token |-> FALSE]
    /\ faults = 0
    /\ task = [u \in Task |-> Idle]

-----------------------------------------------------------------------------
(* ConnectionInstance.is_open of each driver.                              *)
IsOpen ==
    CASE driver = "trio"    -> ~conn.closing /\ ~conn.closed
      [] driver = "twisted" -> conn.stream \in {"open", "draining"}
      [] OTHER              -> conn.stream = "open"

(* What check_open demands.                                                *)
Usable == conn.attached /\ conn.stage = "ready" /\ IsOpen

(* May a write succeed, or fail?  Twisted's transport never complains; a   *)
(* dead connection may swallow what Tornado or gevent write to it.         *)
Writes(ok) ==
    IF driver = "twisted" THEN ok
    ELSE IF conn.stream # "open" THEN ~ok
    ELSE IF link = "up" THEN ok
    ELSE driver = "trio" => ok = (link # "reset")

(* A write that fails closes the stream of Tornado and the socket of       *)
(* gevent; Trio notes it in _closed and goes on.                           *)
Written(cn, ok) ==
    IF ok THEN cn
    ELSE IF driver = "trio" THEN [cn EXCEPT !.closed = TRUE] ELSE [cn EXCEPT !.stream = "closed"]

Deliver(left, t, ok) ==
    IF ok /\ conn.stream = "open" /\ link = "up" THEN [left EXCEPT ![t] = @ + 1] ELSE left

(* The test of _maybe_fetch_batch.                                         *)
WantsBatch(c) == c.error = "None" /\ c.items < c.threshold /\ c.outstanding = 0
Counted(c, wants) == IF wants THEN [c EXCEPT !.outstanding = 1] ELSE c

(* _maybe_fetch_batch, the CONTINUE counted already.  Trio starts a task,  *)
(* the others write at once.  Twisted and Tornado drop what is raised into *)
(* a future nobody looks at; in Trio and gevent the caller gets it.        *)
Fetch(left, t, wants, cn, raised) ==
    \/ /\ ~wants /\ ~raised /\ cn = conn
       /\ awaiting' = left /\ UNCHANGED conts
    \/ /\ wants /\ ~Usable
       /\ raised = (driver \in {"trio", "gevent"}) /\ cn = conn
       /\ awaiting' = left /\ UNCHANGED conts
    \/ /\ wants /\ Usable /\ driver = "trio" /\ ~raised /\ cn = conn
       /\ conts' = conts \cup {t} /\ awaiting' = left
    \/ /\ wants /\ Usable /\ driver # "trio"
       /\ \E ok \in BOOLEAN :
             /\ Writes(ok)
             /\ awaiting' = Deliver(left, t, ok)
             /\ cn = Written(conn, ok)
             /\ raised = (~ok /\ driver = "gevent")
       /\ UNCHANGED conts

Outcomes == {conn, [conn EXCEPT !.stream = "closed"]}

-----------------------------------------------------------------------------
(* Who waits for a cursor, and what an _extend does for them.              *)

(* Twisted calls the Deferreds of `waiting' in order, and raises at one    *)
(* that has timed out, as it has been called before.                       *)
Rows(c) == IF c.items < Len(c.getters) THEN c.items ELSE Len(c.getters)
Ready(c) == c.items > Rows(c) \/ c.error # "None"

(* The cursor after its getters got their rows, or the error, and its      *)
(* fetch_next were called back; without rows or error these wait again, at *)
(* the end of the list.                                                    *)
Served(c) ==
    [c EXCEPT !.items = @ - Rows(c),
              !.getters = IF c.error # "None" THEN <<>> ELSE SubSeq(@, Rows(c) + 1, Len(@)),
              !.waiting = IF Ready(c) \/ c.stale THEN <<>> ELSE @]

Resumed(x, v, c) ==
    LET fed    == v \in ToSet(SubSeq(c.getters, 1, Rows(c)))
        called == v \in ToSet(c.waiting) /\ Ready(c)
    IN  CASE x.pc = "wait"                                -> [x EXCEPT !.pc = "next"]
          [] x.pc = "get" /\ fed                          -> [x EXCEPT !.pc = "taken"]
          [] x.pc = "get" /\ ~fed /\ c.error # "None"     -> Idle
          [] x.pc = "fetch" /\ called                     -> Idle
          [] OTHER                                        -> x

Woken(tk, S, cur) ==
    [v \in Task |-> IF tk[v].t \in S /\ tk[v].pc \in {"wait", "get", "fetch"}
                    THEN Resumed(tk[v], v, cur[tk[v].t]) ELSE tk[v]]

-----------------------------------------------------------------------------
(* ConnectionInstance.close tells its cursors in the order of their cache, *)
(* then the futures.  In Twisted it raises at a cursor with a stale        *)
(* Deferred, and tells neither the cursors behind it nor the futures.      *)
Tellings(cache, cur) ==
    LET live  == {t \in cache : cur[t].error = "None"}
        stale == {t \in live : cur[t].stale}
    IN  IF stale = {} THEN {[told |-> live, whole |-> TRUE]}
        ELSE {[told |-> S \cup {t}, whole |-> FALSE] : S \in SUBSET (live \ stale), t \in stale}

(* `pending' is what is registered next: nothing, or the NOREPLY_WAIT.     *)
Tell(w, cur, cache, tk, pending) ==
    LET failed == [t \in Token |-> IF t \in w.told
                                   THEN [cur[t] EXCEPT !.error = "Runtime", !.outstanding = @ - 1]
                                   ELSE cur[t]]
        woken  == Woken(tk, w.told, failed)
    IN
    /\ cursor' = [t \in Token |-> IF t \in w.told THEN Served(failed[t]) ELSE cur[t]]
    /\ cached' = IF w.whole THEN {}
                 ELSE {t \in cache : t \in w.told => failed[t].outstanding # 0}
    /\ queries' = IF w.whole
                  THEN [t \in Token |-> IF t \in pending THEN "plain" ELSE "none"] ELSE queries
    /\ task' = [v \in Task |->
                   IF w.whole /\ tk[v].pc \in {"run", "flush"} /\ queries[tk[v].t] # "none"
                   THEN Idle ELSE woken[v]]

Shutdown(cn) ==
    [cn EXCEPT !.stream = IF @ # "open" THEN @
                          ELSE IF driver = "twisted" THEN "draining" ELSE "closed"]

(* An exception while a response is handled: it closes the instance,       *)
(* unless that is closing already.  Trio's close() then waits for the end  *)
(* of the reader that called it.                                           *)
Raises(cur, cache, tk, cn) ==
    IF conn.closing
    THEN /\ cursor' = cur /\ cached' = cache /\ task' = tk
         /\ conn' = [cn EXCEPT !.reader = IF driver = "twisted" THEN @ ELSE "ended"]
         /\ UNCHANGED queries
    ELSE \E w \in Tellings(cache, cur) :
         /\ Tell(w, cur, cache, tk, {})
         /\ conn' = [Shutdown(cn) EXCEPT !.closing = TRUE,
                        !.reader = IF driver = "trio" THEN "stuck" ELSE "ended"]

-----------------------------------------------------------------------------
(* connect().                                                              *)

ConnectCall(u) ==
    /\ task[u] = Idle /\ conn.stage = "new"
    /\ conn' = [conn EXCEPT !.stage = "connecting"]
    /\ At(u, "connect", "connect", 0)
    /\ UNCHANGED <<driver, queries, cached, cursor, held, conts, srvVars, awaiting, faults>>

(* The TCP connection.  Twisted's connectionMade starts the timer.         *)
OpenStream(u, ok) ==
    /\ task[u].pc = "connect"
    /\ IF ok THEN /\ conn' = [conn EXCEPT !.stage = "handshake", !.stream = "open",
                                          !.timer = (driver = "twisted")]
                  /\ Goto(u, "handshake")
             ELSE conn' = [conn EXCEPT !.stage = "failed"] /\ Return(u)
    /\ UNCHANGED <<driver, queries, cached, cursor, held, conts, srvVars, awaiting, faults>>

HandshakeDone(u) ==
    /\ task[u].pc = "handshake"
    /\ driver = "twisted" => conn.stream = "open"
    /\ conn' = [conn EXCEPT !.stage = "ready", !.reader = "run", !.timer = FALSE]
    /\ Return(u)
    /\ UNCHANGED <<driver, queries, cached, cursor, held, conts, srvVars, awaiting, faults>>

(* An error, a refusal or a timeout.  Twisted's connect() raises the error *)
(* and leaves the transport to the timer; the others close the stream.     *)
HandshakeFails(u) ==
    /\ task[u].pc = "handshake"
    /\ conn' = IF driver = "twisted" THEN [conn EXCEPT !.stage = "failed"]
               ELSE [Shutdown(conn) EXCEPT !.stage = "failed", !.closing = (driver = "trio")]
    /\ Return(u)
    /\ UNCHANGED <<driver, queries, cached, cursor, held, conts, srvVars, awaiting, faults>>

(* Twisted: _handleHandshakeTimeout.                                       *)
TimerFires ==
    /\ conn.timer
    /\ conn' = [Shutdown(conn) EXCEPT !.timer = FALSE, !.stage = "failed"]
    /\ task' = [u \in Task |-> IF task[u].pc = "handshake" THEN Idle ELSE task[u]]
    /\ UNCHANGED <<driver, queries, cached, cursor, held, conts, srvVars, awaiting, faults>>

(* Twisted: the handshake ends after its connect() was cancelled, and      *)
(* takes the timer with it.                                                *)
HandshakeLate ==
    /\ conn.timer /\ conn.cut /\ conn.stream = "open"
    /\ conn' = [conn EXCEPT !.timer = FALSE]
    /\ UNCHANGED <<driver, queries, cached, cursor, held, conts, srvVars, awaiting, faults,
                   task>>

-----------------------------------------------------------------------------
(* Queries.                                                                *)

(* Connection._start, noreply_wait and server, and run_query.  Trio sends  *)
(* in a step of its own, the others register and send at once; a write     *)
(* that fails raises.                                                      *)
Run(u, op) ==
    LET t == conn.next_token
        cn == [conn EXCEPT !.next_token = @ + 1]
    IN
    /\ task[u] = Idle /\ Usable /\ t < MaxToken /\ (op = "start" => t < MaxStream)
    /\ IF driver = "trio"
       THEN /\ At(u, "send", op, t) /\ conn' = cn
            /\ UNCHANGED <<queries, awaiting>>
       ELSE \E ok \in BOOLEAN :
            /\ Writes(ok)
            /\ conn' = Written(cn, ok)
            /\ awaiting' = Deliver(awaiting, t, ok)
            /\ IF ok THEN /\ queries' = [queries EXCEPT ![t] = op]
                          /\ At(u, "run", op, t)
                     ELSE UNCHANGED <<queries, task>>
    /\ UNCHANGED <<driver, cached, cursor, held, conts, srvVars, faults>>

(* Trio: _send, which swallows a dead connection.                          *)
Send(u) ==
    LET t == task[u].t IN
    /\ task[u].pc = "send"
    /\ \E ok \in BOOLEAN :
          /\ Writes(ok)
          /\ conn' = Written(conn, ok)
          /\ awaiting' = Deliver(awaiting, t, ok)
    /\ IF task[u].op = "stop" THEN Return(u) ELSE Goto(u, "sent")
    /\ UNCHANGED <<driver, queries, cached, cursor, held, conts, srvVars, faults>>

(* Trio: only now does the query enter _user_queries.                      *)
Register(u) ==
    /\ task[u].pc = "sent"
    /\ queries' = [queries EXCEPT ![task[u].t] = IF task[u].op = "start" THEN "start" ELSE "plain"]
    /\ Goto(u, IF task[u].op = "close" THEN "flush" ELSE "run")
    /\ UNCHANGED <<driver, conn, cached, cursor, held, conts, srvVars, awaiting, faults>>

(* Trio: a CONTINUE of the nursery is sent.                                *)
ContinueRuns(t) ==
    /\ t \in conts
    /\ conts' = conts \ {t}
    /\ \E ok \in BOOLEAN :
          /\ Writes(ok)
          /\ conn' = Written(conn, ok)
          /\ awaiting' = Deliver(awaiting, t, ok)
    /\ UNCHANGED <<driver, queries, cached, cursor, held, srvVars, faults, task>>

(* Mutant: the query is forgotten with its future.                         *)
CancelForgets(u) ==
    /\ task[u].pc = "run" /\ driver # "tornado"
    /\ queries' = [queries EXCEPT ![task[u].t] = "none"]
    /\ Fault /\ Return(u)
    /\ UNCHANGED <<driver, conn, cached, cursor, held, conts, srvVars, awaiting>>

(* The task is cancelled, or its greenlet's Timeout expires, while it      *)
(* awaits an answer: the query stays registered.  In connect() and close() *)
(* the code behind the await does not run, except the callback of          *)
(* Twisted's close(); gevent's socket goes with the failed constructor.    *)
(* Tornado's coroutines cannot be cancelled.                               *)
Cancel(u) ==
    LET x == task[u]
        shaken == x.pc = "handshake"
        closes == x.op = "close" /\ x.pc # "shut"
    IN
    /\ x.pc \in {"handshake", "send", "run", "flush", "shut"} /\ driver # "tornado"
    /\ conn' = IF shaken /\ driver = "gevent"
               THEN [Shutdown(conn) EXCEPT !.stage = "failed"]
               ELSE IF closes /\ driver = "twisted" THEN Shutdown(conn)
               ELSE [conn EXCEPT !.stage = IF shaken THEN "failed" ELSE @,
                                 !.cut = @ \/ shaken \/ closes]
    /\ Fault /\ Return(u)
    /\ UNCHANGED <<driver, queries, cached, cursor, held, conts, srvVars, awaiting>>

-----------------------------------------------------------------------------
(* Cursors.                                                                *)

(* next() and fetch_next() of Trio, Tornado and gevent; gevent asks for a  *)
(* batch once, before its loop.                                            *)
NextCall(u, t) ==
    LET wants == driver = "gevent" /\ WantsBatch(cursor[t]) IN
    /\ task[u] = Idle /\ t \in held /\ driver # "twisted"
    /\ \E cn \in Outcomes, raised \in BOOLEAN :
          /\ Fetch(awaiting, t, wants, cn, raised)
          /\ conn' = cn
          /\ IF raised THEN UNCHANGED task ELSE At(u, "next", "next", t)
    /\ cursor' = [cursor EXCEPT ![t] = Counted(@, wants)]
    /\ UNCHANGED <<driver, queries, cached, held, srvVars, faults>>

(* A row is there: next() takes it, fetch_next() leaves it.                *)
NextItem(u) ==
    LET t == task[u].t IN
    /\ task[u].pc = "next" /\ cursor[t].items > 0
    /\ \/ cursor' = [cursor EXCEPT ![t].items = @ - 1, ![t].got = @ + 1]
       \/ driver # "gevent" /\ UNCHANGED cursor
    /\ Return(u)
    /\ UNCHANGED <<driver, conn, queries, cached, held, conts, srvVars, awaiting, faults>>

NextError(u) ==
    /\ task[u].pc = "next" /\ cursor[task[u].t].items = 0 /\ cursor[task[u].t].error # "None"
    /\ Return(u)
    /\ UNCHANGED <<driver, conn, queries, cached, cursor, held, conts, srvVars, awaiting, faults>>

(* The rest of the loop: wait for new_response, in Trio and Tornado after  *)
(* _maybe_fetch_batch.                                                     *)
NextWait(u) ==
    LET t == task[u].t
        wants == driver # "gevent" /\ WantsBatch(cursor[t])
    IN
    /\ task[u].pc = "next" /\ cursor[t].items = 0 /\ cursor[t].error = "None"
    /\ \E cn \in Outcomes, raised \in BOOLEAN :
          /\ Fetch(awaiting, t, wants, cn, raised)
          /\ conn' = cn
          /\ IF raised THEN Return(u) ELSE Goto(u, "wait")
    /\ cursor' = [cursor EXCEPT ![t] = Counted(@, wants)]
    /\ UNCHANGED <<driver, queries, cached, held, srvVars, faults>>

(* Twisted: next() takes a row or queues up in CursorItems, and asks for a *)
(* batch; fetch_next() asks and adds its Deferred to `waiting'.            *)
TwistedNext(u, t, pc) ==
    LET c     == cursor[t]
        after == IF pc = "fetch" THEN [c EXCEPT !.waiting = IF c.stale THEN @ ELSE Append(@, u)]
                 ELSE IF c.items > 0 THEN [c EXCEPT !.items = @ - 1, !.got = @ + 1]
                 ELSE [c EXCEPT !.getters = Append(@, u)]
    IN
    /\ task[u] = Idle /\ t \in held /\ driver = "twisted"
    /\ IF c.items > 0 THEN pc = "get" ELSE c.error = "None"
    /\ Fetch(awaiting, t, WantsBatch(after), conn, FALSE)
    /\ cursor' = [cursor EXCEPT ![t] = Counted(after, WantsBatch(after))]
    /\ IF c.items > 0 THEN UNCHANGED task ELSE At(u, pc, "next", t)
    /\ UNCHANGED <<driver, conn, queries, cached, held, srvVars, faults>>

(* Twisted: the Deferred of a next() was called back with a row.           *)
TakeRow(u) ==
    /\ task[u].pc = "taken"
    /\ cursor' = [cursor EXCEPT ![task[u].t].got = @ + 1]
    /\ Return(u)
    /\ UNCHANGED <<driver, conn, queries, cached, held, conts, srvVars, awaiting, faults>>

(* A timeout.  Twisted's next() leaves the queue; its fetch_next() leaves  *)
(* a Deferred behind that has been called.                                 *)
Position(w, u) == CHOOSE i \in DOMAIN w : w[i] = u

NextTimeout(u) ==
    LET t == task[u].t
        c == cursor[t]
    IN
    /\ task[u].pc \in {"wait", "get", "fetch"}
    /\ cursor' = [cursor EXCEPT ![t] =
          IF u \in ToSet(c.getters)
          THEN [c EXCEPT !.getters = RemoveAt(@, Position(@, u))]
          ELSE IF u \in ToSet(c.waiting)
          THEN [c EXCEPT !.waiting = SubSeq(@, 1, Position(@, u) - 1), !.stale = TRUE]
          ELSE c]
    /\ Return(u)
    /\ UNCHANGED <<driver, conn, queries, cached, held, conts, srvVars, awaiting, faults>>

(* Cursor.close: a STOP, if the instance is open.  Nobody who waits for    *)
(* the cursor is woken before the answer.                                  *)
CursorClose(u, t) ==
    LET stop == IsOpen IN
    /\ task[u] = Idle /\ t \in held /\ cursor[t].error = "None"
    /\ cursor' = [cursor EXCEPT ![t].error = "Stopped",
                                ![t].outstanding = IF stop THEN @ + 1 ELSE @]
    /\ IF stop /\ driver = "trio"
       THEN At(u, "send", "stop", t) /\ UNCHANGED <<conn, awaiting>>
       ELSE /\ UNCHANGED task
            /\ IF stop /\ Usable
               THEN \E ok \in BOOLEAN :
                       /\ Writes(ok)
                       /\ conn' = Written(conn, ok)
                       /\ awaiting' = Deliver(awaiting, t, ok)
               ELSE UNCHANGED <<conn, awaiting>>
    /\ UNCHANGED <<driver, queries, cached, held, conts, srvVars, faults>>

-----------------------------------------------------------------------------
(* Connection.close and ConnectionInstance.close up to the answer to their *)
(* NOREPLY_WAIT, if that is wanted and can be sent.                        *)
Close(u, noreply_wait) ==
    LET t == conn.next_token
        cn == [conn EXCEPT !.attached = FALSE, !.next_token = 0, !.closing = TRUE]
        OnItsWay(pc) == [task EXCEPT ![u] = [pc |-> pc, op |-> "close", t |-> t]]
    IN
    /\ task[u] = Idle /\ conn.attached /\ conn.stage = "ready"
    /\ \E w \in Tellings(cached, cursor) :
          \/ /\ ~w.whole
             /\ Tell(w, cursor, cached, task, {})
             /\ conn' = cn /\ UNCHANGED awaiting
          \/ /\ w.whole /\ ~noreply_wait
             /\ Tell(w, cursor, cached,
                     IF driver = "trio" THEN OnItsWay("shut") ELSE task, {})
             /\ conn' = Shutdown(cn) /\ UNCHANGED awaiting
          \/ /\ w.whole /\ noreply_wait /\ driver = "trio"
             /\ Tell(w, cursor, cached, OnItsWay("send"), {})
             /\ conn' = cn /\ UNCHANGED awaiting
          \/ /\ w.whole /\ noreply_wait /\ driver # "trio"
             /\ \E ok \in BOOLEAN :
                   /\ Writes(ok)
                   /\ Tell(w, cursor, cached, IF ok THEN OnItsWay("flush") ELSE task,
                           IF ok THEN {t} ELSE {})
                   /\ conn' = Written(cn, ok)
                   /\ awaiting' = Deliver(awaiting, t, ok)
    /\ UNCHANGED <<driver, held, conts, srvVars, faults>>

(* The rest of it, after the answer.                                       *)
CloseStream(u) ==
    /\ task[u].pc = "flushed"
    /\ conn' = Shutdown(conn)
    /\ IF driver = "trio" THEN Goto(u, "shut") ELSE Return(u)
    /\ UNCHANGED <<driver, queries, cached, cursor, held, conts, srvVars, awaiting, faults>>

(* Mutant: nobody waits for the end of the reader, or sets it.             *)
ShutNever(u) == FALSE

(* Trio waits for its reader.                                              *)
Shut(u) ==
    /\ task[u].pc = "shut" /\ conn.reader = "ended"
    /\ Return(u)
    /\ UNCHANGED <<driver, conn, queries, cached, cursor, held, conts, srvVars, awaiting, faults>>

-----------------------------------------------------------------------------
(* The reader.                                                             *)

Response == [type : {"SUCCESS_PARTIAL", "SUCCESS_SEQUENCE", "ERROR"}, rows : 0 .. MaxRows]

(* What the server may answer for a stream (external), as in Net.          *)
MayAnswer(t, r) ==
    /\ sent[t] + r.rows <= MaxRows
    /\ r.type = "ERROR" => r.rows = 0
    /\ r.type = "SUCCESS_PARTIAL" => r.rows > 0 \/ cursor[t].error = "Absent"
    /\ done[t] => r.type # "SUCCESS_PARTIAL" /\ r.rows = 0

Answered(t, r) ==
    /\ sent' = [sent EXCEPT ![t] = @ + r.rows]
    /\ done' = [done EXCEPT ![t] = @ \/ r.type # "SUCCESS_PARTIAL"]
    /\ UNCHANGED link

(* Tornado reads what is in its buffer also when the stream has ended.     *)
Reading == conn.reader = "run" /\ (conn.stream = "open" \/ (driver = "tornado" /\ ~conn.closing))
Reads(t) == Reading /\ awaiting[t] > 0
Left(t) == [awaiting EXCEPT ![t] = @ - 1]

EndOf(r) == CASE r.type = "SUCCESS_PARTIAL"  -> "None"
              [] r.type = "SUCCESS_SEQUENCE" -> "Empty"
              [] OTHER                       -> "Server"

(* Mutant: a closed or failed cursor goes on taking rows.                  *)
ExtendInternalAlways(c, r) ==
    [c EXCEPT !.threshold = IF r.type = "ERROR" THEN 1 ELSE r.rows,
              !.items     = @ + r.rows,
              !.error     = IF @ = "None" THEN EndOf(r) ELSE @]

(* Cursor._extend_internal.                                                *)
ExtendInternal(c, r) ==
    [c EXCEPT !.threshold = IF r.type = "ERROR" THEN 1 ELSE r.rows,
              !.items     = IF c.error = "None" THEN @ + r.rows ELSE @,
              !.error     = IF @ = "None" THEN EndOf(r) ELSE @]

(* A response for a cached cursor: its _extend.  In Twisted a fetch_next() *)
(* that is called back and finds neither row nor error asks again.         *)
ReadBatch(t, r) ==
    LET c      == [cursor[t] EXCEPT !.outstanding = @ - 1]
        wants  == WantsBatch(c)
        asked  == Counted(c, wants)
        longer == ExtendInternal(asked, r)
        cache  == IF longer.outstanding = 0 /\ longer.error # "None" THEN cached \ {t} ELSE cached
        again  == /\ longer.waiting # <<>> /\ ~Ready(longer)
                  /\ WantsBatch(Served(longer))
        after  == [cursor EXCEPT ![t] = Counted(Served(longer), again)]
        woken  == Woken(task, {t}, [cursor EXCEPT ![t] = longer])
    IN
    /\ t \in cached /\ MayAnswer(t, r) /\ Reads(t) /\ Answered(t, r)
    /\ \E cn \in Outcomes, raised \in BOOLEAN :
          /\ Fetch(Left(t), t, wants \/ again, cn, raised)
          /\ CASE raised -> Raises([cursor EXCEPT ![t] = asked], cached, task, cn)
               [] ~raised /\ longer.stale -> Raises(after, cache, woken, cn)
               [] OTHER -> /\ cursor' = after /\ cached' = cache /\ task' = woken
                           /\ conn' = cn /\ UNCHANGED queries
    /\ UNCHANGED <<driver, held, faults>>

(* The answer to a query that is not a stream.                             *)
ReadValue(t) ==
    /\ t \notin cached /\ queries[t] # "none" /\ Reads(t)
    /\ awaiting' = Left(t)
    /\ queries' = [queries EXCEPT ![t] = "none"]
    /\ task' = [u \in Task |->
          CASE task[u].pc = "run" /\ task[u].t = t   -> Idle
            [] task[u].pc = "flush" /\ task[u].t = t -> [task[u] EXCEPT !.pc = "flushed"]
            [] OTHER                                 -> task[u]]
    /\ UNCHANGED <<driver, conn, cached, cursor, held, conts, srvVars, faults>>

(* The answer to a query that is one: the constructor of the cursor enters *)
(* the cache, sends CONTINUE and takes the first batch.  When the CONTINUE *)
(* raises in gevent, the cursor has no new_response yet: close() raises at *)
(* it, after the other cursors and before the futures and the socket.      *)
ReadStream(t, r) ==
    LET begun == [cursor EXCEPT ![t].error = "None", ![t].outstanding = 1]
        first == [cursor EXCEPT ![t] = ExtendInternal([begun[t] EXCEPT !.items = 0], r)]
        live  == {s \in cached \cup {t} : begun[s].error = "None"}
        users == {u \in Task : task[u].pc = "run" /\ task[u].t = t}
    IN
    /\ t \notin cached /\ queries[t] = "start" /\ r.type # "ERROR" /\ MayAnswer(t, r)
    /\ Reads(t) /\ Answered(t, r)
    /\ \E cn \in Outcomes, raised \in BOOLEAN :
          /\ Fetch(Left(t), t, TRUE, cn, raised)
          /\ CASE raised /\ driver = "gevent" ->
                     /\ Tell([told |-> live, whole |-> FALSE], begun, cached \cup {t}, task, {})
                     /\ conn' = [cn EXCEPT !.closing = TRUE, !.reader = "ended"]
                     /\ UNCHANGED held
               [] raised /\ driver # "gevent" ->
                     /\ Raises(begun, cached \cup {t}, task, cn)
                     /\ UNCHANGED held
               [] OTHER ->
                     /\ cursor' = first /\ cached' = cached \cup {t} /\ conn' = cn
                     /\ queries' = [queries EXCEPT ![t] = "none"]
                     /\ held' = IF users = {} THEN held ELSE held \cup {t}
                     /\ task' = [u \in Task |-> IF u \in users THEN Idle ELSE task[u]]
    /\ UNCHANGED <<driver, faults>>

(* A response that belongs to nobody is skipped while closing, ...         *)
SkipWhileClosing(t) ==
    /\ conn.closing /\ t \notin cached /\ queries[t] = "none" /\ Reads(t)
    /\ awaiting' = Left(t)
    /\ UNCHANGED <<driver, conn, queries, cached, cursor, held, conts, srvVars, faults, task>>

(* ... and an error otherwise: a stray one, or in Trio the answer to a     *)
(* query that has been sent and not been registered.                       *)
UnexpectedResponse(t) ==
    /\ Reading /\ ~conn.closing
    /\ \/ Fault /\ UNCHANGED awaiting
       \/ /\ awaiting[t] > 0 /\ t \notin cached /\ queries[t] = "none"
          /\ awaiting' = Left(t) /\ UNCHANGED faults
    /\ Raises(cursor, cached, task, conn)
    /\ UNCHANGED <<driver, held, conts, srvVars>>

Nothing == awaiting' = [t \in Token |-> 0]

(* Trio does not see the end of the stream: receive_some returns nothing   *)
(* and _read_exactly calls it again.                                       *)
ReadNothing ==
    /\ driver = "trio" /\ conn.reader = "run" /\ conn.stream = "open" /\ link = "eof"
    /\ conn' = [conn EXCEPT !.reader = "spin"]
    /\ Nothing
    /\ UNCHANGED <<driver, queries, cached, cursor, held, conts, srvVars, faults, task>>

(* The stream has been reset or closed, or has ended.                      *)
ReadEnd ==
    /\ driver # "twisted" /\ conn.reader \in {"run", "spin"}
    /\ conn.stream = "closed" \/ link = "reset" \/ (driver # "trio" /\ link = "eof")
    /\ Raises(cursor, cached, task,
              IF driver = "trio" THEN [conn EXCEPT !.closed = TRUE]
                                 ELSE [conn EXCEPT !.stream = "closed"])
    /\ Nothing
    /\ UNCHANGED <<driver, held, conts, srvVars, faults>>

(* Twisted: connectionLost, which tells nobody; after loseConnection(),    *)
(* nothing is read any more.                                               *)
ConnectionLost ==
    /\ driver = "twisted" /\ conn.stream \in {"open", "draining"}
    /\ conn.stream = "draining" \/ link # "up"
    /\ conn' = [conn EXCEPT !.stream = "closed",
                            !.reader = IF @ = "run" THEN "ended" ELSE @]
    /\ Nothing
    /\ UNCHANGED <<driver, queries, cached, cursor, held, conts, srvVars, faults, task>>

(* Tornado: the stream notices its end before the reader does.             *)
StreamEnds ==
    /\ driver = "tornado" /\ conn.stream = "open" /\ link # "up"
    /\ conn' = [conn EXCEPT !.stream = "closed"]
    /\ UNCHANGED <<driver, queries, cached, cursor, held, conts, srvVars, awaiting, faults,
                   task>>

(* The network.  A server that is gone answers what is sent to it with a   *)
(* reset.                                                                  *)
Drop(end) ==
    /\ conn.stream = "open"
    /\ \/ link = "up" /\ Fault
       \/ link = "eof" /\ end = "reset" /\ UNCHANGED faults
    /\ link' = end
    /\ UNCHANGED <<driver, conn, queries, cached, cursor, held, conts, sent, done, awaiting,
                   task>>

-----------------------------------------------------------------------------
Call(u) ==
    \/ ConnectCall(u)
    \/ \E op \in {"start", "plain"} : Run(u, op)
    \/ \E t \in Token : \/ NextCall(u, t) \/ CursorClose(u, t)
                        \/ \E pc \in {"get", "fetch"} : TwistedNext(u, t, pc)
    \/ \E noreply_wait \in BOOLEAN : Close(u, noreply_wait)
    \/ Cancel(u)
    \/ NextTimeout(u)

Resume(u) ==
    \/ \E ok \in BOOLEAN : OpenStream(u, ok)
    \/ HandshakeDone(u)
    \/ Send(u) \/ Register(u)
    \/ NextItem(u) \/ NextError(u) \/ NextWait(u) \/ TakeRow(u)
    \/ CloseStream(u) \/ Shut(u)

ReadResponse ==
    \/ \E t \in Token, r \in Response : ReadBatch(t, r) \/ ReadStream(t, r)
    \/ \E t \in Token : ReadValue(t) \/ SkipWhileClosing(t)
    \/ ReadNothing \/ ReadEnd \/ ConnectionLost

Next ==
    \/ \E u \in Task : Call(u) \/ Resume(u) \/ HandshakeFails(u)
    \/ \E t \in Token : ContinueRuns(t) \/ UnexpectedResponse(t)
    \/ ReadResponse
    \/ TimerFires \/ HandshakeLate \/ StreamEnds
    \/ \E end \in {"eof", "reset"} : Drop(end)

Spec == Init /\ [][Next]_vars

(* The event loop runs what is ready, its timer fires, and the server      *)
(* answers what it received.                                               *)
FairSpec ==
    /\ Spec
    /\ \A u \in Task : WF_vars(Resume(u))
    /\ WF_vars(\E t \in Token : ContinueRuns(t))
    /\ WF_vars(ReadResponse)
    /\ WF_vars(TimerFires)

-----------------------------------------------------------------------------
(* Properties.                                                             *)

TypeOK ==
    /\ conn \in ConnType
    /\ queries \in [Token -> {"none", "start", "plain"}]
    /\ cached \subseteq Token /\ held \subseteq Token /\ conts \subseteq Token
    /\ \A t \in Token :
          /\ cursor[t].error \in {"Absent", "None", "Empty", "Stopped", "Runtime", "Server"}
          /\ cursor[t].outstanding \in -1 .. 2
          /\ cursor[t].threshold \in 0 .. MaxRows + 1
          /\ cursor[t].items \in 0 .. MaxRows /\ cursor[t].got \in 0 .. MaxRows
    /\ link \in {"up", "eof", "reset"}
    /\ awaiting \in [Token -> 0 .. 2]
    /\ faults \in 0 .. MaxFaults
    /\ \A u \in Task : task[u].pc \in Place /\ task[u].t \in Token

(* A connect() that failed and a close() that ended have closed the        *)
(* stream, except: Twisted leaves the transport to its handshake timer;    *)
(* connect() or close() was cancelled on its way; close() raised at a      *)
(* Deferred that had timed out (Twisted), before it came to the stream.    *)
(* gevent's close() may raise at a cursor under construction, but then its *)
(* socket is closed already.                                               *)
NothingLeftOpen ==
    /\ conn.stage = "failed" => conn.stream # "open" \/ conn.timer \/ conn.cut
    /\ conn.closing /\ conn.stage = "ready" /\ conn.stream = "open" =>
          \/ conn.cut
          \/ \E u \in Task : task[u].op = "close"
          \/ \E t \in Token : cursor[t].stale

(* Every answer on its way is expected, so no reader closes a connection   *)
(* over "Unexpected response received." - unless the server makes one up,  *)
(* or Trio reads the answer before run_query() has registered the query.   *)
NoUnexpectedResponse ==
    \A t \in Token : awaiting[t] > 0 /\ conn.reader = "run" =>
        \/ t \in cached \/ queries[t] # "none" \/ conn.closing
        \/ \E u \in Task : task[u].pc = "sent" /\ task[u].t = t

(* outstanding_requests counts what is really owed to a cursor: one too    *)
(* few and it would ask twice, one too many and it never asks again.  In   *)
(* Trio a CONTINUE is counted when its task starts, a STOP when it is      *)
(* about to be sent.                                                       *)
RequestsAccounted ==
    \A t \in cached : cursor[t].error = "None" /\ Usable /\ conn.stream = "open" /\ link = "up" =>
        cursor[t].outstanding = awaiting[t] + IF t \in conts THEN 1 ELSE 0

(* The state invariant of the four drivers.                                *)
LoopInv == TypeOK /\ NothingLeftOpen /\ NoUnexpectedResponse /\ RequestsAccounted

(* What a cursor of any driver promises its reader, over all interleavings *)
(* of tasks, reader, cancellation and loss of the link: no row is lost,    *)
(* doubled or invented, a stream is reported complete only if it is, and a *)
(* cursor ends once.                                                       *)
Stream == INSTANCE ResultStream WITH
    Cursor    <- Token,
    produced  <- sent,
    finished  <- done,
    available <- [t \in Token |->
        IF t \in held
        THEN cursor[t].got + cursor[t].items
               + Cardinality({u \in Task : task[u].pc = "taken" /\ task[u].t = t})
        ELSE 0],
    delivered <- [t \in Token |-> cursor[t].got],
    status    <- [t \in Token |->
        IF t \notin held THEN "absent"
        ELSE CASE cursor[t].error = "None"     -> "open"
               [] cursor[t].error = "Empty"    -> "complete"
               [] cursor[t].error = "Stopped"  -> "closed"
               [] OTHER                        -> "failed"]

ImplementsResultStream == Stream!Spec

(* The ways in which a call of these drivers hangs although the loop runs  *)
(* and the server answers what it received.                                *)

(* Its future is left to a reader that has ended, or that Trio lets spin   *)
(* at the end of the stream: the NOREPLY_WAIT of a close() under which the *)
(* link breaks, all queries when Twisted loses the connection or gevent    *)
(* and Twisted raise within close().                                       *)
ReaderGone(u) == task[u].pc \in {"run", "flush"} /\ conn.reader # "run"

(* Trio: the answer came between the write and the registration, and was   *)
(* skipped because the connection is closing.                              *)
AnswerSkipped(u) ==
    /\ driver = "trio" /\ task[u].pc \in {"run", "flush"}
    /\ conn.closing /\ awaiting[task[u].t] = 0

(* Trio: close() waits for a reader that waits for its own end.            *)
ReaderStuck(u) == task[u].pc = "shut" /\ conn.reader = "stuck"

(* A task waits for a cursor that another one has closed, and the answer   *)
(* to STOP cannot come any more, ...                                       *)
ClosedUnderneath(u) ==
    /\ task[u].pc \in {"wait", "get", "fetch"} /\ cursor[task[u].t].error = "Stopped"
    /\ conn.closing \/ conn.reader # "run"

(* ... or for a batch that nobody reads: Trio spins, Twisted has lost the  *)
(* connection and tells nobody, or its fetch_next() stands behind one that *)
(* timed out.                                                              *)
NobodyTells(u) ==
    \/ task[u].pc = "wait" /\ conn.reader = "spin"
    \/ task[u].pc \in {"get", "fetch"} /\ conn.stream # "open"
    \/ task[u].pc = "fetch" /\ u \notin ToSet(cursor[task[u].t].waiting)

(* gevent's next() and Twisted's ask for a batch once, before they wait: a *)
(* second one on a cursor that began with an empty batch is left without   *)
(* a request when the first one takes the next row.                        *)
NobodyAsks(u) ==
    /\ \/ task[u].pc = "get"
       \/ task[u].pc = "wait" /\ driver = "gevent"
    /\ cursor[task[u].t].error = "None" /\ cursor[task[u].t].outstanding = 0

Abandoned(u) ==
    \/ ReaderGone(u) \/ AnswerSkipped(u) \/ ReaderStuck(u)
    \/ ClosedUnderneath(u) \/ NobodyTells(u) \/ NobodyAsks(u)

(* Every call returns or raises, except in the ways above.                 *)
CallEnds == \A u \in Task : (task[u] # Idle) ~> (task[u] = Idle \/ Abandoned(u))
=============================================================================

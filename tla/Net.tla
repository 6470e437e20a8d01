-------------------------------- MODULE Net --------------------------------
(***************************************************************************)
(* The blocking driver of rethinkdb/net.py: Connection, its current        *)
(* ConnectionInstance, and the cursors that instance created, used by one  *)
(* thread.  A call runs without interruption up to the point where it      *)
(* blocks in SocketWrapper.recvall; what happens there is a step of its    *)
(* own, chosen by the server, the network, the clock or a Ctrl-C.          *)
(*                                                                         *)
(* A server (external) answers every request exactly once and in any       *)
(* order; its answer is decided when the driver reads it.  `awaiting'      *)
(* counts, per token, the requests of the current TCP connection that the  *)
(* server has received and not answered.                                   *)
(***************************************************************************)
EXTENDS Integers, Sequences, FiniteSets

CONSTANTS
    MaxGen,       \* bound: ConnectionInstances created over the life of a Connection
    MaxToken,     \* bound: the last token of an instance (kept for close())
    MaxRows,      \* bound: rows of one result stream
    MaxNoreply    \* bound: noreply queries pending at the server

ASSUME BoundsAssumption ==
    /\ MaxGen \in Nat \ {0}
    /\ MaxToken \in Nat
    /\ MaxRows \in Nat
    /\ MaxNoreply \in Nat

VARIABLES
    \* Connection
    instance,     \* _instance: 0 is None, otherwise the number of the instance
    next_token,   \* _next_token
    \* The ConnectionInstance created last, and its SocketWrapper
    gen,          \* its number
    sock,         \* "none": _socket is None; else is the wrapper's socket open
    blocking,     \* the OS socket is in blocking mode
    closing,      \* _closing
    cached,       \* the keys of _cursor_cache
    \* Cursors, by <<instance number, token>>
    items, outstanding, threshold, error,
    held,         \* the cursors the application has a reference to
    got,          \* number of the last row handed to the application
    \* The server and the network
    link,         \* "up", or "down" once the TCP connection is dead
    awaiting,
    sent, done,   \* per cursor: rows sent, and whether the stream has ended
    unacked,      \* noreply queries sent and not known to be executed
    \* The application thread
    call,         \* the blocked call
    ret           \* how the last finished call ended

connVars   == <<instance, next_token>>
instVars   == <<gen, sock, blocking, closing, cached>>
cursorVars == <<items, outstanding, threshold, error, held, got>>
srvVars    == <<link, awaiting, sent, done, unacked>>
vars == <<connVars, instVars, cursorVars, srvVars, call, ret>>

Gen    == 1 .. MaxGen
Token  == 0 .. MaxToken
Cursor == Gen \X Token

(* Cursor.error.  "Empty" and "Stopped" are both a DefaultCursorEmpty: the *)
(* first set by the last batch, the second by close().  "Absent": no such  *)
(* cursor has been created.                                                *)
CursorError == {"Absent", "None", "Empty", "Stopped", "Runtime", "Server"}

(* Where the thread is blocked: in run_query for a START, NOREPLY_WAIT or  *)
(* SERVER_INFO, at the head of the loop of _get_next ("check") or in its   *)
(* _read_response ("read"), in the NOREPLY_WAIT of close() or reconnect(). *)
RunOps   == {"start", "wait", "info"}
CloseOps == {"close", "reconnect"}
Op       == {"idle", "check", "read"} \cup RunOps \cup CloseOps

Idle == [op |-> "idle", g |-> 1, t |-> 0, deadline |-> FALSE]

Outcome == {"none", "row", "value", "cursor", "StopIteration", "flushed",
            "closed", "connected", "ReqlRuntimeError", "ReqlServerError",
            "ReqlDriverError", "ReqlTimeoutError", "AttributeError",
            "KeyboardInterrupt"}

NoneAwaiting == [t \in Token |-> 0]
Cur(t)       == <<gen, t>>

(* The driver is inside _read_response.                                    *)
Reading == call.op \in {"read"} \cup RunOps \cup CloseOps

-----------------------------------------------------------------------------
(* make_connection has returned: the first instance is connected.          *)
Init ==
    /\ instance = 1 /\ next_token = 0
    /\ gen = 1 /\ sock = "open" /\ blocking = TRUE /\ closing = FALSE
    /\ cached = {}
    /\ items = [c \in Cursor |-> <<>>]
    /\ outstanding = [c \in Cursor |-> 0]
    /\ threshold = [c \in Cursor |-> 1]
    /\ error = [c \in Cursor |-> "Absent"]
    /\ held = {}
    /\ got = [c \in Cursor |-> 0]
    /\ link = "up" /\ awaiting = NoneAwaiting
    /\ sent = [c \in Cursor |-> 0]
    /\ done = [c \in Cursor |-> FALSE]
    /\ unacked = 0
    /\ call = Idle /\ ret = "none"

Return(outcome) == call' = Idle /\ ret' = outcome

Block(op, g, t, deadline) ==
    /\ call' = [op |-> op, g |-> g, t |-> t, deadline |-> deadline]
    /\ ret' = "none"

-----------------------------------------------------------------------------
(* SocketWrapper.  Data handed to a dead link is lost without an error, or *)
(* sendall closes the socket and raises ReqlDriverError; it also does so   *)
(* when a socket left in non-blocking mode would block.                    *)

Deliver(aw, t) == IF link = "up" THEN [aw EXCEPT ![t] = @ + 1] ELSE aw

SendMayFail == link = "down" \/ ~blocking

SocketClose == sock' = "closed" /\ awaiting' = NoneAwaiting

(* Connection.check_open, for an instance that is not usable.              *)
NotOpen == instance = 0 \/ sock # "open"
CheckOpenError ==
    IF instance # 0 /\ sock = "none" THEN "AttributeError" ELSE "ReqlDriverError"

(* Connection._new_token followed by the send of a request that has an     *)
(* answer; the thread blocks in _read_response, whose recvall first makes  *)
(* the socket blocking again.                                              *)
SendAndBlock(op) ==
    /\ next_token' = next_token + 1
    /\ \/ /\ awaiting' = Deliver(awaiting, next_token)
          /\ blocking' = TRUE
          /\ Block(op, gen, next_token, FALSE)
          /\ UNCHANGED sock
       \/ /\ SendMayFail
          /\ SocketClose
          /\ Return("ReqlDriverError")
          /\ UNCHANGED blocking

-----------------------------------------------------------------------------
(* Cursor.                                                                 *)

(* Mutant: the threshold is compared off by one.                           *)
WantsBatchLate(c, n) ==
    error[c] = "None" /\ Len(items[c]) + 1 < threshold[c] /\ n = 0

(* The test of _maybe_fetch_batch, with `n' requests outstanding.          *)
WantsBatch(c, n) ==
    error[c] = "None" /\ Len(items[c]) < threshold[c] /\ n = 0

(* A response as far as the driver tells them apart: its type and the      *)
(* number of rows in its data (an error's data is its message).            *)
Response == [type : {"SUCCESS_PARTIAL", "SUCCESS_SEQUENCE", "ERROR"}, rows : 0 .. MaxRows]
DataLen(r) == IF r.type = "ERROR" THEN 1 ELSE r.rows
Rows(c, r) == [i \in 1 .. r.rows |-> sent[c] + i]

(* Mutant: a finished cursor leaves the cache at once, although answers    *)
(* are still owed to it.                                                   *)
ExtendInternalUncaches(c, r, n) ==
    /\ threshold' = [threshold EXCEPT ![c] = DataLen(r)]
    /\ items' = [items EXCEPT ![c] = IF error[c] = "None" THEN @ \o Rows(c, r) ELSE @]
    /\ error' = [error EXCEPT ![c] =
            IF @ # "None" THEN @
            ELSE CASE r.type = "SUCCESS_PARTIAL"  -> "None"
                   [] r.type = "SUCCESS_SEQUENCE" -> "Empty"
                   [] OTHER                       -> "Server"]
    /\ cached' = IF error'[c] # "None" THEN cached \ {c[2]} ELSE cached

(* Mutant: the rows of the last batch are not kept.                        *)
ExtendInternalDropsLast(c, r, n) ==
    /\ threshold' = [threshold EXCEPT ![c] = DataLen(r)]
    /\ items' = [items EXCEPT ![c] = IF error[c] = "None" /\ r.type = "SUCCESS_PARTIAL"
                                     THEN @ \o Rows(c, r) ELSE @]
    /\ error' = [error EXCEPT ![c] =
            IF @ # "None" THEN @
            ELSE CASE r.type = "SUCCESS_PARTIAL"  -> "None"
                   [] r.type = "SUCCESS_SEQUENCE" -> "Empty"
                   [] OTHER                       -> "Server"]
    /\ cached' = IF n = 0 /\ error'[c] # "None" THEN cached \ {c[2]} ELSE cached

(* Cursor._extend_internal, with `n' requests outstanding.                 *)
ExtendInternal(c, r, n) ==
    /\ threshold' = [threshold EXCEPT ![c] = DataLen(r)]
    /\ items' = [items EXCEPT ![c] = IF error[c] = "None" THEN @ \o Rows(c, r) ELSE @]
    /\ error' = [error EXCEPT ![c] =
            IF @ # "None" THEN @
            ELSE CASE r.type = "SUCCESS_PARTIAL"  -> "None"
                   [] r.type = "SUCCESS_SEQUENCE" -> "Empty"
                   [] OTHER                       -> "Server"]
    /\ cached' = IF n = 0 /\ error'[c] # "None" THEN cached \ {c[2]} ELSE cached

(* What the server may answer to a START, and to a CONTINUE or STOP of a   *)
(* stream (external): once a stream has ended, an empty end or an error;   *)
(* a PARTIAL answer to a CONTINUE carries rows.                            *)
MayAnswer(c, r) ==
    /\ sent[c] + r.rows <= MaxRows
    /\ r.type = "ERROR" => r.rows = 0
    /\ r.type = "SUCCESS_PARTIAL" => r.rows > 0 \/ error[c] = "Absent"
    /\ done[c] => r.type # "SUCCESS_PARTIAL" /\ r.rows = 0

Answered(c, r) ==
    /\ sent' = [sent EXCEPT ![c] = @ + r.rows]
    /\ done' = [done EXCEPT ![c] = @ \/ r.type # "SUCCESS_PARTIAL"]

(* Mutants: the cache is emptied, and the cursors are not told; or they    *)
(* are told that their streams are complete.                               *)
ErrorCursorsForgets ==
    /\ cached' = {}
    /\ UNCHANGED cursorVars

ErrorCursorsCompletes ==
    LET failed == {c \in Cursor : c[1] = gen /\ c[2] \in cached /\ error[c] = "None"} IN
    /\ error' = [c \in Cursor |-> IF c \in failed THEN "Empty" ELSE error[c]]
    /\ cached' = {}
    /\ UNCHANGED <<items, outstanding, threshold, held, got>>

(* ConnectionInstance.close up to its NOREPLY_WAIT: Cursor._error on every *)
(* cached cursor, and an empty cache.                                      *)
ErrorCursors ==
    LET failed == {c \in Cursor : c[1] = gen /\ c[2] \in cached /\ error[c] = "None"} IN
    /\ error' = [c \in Cursor |-> IF c \in failed THEN "Runtime" ELSE error[c]]
    /\ outstanding' = [c \in Cursor |-> IF c \in failed THEN outstanding[c] - 1 ELSE outstanding[c]]
    /\ threshold' = [c \in Cursor |-> IF c \in failed THEN 0 ELSE threshold[c]]
    /\ cached' = {}
    /\ UNCHANGED <<items, held, got>>

(* The rest of Connection.reconnect: a new instance, and its connect().    *)
(* When SocketWrapper.__init__ raises, the instance's _socket stays None.  *)
Connect(ok) ==
    /\ gen' = gen + 1 /\ instance' = gen + 1 /\ next_token' = 0
    /\ sock' = IF ok THEN "open" ELSE "none"
    /\ blocking' = TRUE /\ closing' = FALSE
    /\ link' = "up" /\ awaiting' = NoneAwaiting /\ unacked' = 0
    /\ UNCHANGED <<sent, done>>

-----------------------------------------------------------------------------
(* Calls of the application.                                               *)

(* check_open fails in run(), noreply_wait() or server().                  *)
Refused ==
    /\ call = Idle /\ NotOpen
    /\ Return(CheckOpenError)
    /\ UNCHANGED <<connVars, instVars, cursorVars, srvVars>>

(* Connection._start of a query with an answer.                            *)
Start ==
    /\ call = Idle /\ ~NotOpen /\ next_token < MaxToken
    /\ SendAndBlock("start")
    /\ UNCHANGED <<instance, gen, closing, cached, cursorVars, link, sent, done, unacked>>

(* Connection._start with noreply=True.                                    *)
StartNoreply ==
    /\ call = Idle /\ ~NotOpen /\ next_token < MaxToken /\ unacked < MaxNoreply
    /\ next_token' = next_token + 1
    /\ \/ /\ unacked' = unacked + 1 /\ Return("value")
          /\ UNCHANGED <<sock, awaiting>>
       \/ /\ SendMayFail /\ SocketClose /\ Return("ReqlDriverError")
          /\ UNCHANGED unacked
    /\ UNCHANGED <<instance, gen, blocking, closing, cached, cursorVars, link, sent, done>>

(* Connection.noreply_wait and Connection.server.                          *)
NoreplyWaitOrServer ==
    /\ call = Idle /\ ~NotOpen /\ next_token < MaxToken
    /\ \E op \in {"wait", "info"} : SendAndBlock(op)
    /\ UNCHANGED <<instance, gen, closing, cached, cursorVars, link, sent, done, unacked>>

(* Cursor.next(wait): with wait=True there is no deadline.                 *)
NextCall(c, deadline) ==
    /\ call = Idle /\ c \in held
    /\ Block("check", c[1], c[2], deadline)
    /\ UNCHANGED <<connVars, instVars, cursorVars, srvVars>>

Called == <<call.g, call.t>>

(* The loop of DefaultCursor._get_next: an item is there.                  *)
GetNextItem ==
    /\ call.op = "check" /\ items[Called] # <<>>
    /\ got' = [got EXCEPT ![Called] = Head(items[Called])]
    /\ items' = [items EXCEPT ![Called] = Tail(@)]
    /\ Return("row")
    /\ UNCHANGED <<connVars, instVars, outstanding, threshold, error, held, srvVars>>

(* The stream is over, or failed.                                          *)
GetNextError ==
    /\ call.op = "check" /\ items[Called] = <<>> /\ error[Called] # "None"
    /\ Return(CASE error[Called] \in {"Empty", "Stopped"} -> "StopIteration"
                [] error[Called] = "Runtime" -> "ReqlRuntimeError"
                [] OTHER -> "ReqlServerError")
    /\ UNCHANGED <<connVars, instVars, cursorVars, srvVars>>

(* Go and read, after asking for a batch if none is on its way.  The       *)
(* CONTINUE goes to the parent's current instance, the read to the         *)
(* cursor's own one.                                                       *)
GetNextRead ==
    /\ call.op = "check" /\ items[Called] = <<>> /\ error[Called] = "None"
    /\ IF WantsBatch(Called, outstanding[Called])
       THEN /\ outstanding' = [outstanding EXCEPT ![Called] = @ + 1]
            /\ \/ /\ ~NotOpen
                  /\ awaiting' = Deliver(awaiting, call.t)
                  /\ Block("read", call.g, call.t, call.deadline)
                  /\ UNCHANGED sock
               \/ /\ ~NotOpen /\ SendMayFail
                  /\ SocketClose
                  /\ Return("ReqlDriverError")
               \/ /\ NotOpen
                  /\ Return(CheckOpenError)
                  /\ UNCHANGED <<sock, awaiting>>
       ELSE /\ IF call.g = gen /\ sock = "open"
               THEN Block("read", call.g, call.t, call.deadline)
               ELSE Return("AttributeError")
            /\ UNCHANGED <<outstanding, sock, awaiting>>
    /\ blocking' = IF call'.op = "read" /\ ~call.deadline THEN TRUE ELSE blocking
    /\ UNCHANGED <<connVars, gen, closing, cached, items, threshold, error, held, got,
                   link, sent, done, unacked>>

(* Mutant: the STOP is not counted.                                        *)
CursorCloseUncounted(c) ==
    /\ call = Idle /\ c \in held /\ error[c] = "None"
    /\ error' = [error EXCEPT ![c] = "Stopped"]
    /\ IF c[1] = gen /\ sock = "open"
       THEN \/ awaiting' = Deliver(awaiting, c[2]) /\ Return("value") /\ UNCHANGED sock
            \/ SendMayFail /\ SocketClose /\ Return("ReqlDriverError")
       ELSE Return("value") /\ UNCHANGED <<sock, awaiting>>
    /\ UNCHANGED <<connVars, gen, blocking, closing, cached, items, outstanding, threshold,
                   held, got, link, sent, done, unacked>>

(* Cursor.close.                                                           *)
CursorClose(c) ==
    /\ call = Idle /\ c \in held /\ error[c] = "None"
    /\ error' = [error EXCEPT ![c] = "Stopped"]
    /\ IF c[1] = gen /\ sock = "open"
       THEN /\ outstanding' = [outstanding EXCEPT ![c] = @ + 1]
            /\ \/ /\ awaiting' = Deliver(awaiting, c[2])
                  /\ Return("value")
                  /\ UNCHANGED sock
               \/ /\ SendMayFail
                  /\ SocketClose
                  /\ Return("ReqlDriverError")
       ELSE Return("value") /\ UNCHANGED <<outstanding, sock, awaiting>>
    /\ UNCHANGED <<connVars, gen, blocking, closing, cached, items, threshold, held, got,
                   link, sent, done, unacked>>

(* Connection.close(noreply_wait) and Connection.reconnect(noreply_wait)   *)
(* on an instance: the instance is detached and its cursors fail; then the *)
(* socket is closed, at once or after the answer to a NOREPLY_WAIT.  An    *)
(* instance that never connected has no socket to send on or to close.     *)
CloseCall(op, noreply_wait) ==
    /\ call = Idle /\ instance # 0
    /\ op = "reconnect" => gen < MaxGen
    /\ ErrorCursors
    /\ \/ /\ sock = "none" /\ Return("AttributeError")
          /\ instance' = 0 /\ next_token' = 0 /\ closing' = TRUE
          /\ UNCHANGED <<gen, sock, blocking, srvVars>>
       \/ /\ sock # "none" /\ ~noreply_wait /\ op = "close"
          /\ instance' = 0 /\ next_token' = 0 /\ closing' = TRUE
          /\ SocketClose /\ Return("closed")
          /\ UNCHANGED <<gen, blocking, link, sent, done, unacked>>
       \/ /\ sock # "none" /\ ~noreply_wait /\ op = "reconnect"
          /\ \E ok \in BOOLEAN : /\ Connect(ok)
                                 /\ Return(IF ok THEN "connected" ELSE "ReqlDriverError")
       \/ /\ sock = "closed" /\ noreply_wait /\ Return("ReqlDriverError")
          /\ instance' = 0 /\ next_token' = 0 /\ closing' = TRUE
          /\ UNCHANGED <<gen, sock, blocking, srvVars>>
       \/ /\ sock = "open" /\ noreply_wait
          /\ instance' = 0 /\ next_token' = 0 /\ closing' = TRUE
          /\ \/ /\ awaiting' = Deliver(awaiting, next_token)
                /\ blocking' = TRUE
                /\ Block(op, gen, next_token, FALSE)
                /\ UNCHANGED sock
             \/ /\ SendMayFail /\ SocketClose /\ Return("ReqlDriverError")
                /\ UNCHANGED blocking
          /\ UNCHANGED <<gen, link, sent, done, unacked>>

(* ... and without one: close() does nothing, reconnect() connects.        *)
CloseDetached ==
    /\ call = Idle /\ instance = 0
    /\ Return("closed")
    /\ UNCHANGED <<connVars, instVars, cursorVars, srvVars>>

ReconnectDetached ==
    /\ call = Idle /\ instance = 0 /\ gen < MaxGen
    /\ \E ok \in BOOLEAN : /\ Connect(ok)
                           /\ Return(IF ok THEN "connected" ELSE "ReqlDriverError")
    /\ UNCHANGED <<cached, cursorVars>>

-----------------------------------------------------------------------------
(* What a blocked _read_response meets.                                    *)

(* A response to a request with token `t' may arrive (external).  The      *)
(* server keeps the answer to a NOREPLY_WAIT, and that one only, until the *)
(* noreply queries before it have been executed.                           *)
NoreplyWaits == {"wait"} \cup CloseOps
MayArrive(t) ==
    awaiting[t] > IF call.op \in NoreplyWaits /\ t = call.t /\ unacked > 0 THEN 1 ELSE 0

(* Mutant: while closing, whatever arrives ends the wait.                  *)
ForCallWhileClosing(t) == t \notin cached /\ (t = call.t \/ closing)

(* The driver's dispatch, by the token of the response alone: a cursor's   *)
(* answer goes to the cursor; an answer with the token of the blocked      *)
(* query is that query's; any other is nobody's.                           *)
ForCursor(t) == t \in cached
ForCall(t)   == t \notin cached /\ t = call.t
ForNobody(t) == ~ForCursor(t) /\ ~ForCall(t)

Take(t) == awaiting' = [awaiting EXCEPT ![t] = @ - 1]

(* A response for a cached cursor: Cursor._extend, which asks for the next *)
(* batch first.  When that send raises, the response just read is dropped. *)
(* _get_next goes round its loop after a response of its own cursor.       *)
ReadCursorFrame(t, r) ==
    LET c    == Cur(t)
        n    == outstanding[c] - 1
        left == [awaiting EXCEPT ![t] = @ - 1]
    IN
    /\ Reading /\ MayArrive(t) /\ ForCursor(t) /\ MayAnswer(c, r)
    /\ Answered(c, r)
    /\ blocking' = TRUE
    /\ \/ /\ outstanding' = [outstanding EXCEPT ![c] = IF WantsBatch(c, n) THEN 1 ELSE n]
          /\ awaiting' = IF WantsBatch(c, n) THEN Deliver(left, t) ELSE left
          /\ ExtendInternal(c, r, outstanding'[c])
          /\ IF call.op = "read" /\ call.t = t
             THEN Block("check", call.g, call.t, call.deadline)
             ELSE UNCHANGED <<call, ret>>
          /\ UNCHANGED sock
       \/ /\ WantsBatch(c, n) /\ link = "down"
          /\ SocketClose
          /\ Return("ReqlDriverError")
          /\ UNCHANGED <<outstanding, threshold, items, error, cached>>
    /\ UNCHANGED <<connVars, gen, closing, held, got, link, unacked>>

(* The answer to a START: a value, an error, or a stream.                  *)
ReadValue(t) ==
    /\ call.op = "start" /\ MayArrive(t) /\ ForCall(t)
    /\ \E outcome \in {"value", "ReqlServerError"} : Return(outcome)
    /\ Take(t)
    /\ UNCHANGED <<connVars, instVars, cursorVars, link, sent, done, unacked>>

(* The constructor of DefaultCursor: it enters the cache, asks for the     *)
(* next batch, and only then takes the first one.                          *)
ReadStream(t, r) ==
    LET c    == Cur(call.t)
        left == [awaiting EXCEPT ![t] = @ - 1]
    IN
    /\ call.op = "start" /\ MayArrive(t) /\ ForCall(t)
    /\ r.type # "ERROR" /\ MayAnswer(c, r)
    /\ Answered(c, r)
    /\ outstanding' = [outstanding EXCEPT ![c] = 1]
    /\ \/ /\ awaiting' = Deliver(left, call.t)
          /\ threshold' = [threshold EXCEPT ![c] = DataLen(r)]
          /\ items' = [items EXCEPT ![c] = Rows(c, r)]
          /\ error' = [error EXCEPT ![c] = IF r.type = "SUCCESS_PARTIAL" THEN "None" ELSE "Empty"]
          /\ held' = held \cup {c}
          /\ Return("cursor")
          /\ UNCHANGED sock
       \/ /\ link = "down"
          /\ SocketClose
          /\ error' = [error EXCEPT ![c] = "None"]
          /\ Return("ReqlDriverError")
          /\ UNCHANGED <<threshold, items, held>>
    /\ cached' = cached \cup {call.t}
    /\ UNCHANGED <<connVars, gen, blocking, closing, got, link, unacked>>

(* The answer to a SERVER_INFO, and to a NOREPLY_WAIT.                     *)
ReadServerInfo(t) ==
    /\ call.op = "info" /\ MayArrive(t) /\ ForCall(t)
    /\ \E outcome \in {"value", "ReqlServerError"} : Return(outcome)
    /\ Take(t)
    /\ UNCHANGED <<connVars, instVars, cursorVars, link, sent, done, unacked>>

ReadWaitComplete(t) ==
    /\ call.op = "wait" /\ MayArrive(t) /\ ForCall(t)
    /\ Return("flushed")
    /\ Take(t)
    /\ UNCHANGED <<connVars, instVars, cursorVars, link, sent, done, unacked>>

(* The same while closing: the instance's close() closes the socket, and   *)
(* reconnect() goes on to connect.                                         *)
CloseCompletes(t) ==
    /\ call.op = "close" /\ MayArrive(t) /\ ForCall(t)
    /\ SocketClose
    /\ Return("flushed")
    /\ UNCHANGED <<connVars, gen, blocking, closing, cached, cursorVars, link, sent, done, unacked>>

ReconnectCompletes(t) ==
    /\ call.op = "reconnect" /\ MayArrive(t) /\ ForCall(t) /\ gen < MaxGen
    /\ \E ok \in BOOLEAN : /\ Connect(ok)
                           /\ Return(IF ok THEN "connected" ELSE "ReqlDriverError")
    /\ UNCHANGED <<cached, cursorVars>>

(* While closing, the answers to the dropped cursors' requests are skipped.*)
SkipWhileClosing(t) ==
    /\ Reading /\ closing /\ MayArrive(t) /\ ForNobody(t)
    /\ Take(t)
    /\ UNCHANGED <<connVars, instVars, cursorVars, link, sent, done, unacked, call, ret>>

(* A response nobody waits for: the instance closes itself, the connection *)
(* keeps it.                                                               *)
UnexpectedResponse(t) ==
    /\ Reading /\ ~closing /\ ForNobody(t)
    /\ ErrorCursors
    /\ closing' = TRUE
    /\ SocketClose
    /\ blocking' = TRUE
    /\ Return("ReqlDriverError")
    /\ UNCHANGED <<connVars, gen, link, sent, done, unacked>>

(* The deadline passes.  With no time left the socket is in non-blocking   *)
(* mode, and recvall leaves it there.                                      *)
ReadTimeout ==
    /\ call.op = "read" /\ call.deadline
    /\ blocking' \in BOOLEAN
    /\ Return("ReqlTimeoutError")
    /\ UNCHANGED <<connVars, gen, sock, closing, cached, cursorVars, srvVars>>

(* Mutant: recvall reads on at the end of the stream.                      *)
ConnectionLostRetries == Reading /\ link = "down" /\ UNCHANGED vars

(* recvall meets the end of the stream or a reset, and closes the socket;  *)
(* any other error of the operating system leaves the socket open, but     *)
(* nothing more arrives on it.  close() closes it in either case.          *)
ConnectionLost ==
    /\ Reading /\ link = "down"
    /\ \/ SocketClose
       \/ /\ call.op \notin CloseOps
          /\ awaiting' = NoneAwaiting
          /\ UNCHANGED sock
    /\ Return("ReqlDriverError")
    /\ UNCHANGED <<connVars, gen, blocking, closing, cached, cursorVars, link, sent, done, unacked>>

(* Ctrl-C: the connection is dropped and a new one is made.                *)
KeyboardInterrupt ==
    /\ Reading /\ gen < MaxGen
    /\ ErrorCursors
    /\ \E ok \in BOOLEAN : /\ Connect(ok)
                           /\ Return(IF ok THEN "KeyboardInterrupt" ELSE "ReqlDriverError")

-----------------------------------------------------------------------------
(* The environment.                                                        *)

Drop ==
    /\ link = "up" /\ sock = "open"
    /\ link' = "down"
    /\ UNCHANGED <<connVars, instVars, cursorVars, awaiting, sent, done, unacked, call, ret>>

ExecuteNoreply ==
    /\ link = "up" /\ unacked > 0
    /\ unacked' = unacked - 1
    /\ UNCHANGED <<connVars, instVars, cursorVars, link, awaiting, sent, done, call, ret>>

-----------------------------------------------------------------------------
UserCall ==
    \/ Refused
    \/ Start
    \/ StartNoreply
    \/ NoreplyWaitOrServer
    \/ \E c \in Cursor, deadline \in BOOLEAN : NextCall(c, deadline)
    \/ \E c \in Cursor : CursorClose(c)
    \/ \E op \in CloseOps, noreply_wait \in BOOLEAN : CloseCall(op, noreply_wait)
    \/ CloseDetached
    \/ ReconnectDetached

GetNext == GetNextItem \/ GetNextError \/ GetNextRead

Read ==
    \/ \E t \in Token, r \in Response : ReadCursorFrame(t, r) \/ ReadStream(t, r)
    \/ \E t \in Token : ReadValue(t) \/ ReadServerInfo(t) \/ ReadWaitComplete(t)
    \/ \E t \in Token : CloseCompletes(t) \/ ReconnectCompletes(t)
    \/ \E t \in Token : SkipWhileClosing(t)
    \/ ConnectionLost

Disturbance ==
    \/ \E t \in Token : UnexpectedResponse(t)
    \/ ReadTimeout
    \/ KeyboardInterrupt
    \/ Drop

Next == UserCall \/ GetNext \/ Read \/ Disturbance \/ ExecuteNoreply

Spec == Init /\ [][Next]_vars

(* The driver keeps running, the server answers what it received and       *)
(* executes what it was told, and the keep-alive that SocketWrapper sets   *)
(* reports a dead link.                                                    *)
Fairness == WF_vars(GetNext) /\ WF_vars(Read) /\ WF_vars(ExecuteNoreply)

FairSpec == Spec /\ Fairness

-----------------------------------------------------------------------------
(* Types, and what follows from the control flow alone: only an open       *)
(* socket is read, and a detached instance has nothing cached.             *)
TypeOK ==
    /\ instance \in {0, gen} /\ next_token \in Token
    /\ gen \in Gen /\ sock \in {"none", "open", "closed"}
    /\ blocking \in BOOLEAN /\ closing \in BOOLEAN /\ cached \subseteq Token
    /\ items \in [Cursor -> Seq(Nat)]
    /\ outstanding \in [Cursor -> Int]
    /\ threshold \in [Cursor -> Nat]
    /\ error \in [Cursor -> CursorError]
    /\ held \subseteq Cursor
    /\ got \in [Cursor -> Nat]
    /\ link \in {"up", "down"}
    /\ awaiting \in [Token -> Nat]
    /\ sent \in [Cursor -> Nat] /\ done \in [Cursor -> BOOLEAN]
    /\ unacked \in Nat
    /\ call \in [op : Op, g : Gen, t : Token, deadline : BOOLEAN]
    /\ ret \in Outcome

(* A cursor that may still ask its parent for more rows belongs to the     *)
(* instance the parent would send the request on, and is in its cache:     *)
(* `_continue' and `_stop' use the parent's current instance, so a         *)
(* survivor of close(), reconnect() or Ctrl-C would address another stream.*)
StaleCursorInert ==
    \A c \in Cursor : error[c] = "None" =>
        instance = gen /\ c[1] = gen /\ c[2] \in cached /\ ~closing

(* No answer the server still owes can end in "Unexpected response         *)
(* received.": its token is that of a cached cursor or of the blocked      *)
(* call, or the instance is closing and skips it.                          *)
NoUnexpectedResponse ==
    \A t \in Token : awaiting[t] > 0 =>
        \/ t \in cached
        \/ closing
        \/ call.op \in RunOps /\ t = call.t

(* outstanding_requests never forgets a request: every answer owed to a    *)
(* cursor is counted, a finished cursor leaves the cache exactly with its  *)
(* last answer, and before it is closed a cursor has one request at most.  *)
RequestsAccounted ==
    \A t \in cached :
        /\ awaiting[t] <= outstanding[Cur(t)]
        /\ link = "up" /\ sock = "open" => awaiting[t] = outstanding[Cur(t)]
        /\ outstanding[Cur(t)] = 0 /\ sock = "open" => error[Cur(t)] = "None"
        /\ error[Cur(t)] # "Stopped" => outstanding[Cur(t)] <= 1

(* A thread blocked in next() waits for an answer the server owes, unless  *)
(* the link is dead: the prefetch before each read never gets lost.        *)
WaiterHasRequest ==
    call.op = "read" /\ link = "up" => awaiting[call.t] > 0

(* As long as a cursor is alive on an open socket, and when it has ended   *)
(* by itself, every row the server sent has reached the cursor; an end     *)
(* comes only from a finished stream.                                      *)
NoRowLost ==
    \A c \in Cursor :
        /\ error[c] = "None" /\ sock = "open" => got[c] + Len(items[c]) = sent[c]
        /\ error[c] = "Empty" => done[c] /\ got[c] + Len(items[c]) = sent[c]

(* When close(noreply_wait=True) or noreply_wait() returns normally, no    *)
(* noreply query of the connection is still to be executed: the response   *)
(* that ended the call answered its NOREPLY_WAIT, and not a query or a     *)
(* dropped cursor whose answer was still owed.  It rests on a token that   *)
(* no request of the instance has used (close() takes it before it resets  *)
(* _next_token) and on the comparison of tokens in _read_response.         *)
FlushedMeansExecuted == ret = "flushed" => unacked = 0

(* What the application sees of its cursors is the behaviour of a gapless  *)
(* result stream (ResultStream), across batches, cursor.close(), errors,   *)
(* lost links, reconnects and Ctrl-C.                                      *)
StreamStatus(e) ==
    CASE e = "Absent"  -> "absent"
      [] e = "None"    -> "open"
      [] e = "Empty"   -> "complete"
      [] e = "Stopped" -> "closed"
      [] OTHER         -> "failed"

Stream == INSTANCE ResultStream WITH
    produced  <- sent,
    finished  <- done,
    available <- [c \in Cursor |-> got[c] + Len(items[c])],
    delivered <- got,
    status    <- [c \in Cursor |-> StreamStatus(error[c])]

ImplementsResultStream == Stream!Spec

(* A blocked call ends: with a row, an answer, or an error.                *)
CallReturns == (call # Idle) ~> (call = Idle)

(* The parts of the inductive invariant that are not properties above.     *)

(* Which instance may be read or written: a detached or closing one has no *)
(* cursors, and only the NOREPLY_WAIT of a close() is still read from it;  *)
(* a closed socket owes nothing.                                           *)
ControlInv ==
    /\ Reading => sock = "open"
    /\ call.op \in CloseOps => instance = 0
    /\ instance = 0 => closing /\ next_token = 0
    /\ closing => cached = {}
    /\ closing /\ call.op \notin CloseOps => sock # "open"
    /\ sock # "open" => awaiting = NoneAwaiting
    /\ sock = "none" => cached = {}
    /\ call.op = "read" => call.g = gen /\ error[Called] = "None"

(* Tokens in use on the current instance have been taken from next_token,  *)
(* and the token of a running query has no cursor yet.                     *)
TokenInv ==
    /\ \A t \in Token : t \in cached \/ (awaiting[t] > 0 /\ ~closing) => t < next_token
    /\ call.op \in RunOps => /\ call.t < next_token /\ call.t \notin cached
                             /\ error[Cur(call.t)] = "Absent"
                             /\ awaiting[call.t] <= 1
    /\ \A c \in Cursor : c[1] > gen => error[c] = "Absent" /\ outstanding[c] = 0
    /\ \A t \in Token : instance = gen /\ t >= next_token => error[Cur(t)] = "Absent"
    /\ \A t \in cached : error[Cur(t)] # "Absent"
    /\ \A c \in held : error[c] # "Absent"
    /\ call.op \in {"check", "read"} => Called \in held

NetInv ==
    /\ TypeOK
    /\ StaleCursorInert
    /\ NoUnexpectedResponse
    /\ RequestsAccounted
    /\ ControlInv
    /\ TokenInv
=============================================================================

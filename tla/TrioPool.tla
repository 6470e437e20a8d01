------------------------------ MODULE TrioPool ------------------------------
(***************************************************************************)
(* TrioConnectionPool of trio_net, with the context manager that acquires  *)
(* and releases.  A connection is what EventLoop models in detail; here it *)
(* has the states the pool can tell apart, and those in which its close()  *)
(* ends up: EventLoop shows why a close() hangs when the link is gone or   *)
(* its reader has failed.                                                  *)
(*                                                                         *)
(* Only an await of make_connection or of a close() lets other tasks run;  *)
(* between two of them a method of the pool is one step.                   *)
(***************************************************************************)
EXTENDS Integers, Sequences

CONSTANTS
    Conn,       \* connections that can be made in a behaviour (bound)
    Task,       \* tasks of the application
    MaxIdle     \* the parameter maxidle

ASSUME TrioPoolAssumption == MaxIdle \in Nat

VARIABLES
    conn,       \* state of each connection
    idle,       \* _connections, a deque
    lent,       \* _lent_out
    closed,     \* _closed
    task,       \* where each task is, with which connections
    late        \* history: connections made when close() had been called

vars == <<conn, idle, lent, closed, task, late>>

(* "eof": the peer has closed it, and nobody has noticed; "broken": its    *)
(* reader has, has closed the stream and waits for its own end; "closing": *)
(* close() awaits the answer to NOREPLY_WAIT; "hung" and "stuck": and it   *)
(* never comes, with the stream open or closed; "leaked": a close() or a   *)
(* connect() was cancelled and has left the stream open.                   *)
ConnState == {"unmade", "making", "open", "eof", "broken",
              "closing", "hung", "stuck", "closed", "leaked"}

(* Connection.is_open: nobody has called close() and no error was seen.    *)
IsOpen(c) == conn[c] \in {"open", "eof"}

(* pc "make": acquire() awaits make_connection; "use": between acquire()   *)
(* and release(); "release", "close": in release() or close() of the pool, *)
(* with the connections whose close() is scheduled (todo) and awaited      *)
(* (waits).                                                                *)
TaskType == [pc    : {"idle", "make", "use", "release", "close"},
             with  : SUBSET Conn,
             todo  : SUBSET Conn,
             waits : SUBSET Conn]

Idle == [pc |-> "idle", with |-> {}, todo |-> {}, waits |-> {}]
Enter(u, pc, with, todo, waits) ==
    task' = [task EXCEPT ![u] = [pc |-> pc, with |-> with, todo |-> todo, waits |-> waits]]
Return(u) == task' = [task EXCEPT ![u] = Idle]

Members(q) == {q[i] : i \in 1 .. Len(q)}

Init ==
    /\ conn = [c \in Conn |-> "unmade"]
    /\ idle = <<>> /\ lent = {} /\ closed = FALSE /\ late = {}
    /\ task = [u \in Task |-> Idle]

-----------------------------------------------------------------------------
(* acquire() takes the first connection of the deque that is open, drops   *)
(* those in front of it, ...                                               *)
AcquireIdle(u) ==
    /\ task[u] = Idle /\ ~closed
    /\ \E i \in 1 .. Len(idle) :
          /\ IsOpen(idle[i])
          /\ \A j \in 1 .. i - 1 : ~IsOpen(idle[j])
          /\ idle' = SubSeq(idle, i + 1, Len(idle))
          /\ lent' = lent \cup {idle[i]}
          /\ Enter(u, "use", {idle[i]}, {}, {})
    /\ UNCHANGED <<conn, closed, late>>

(* ... or drops all of them and makes a new one.                           *)
AcquireNew(u) ==
    /\ task[u] = Idle /\ ~closed
    /\ \A i \in 1 .. Len(idle) : ~IsOpen(idle[i])
    /\ idle' = <<>>
    /\ \E c \in Conn :
          /\ conn[c] = "unmade"
          /\ conn' = [conn EXCEPT ![c] = "making"]
          /\ Enter(u, "make", {c}, {}, {})
    /\ UNCHANGED <<lent, closed, late>>

(* make_connection returns; whether the pool has been closed meanwhile is  *)
(* not asked.                                                              *)
Made(u) ==
    /\ task[u].pc = "make"
    /\ \E c \in task[u].with :
          /\ conn' = [conn EXCEPT ![c] = "open"]
          /\ lent' = lent \cup {c}
          /\ Enter(u, "use", {c}, {}, {})
          /\ late' = IF closed \/ \E v \in Task : task[v].pc = "close"
                     THEN late \cup {c} ELSE late
    /\ UNCHANGED <<idle, closed>>

MakeFails(u) ==
    /\ task[u].pc = "make"
    /\ conn' = [c \in Conn |-> IF c \in task[u].with THEN "closed" ELSE conn[c]]
    /\ Return(u)
    /\ UNCHANGED <<idle, lent, closed, late>>

-----------------------------------------------------------------------------
(* Connection.close up to its first await.  A second caller returns at     *)
(* once; the answer to NOREPLY_WAIT never comes on a connection that is    *)
(* dead, whether that has been noticed or not.                             *)
Begins(s) ==
    CASE s = "open"   -> "closing"
      [] s = "eof"    -> "hung"
      [] s = "broken" -> "stuck"
      [] OTHER        -> s

(* Mutant: Connection.close does not look whether it was called before.    *)
AwaitsAlways(s) == s # "closed"

Awaits(s) == s \in {"open", "eof", "broken"}

(* A close() that is cancelled while it waits, or at its first await.      *)
Abandons(s) ==
    CASE s \in {"closing", "hung"} -> "leaked"
      [] s = "stuck"               -> "closed"
      [] OTHER                     -> s
CutShort(s) == IF Awaits(s) THEN Abandons(Begins(s)) ELSE s

(* Mutant: the connection stays in _lent_out.                              *)
ReleaseKeepsLent(u) ==
    /\ task[u].pc = "use"
    /\ \E c \in task[u].with :
          /\ IF Len(idle) < MaxIdle
             THEN idle' = Append(idle, c) /\ Return(u) /\ UNCHANGED <<conn, lent>>
             ELSE /\ conn' = [conn EXCEPT ![c] = Begins(@)]
                  /\ lent' = lent \ {c}
                  /\ IF Awaits(conn[c]) THEN Enter(u, "release", {}, {}, {c}) ELSE Return(u)
                  /\ UNCHANGED idle
    /\ UNCHANGED <<closed, late>>

(* release(): into the deque, whatever has become of it, or closed.        *)
Release(u) ==
    /\ task[u].pc = "use"
    /\ \E c \in task[u].with :
          /\ lent' = lent \ {c}
          /\ IF Len(idle) < MaxIdle
             THEN idle' = Append(idle, c) /\ Return(u) /\ UNCHANGED conn
             ELSE /\ conn' = [conn EXCEPT ![c] = Begins(@)]
                  /\ IF Awaits(conn[c]) THEN Enter(u, "release", {}, {}, {c}) ELSE Return(u)
                  /\ UNCHANGED idle
    /\ UNCHANGED <<closed, late>>

(* Mutant: connections that are lent are left to their borrowers.          *)
CloseIdleOnly(u) ==
    /\ task[u] = Idle
    /\ Enter(u, "close", {}, Members(idle), {})
    /\ UNCHANGED <<conn, idle, lent, closed, late>>

(* close(): a task for every connection; none of them has run yet.         *)
Close(u) ==
    /\ task[u] = Idle
    /\ Enter(u, "close", {}, Members(idle) \cup lent, {})
    /\ UNCHANGED <<conn, idle, lent, closed, late>>

CloseConn(u) ==
    /\ task[u].pc = "close"
    /\ \E c \in task[u].todo :
          /\ conn' = [conn EXCEPT ![c] = Begins(@)]
          /\ Enter(u, "close", {}, task[u].todo \ {c},
                   IF Awaits(conn[c]) THEN task[u].waits \cup {c} ELSE task[u].waits)
    /\ UNCHANGED <<idle, lent, closed, late>>

(* One close() that release() or close() of the pool awaits has ended.     *)
Awaited(u) ==
    /\ task[u].pc \in {"release", "close"}
    /\ \E c \in task[u].waits :
          /\ conn[c] = "closed"
          /\ task' = [task EXCEPT ![u].waits = @ \ {c}]
    /\ UNCHANGED <<conn, idle, lent, closed, late>>

Returns(u) ==
    /\ task[u].pc \in {"release", "close"} /\ task[u].todo = {} /\ task[u].waits = {}
    /\ closed' = (closed \/ task[u].pc = "close")
    /\ Return(u)
    /\ UNCHANGED <<conn, idle, lent, late>>

-----------------------------------------------------------------------------
(* A task is cancelled.  In the middle of `async with pool.connection()'   *)
(* its release() runs, and is cancelled where it first awaits; in close()  *)
(* so is the close() of every connection, and _closed is not set.          *)
Cancel(u) ==
    \/ /\ task[u].pc = "make"
       /\ \E end \in {"closed", "leaked"} :
             conn' = [c \in Conn |-> IF c \in task[u].with THEN end ELSE conn[c]]
       /\ Return(u)
       /\ UNCHANGED <<idle, lent, closed, late>>
    \/ /\ task[u].pc = "use" /\ Len(idle) >= MaxIdle
       /\ conn' = [c \in Conn |-> IF c \in task[u].with THEN CutShort(conn[c]) ELSE conn[c]]
       /\ lent' = lent \ task[u].with
       /\ Return(u)
       /\ UNCHANGED <<idle, closed, late>>
    \/ /\ task[u].pc \in {"release", "close"}
       /\ conn' = [c \in Conn |-> CASE c \in task[u].waits -> Abandons(conn[c])
                                    [] c \in task[u].todo  -> CutShort(conn[c])
                                    [] OTHER               -> conn[c]]
       /\ Return(u)
       /\ UNCHANGED <<idle, lent, closed, late>>

(* The connection itself (external): the link goes away, seen or not, ...  *)
Breaks(c, s) ==
    /\ \/ conn[c] \in {"open", "eof"} /\ s \in {"eof", "broken"} /\ s # conn[c]
       \/ conn[c] = "closing" /\ s = "hung"
    /\ conn' = [conn EXCEPT ![c] = s]
    /\ UNCHANGED <<idle, lent, closed, task, late>>

(* ... or its close() ends.                                                *)
Closes(c) ==
    /\ conn[c] = "closing"
    /\ conn' = [conn EXCEPT ![c] = "closed"]
    /\ UNCHANGED <<idle, lent, closed, task, late>>

Next ==
    \/ \E u \in Task :
          \/ AcquireIdle(u) \/ AcquireNew(u) \/ Made(u) \/ MakeFails(u)
          \/ Release(u) \/ Close(u) \/ CloseConn(u) \/ Awaited(u) \/ Returns(u)
          \/ Cancel(u)
    \/ \E c \in Conn : Closes(c) \/ \E s \in {"eof", "broken", "hung"} : Breaks(c, s)

Spec == Init /\ [][Next]_vars

(* Tasks run on, connections are made or fail, and a close() whose link    *)
(* holds ends.                                                             *)
FairSpec ==
    /\ Spec
    /\ \A u \in Task : /\ WF_vars(Made(u) \/ MakeFails(u))
                       /\ WF_vars(CloseConn(u)) /\ WF_vars(Awaited(u)) /\ WF_vars(Returns(u))
    /\ \A c \in Conn : WF_vars(Closes(c))

-----------------------------------------------------------------------------
TypeOK ==
    /\ conn \in [Conn -> ConnState]
    /\ idle \in Seq(Conn) /\ Len(idle) <= MaxIdle
    /\ lent \subseteq Conn /\ late \subseteq Conn
    /\ closed \in BOOLEAN
    /\ task \in [Task -> TaskType]

(* A connection is in the deque once, or lent to one task, or in nobody's  *)
(* hands: two tasks never talk over one connection.                        *)
OneOwner ==
    /\ \A i, j \in 1 .. Len(idle) : idle[i] = idle[j] => i = j
    /\ \A i \in 1 .. Len(idle) : idle[i] \notin lent
    /\ \A c \in Conn : c \in lent <=> \E u \in Task : task[u].pc = "use" /\ c \in task[u].with
    /\ \A u, v \in Task : u # v => task[u].with \cap task[v].with = {}

(* acquire() and release() lose no connection that is open: what is not in *)
(* the deque or lent has been closed, is being closed, or was cut short.   *)
NothingLost == \A c \in Conn : IsOpen(c) => c \in Members(idle) \cup lent

PoolInv == TypeOK /\ OneOwner /\ NothingLost

(* When close() has returned, no connection is open, but those that        *)
(* acquire() was making, or began to make, while close() was waiting.      *)
ClosedMeansClosed == closed => \A c \in Conn : IsOpen(c) => c \in late

(* A method of the pool returns, unless it awaits the close() of a         *)
(* connection that had died: one that broke while it was idle is enough    *)
(* for close() of the pool to hang.                                        *)
Hangs(u) == \E c \in task[u].waits : conn[c] \in {"hung", "stuck"}

PoolCallEnds ==
    \A u \in Task : task[u].pc \in {"make", "release", "close"} ~>
                       (task[u].pc \in {"idle", "use"} \/ Hangs(u))
=============================================================================
